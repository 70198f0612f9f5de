----------------------------- MODULE AgentRunProofs -----------------------------
(***************************************************************************)
(* Proofs about a run of the agent.  What makes them work is the order of  *)
(* the inbox: the server answers in the order it was asked, the agent      *)
(* waits for the answer to what it asked last, and so whatever is answered *)
(* to the agent leaves nothing behind that could still change something.   *)
(***************************************************************************)
EXTENDS AgentRun, FiniteSetTheorems, SequenceTheorems, TLAPS

Answers ==
  [is : {"none", "ok", "error", "lost"}, config : Configs, from : States, to : States]

Questions == {Call(kind) : kind \in {"streams", "scheduler", "benchmark", "snapshot", "rollback"}}
Requests == Questions \union Changes

Gathering == {"streams", "scheduler", "baseline", "before"}
Steps == Gathering \union {"check", "write", "after", "restore", "readback"}

Runs ==
  [phase : {"start", "plan", "replan"}, round : 0..MaxRounds, plan : Seq(Changes),
   seen : Configs, baseline : Configs, known : BOOLEAN, spoilt : BOOLEAN, aborting : BOOLEAN]

\* Where a run is says what it knows.
Progress(step, m) ==
  /\ m.known = (m.phase # "start")
  /\ step \in Steps \ {"streams", "scheduler", "baseline"} => m.known
  /\ step = "baseline" => ~m.known
  /\ step \in {"check", "write"} => m.plan # <<>>
  /\ Len(m.plan) <= MaxActions
  /\ step \in Gathering =>
       /\ m.round < MaxRounds /\ (m.phase # "replan" => m.round = 0)
       /\ ~m.aborting

\* Every type but the number of snapshots.
Types ==
  /\ state \in States /\ recoveryStep \in 0..LastRecoveryStep
  /\ priority \in [Streams -> Priorities] /\ interval \in [Streams -> Nat]
  /\ file \in [there : BOOLEAN, newer : Nat, config : Configs]
  /\ window \in States \union {"none"}
  /\ inbox \in Seq(Requests)
  /\ reply \in Answers /\ (reply.is = "none" => reply = NoAnswer)
  /\ pc \in Steps \union Ended
  /\ run \in Runs /\ Progress(pc, run)
  /\ measured \in Configs
  /\ mine \subseteq Streams

\* The requests that the answer to a call is an answer to.
Asks(step) ==
  IF step = "write" THEN {"interval", "priority"} ELSE {Request(step).kind}

Awaits ==
  pc \notin Ended =>
    /\ (reply = NoAnswer) = (inbox # <<>>)
    /\ inbox # <<>> => inbox[Len(inbox)].kind \in Asks(pc)

Benchmarks(queue) == {i \in DOMAIN queue : queue[i].kind = "benchmark"}

\* A window under way is about the oldest request, and nothing is asked behind the one
\* the agent waits for.
Windows ==
  /\ \A i, j \in Benchmarks(inbox) : i = j
  /\ window # "none" => 1 \in Benchmarks(inbox)
  /\ pc \in {"before", "after"} => Benchmarks(inbox) \subseteq {Len(inbox)}
  /\ pc \in {"streams", "scheduler", "baseline", "check", "write", "readback"} =>
       Benchmarks(inbox) = {}

Writers(queue) == {i \in DOMAIN queue : queue[i].kind \in {"interval", "priority"}}
Pending(queue) == {queue[i].stream : i \in Writers(queue)}
Planned(step, plan) ==
  IF step \in {"check", "write"} THEN {plan[i].stream : i \in DOMAIN plan} ELSE {}

\* What is, or may still become, a setting of the agent's.
Bounded ==
  /\ Cardinality(mine \union Pending(inbox) \union Planned(pc, run.plan)) <= MaxActions
  /\ pc \in Gathering \union {"readback"} => mine = {} /\ Pending(inbox) = {}
  /\ pc = "restore" /\ reply.is = "ok" => mine = {}

\* Nothing of the agent's is left once the inbox is empty.
Undone ==
  \/ Pending(inbox) = {} /\ (mine = {} \/ refused)
  \/ \E i \in DOMAIN inbox :
       inbox[i].kind = "rollback" /\ \A j \in Writers(inbox) : j < i

Traceless ==
  pc \in {"restore", "gaveUp"} \/ (pc = "escaped" /\ Transport = "urllib") => Undone

Measured ==
  /\ pc = "after" /\ ~disturbed /\ (window # "none" \/ reply.is = "ok") => measured = Config
  /\ pc = "kept" => inbox = <<>> /\ (~disturbed => measured = Config)

Savers(queue) == {i \in DOMAIN queue : queue[i].kind \in {"interval", "priority", "rollback"}}

Saves == MaxRounds * (MaxActions + 1) + 1

\* The server keeps as many snapshots as a run can take after its baseline.
Enough == MaxSnapshots > Saves

\* The snapshots a run may still ask for, those of a rollback included: MaxActions
\* and one a round, and one when it is aborted.
ToAsk(step, m) ==
  LET rounds == (MaxRounds - m.round) * (MaxActions + 1)
  IN  CASE step \in Gathering -> rounds + 1
        [] step = "check" -> rounds + Len(m.plan) + 2
        [] step = "write" -> rounds + Len(m.plan) + 1
        [] step = "after" -> rounds + 2
        [] step \in {"restore", "readback"} -> IF m.aborting THEN 0 ELSE rounds + 1
        [] OTHER -> 0

Kept ==
  /\ file.newer + Cardinality(Savers(inbox)) + ToAsk(pc, run) <= Saves
  /\ Enough => (run.known \/ (pc = "baseline" /\ reply.is = "ok") => file.there)

------------------------------------------------------------------------------
(* Plans *)

\* InOrder lists members of its set, if no two of them have as many before them.
LEMMA InOrderLists ==
  ASSUME NEW S, IsFiniteSet(S), NEW before \in [S -> SUBSET S],
         \A s \in S : s \notin before[s],
         \A s, t \in S : s # t => s \in before[t] \/ t \in before[s],
         \A s, t \in S : s \in before[t] => before[s] \subseteq before[t]
  PROVE  \A n \in 1..Cardinality(S) : InOrder(S, before)[n] \in S
<1> DEFINE N == Cardinality(S)
           place == [s \in S |-> Cardinality(before[s]) + 1]
<1>1. N \in Nat /\ IsFiniteSet(1..N) /\ Cardinality(1..N) = N
  BY FS_CardinalityType, FS_Interval
<1>2. ASSUME NEW s \in S
      PROVE  IsFiniteSet(before[s]) /\ Cardinality(before[s]) \in 0..(N - 1)
  <2>1. before[s] \in SUBSET S /\ before[s] # S
    OBVIOUS
  <2>2. IsFiniteSet(before[s]) /\ Cardinality(before[s]) <= N /\ Cardinality(before[s]) # N
    BY <2>1, FS_Subset
  <2>3. Cardinality(before[s]) \in Nat
    BY <2>2, FS_CardinalityType
  <2> QED BY <1>1, <2>2, <2>3
<1>3. ASSUME NEW s \in S, NEW t \in S, s \in before[t]
      PROVE  place[s] # place[t]
  <2>1. before[s] \subseteq before[t] /\ before[s] # before[t]
    <3>1. before[s] \subseteq before[t]
      BY <1>3
    <3>2. s \notin before[s]
      OBVIOUS
    <3> QED BY <1>3, <3>1, <3>2
  <2>2. Cardinality(before[s]) # Cardinality(before[t])
    BY <1>2, <2>1, FS_Subset
  <2> QED BY <1>2, <2>2
<1>4. place \in [S -> 1..N]
  BY <1>1, <1>2
<1>5. \A s, t \in S : place[s] = place[t] => s = t
  BY <1>3
<1>6. place \in Injection(S, 1..N)
  BY <1>4, <1>5 DEF Injection, IsInjective
<1>7. place \in Surjection(S, 1..N)
  BY <1>1, <1>6, FS_Injection
<1>8. \A n \in 1..N : \E s \in S : place[s] = n
  BY <1>7 DEF Surjection
<1>9. \A n \in 1..N : \E s \in S : Cardinality(before[s]) = n - 1
  BY <1>2, <1>8
<1> QED BY <1>9 DEF InOrder

LEMMA AtMostBounds ==
  ASSUME NEW n \in Nat
  PROVE  AtMost(n) \in Nat /\ AtMost(n) <= n /\ AtMost(n) <= MaxActions
BY AgentAssumption DEF AtMost

\* Whatever the language model proposes, a plan is of at most MaxActions changes, of
\* streams there are, at intervals up to MaxInterval.
LEMMA CleanIsPlan ==
  ASSUME NEW calls \in LlmAnswers
  PROVE  Clean(calls) \in Seq(Changes) /\ Len(Clean(calls)) <= MaxActions
<1> DEFINE fit == {i \in DOMAIN calls : Harmless(Clamped(calls[i])) /\ Fresh(calls, i)}
           before == [i \in fit |-> {j \in fit : j < i}]
           order == InOrder(fit, before)
           N == Cardinality(fit)
<1>1. calls \in Seq(Proposals)
  BY AgentAssumption
<1>2. fit \in SUBSET (1..Len(calls)) /\ Len(calls) \in Nat
  BY <1>1
<1>3. IsFiniteSet(fit) /\ N \in Nat
  <2> HIDE DEF fit
  <2>1. PICK n \in Nat : fit \in SUBSET (1..n)
    BY <1>2
  <2>2. IsFiniteSet(1..n)
    BY FS_Interval
  <2>3. IsFiniteSet(fit)
    BY <2>1, <2>2, FS_Subset
  <2> QED BY <2>3, FS_CardinalityType
<1>4. \A n \in 1..N : order[n] \in fit
  <2> HIDE DEF fit
  <2>1. fit \subseteq Nat
    BY <1>2
  <2>2. before \in [fit -> SUBSET fit]
    OBVIOUS
  <2>3. \A s \in fit : s \notin before[s]
    BY <2>1
  <2>4. \A s, t \in fit : s # t => s \in before[t] \/ t \in before[s]
    BY <2>1
  <2>5. \A s, t \in fit : s \in before[t] => before[s] \subseteq before[t]
    <3> SUFFICES ASSUME NEW s \in fit, NEW t \in fit, s < t, NEW u \in fit, u < s
                 PROVE  u < t
      OBVIOUS
    <3> QED BY <2>1
  <2> HIDE DEF before
  <2> QED BY <1>3, <2>2, <2>3, <2>4, <2>5, InOrderLists
<1>5. \A i \in fit : Clamped(calls[i]) \in Changes
  <2> SUFFICES ASSUME NEW i \in fit PROVE Clamped(calls[i]) \in Changes
    OBVIOUS
  <2>1. calls[i] \in Proposals
    BY <1>1
  <2>2. CASE calls[i] \in [kind : {"priority"}, stream : Streams, value : Priorities]
    BY <2>2 DEF Clamped, Changes
  <2>3. CASE calls[i] \in [kind : {"interval"}, stream : Streams, value : Int]
    <3> DEFINE c == calls[i]
               v == IF c.value < 0 THEN 0 ELSE IF c.value < MaxInterval THEN c.value ELSE MaxInterval
    <3>1. v \in 0..MaxInterval
      BY <2>3, AgentAssumption
    <3>2. Clamped(c) = [c EXCEPT !.value = v] /\ c.kind = "interval" /\ c.stream \in Streams
      BY <2>3 DEF Clamped
    <3> HIDE DEF v
    <3>3. Clamped(c) \in [kind : {"interval"}, stream : Streams, value : 0..MaxInterval]
      BY <2>3, <3>1, <3>2
    <3> QED BY <3>3 DEF Changes
  <2> QED BY <2>1, <2>2, <2>3 DEF Proposals
<1> HIDE DEF fit, order
<1>6. AtMost(N) \in Nat /\ AtMost(N) <= N /\ AtMost(N) <= MaxActions
  BY <1>3, AtMostBounds
<1>7. Clean(calls) = [n \in 1..AtMost(N) |-> Clamped(calls[order[n]])]
  BY DEF Clean, fit, order
<1>8. \A n \in 1..AtMost(N) : Clamped(calls[order[n]]) \in Changes
  BY <1>3, <1>4, <1>5, <1>6
<1> QED BY <1>6, <1>7, <1>8

LEMMA DeterministicIsPlan ==
  ASSUME NEW seen \in Configs, NEW attempt \in Nat
  PROVE  /\ Deterministic(seen, attempt) \in Seq(Changes)
         /\ Len(Deterministic(seen, attempt)) <= MaxActions
<1> DEFINE candidates == {s \in Streams \ {GoalCamera} : seen.interval[s] = 0}
           before == [s \in candidates |-> {t \in candidates : Before(seen, t, s)}]
           order == InOrder(candidates, before)
           N == Cardinality(candidates)
<1>1. candidates \in SUBSET Streams /\ Streams = 1..StreamCount /\ StreamCount \in Nat
  BY AgentAssumption DEF Streams
<1>2. IsFiniteSet(candidates) /\ N \in Nat
  <2> HIDE DEF candidates
  <2>1. IsFiniteSet(Streams)
    BY <1>1, FS_Interval
  <2>2. IsFiniteSet(candidates)
    BY <1>1, <2>1, FS_Subset
  <2> QED BY <2>2, FS_CardinalityType
<1>3. \A n \in 1..N : order[n] \in candidates
  <2> HIDE DEF candidates
  <2>1. \A s \in candidates : s \in Int /\ seen.priority[s] \in {"high", "normal", "low"}
    BY <1>1 DEF Configs, Priorities
  <2>2. before \in [candidates -> SUBSET candidates]
    OBVIOUS
  <2>3. \A s \in candidates : s \notin before[s]
    BY <2>1 DEF Before, Rank
  <2>4. \A s, t \in candidates : s # t => s \in before[t] \/ t \in before[s]
    BY <2>1 DEF Before, Rank
  <2>5. \A s, t \in candidates : s \in before[t] => before[s] \subseteq before[t]
    BY <2>1 DEF Before, Rank
  <2> HIDE DEF before
  <2> QED BY <1>2, <2>2, <2>3, <2>4, <2>5, InOrderLists
<1>4. Step(attempt) \in 0..MaxInterval
  BY AgentAssumption DEF Step
<1> HIDE DEF order
<1>5. AtMost(N) \in Nat /\ AtMost(N) <= N /\ AtMost(N) <= MaxActions
  BY <1>2, AtMostBounds
<1>6. Deterministic(seen, attempt) =
        [n \in 1..AtMost(N) |-> [kind |-> "interval", stream |-> order[n], value |-> Step(attempt)]]
  BY DEF Deterministic, order
<1>7. \A n \in 1..AtMost(N) :
        [kind |-> "interval", stream |-> order[n], value |-> Step(attempt)] \in Changes
  BY <1>1, <1>2, <1>3, <1>4, <1>5 DEF Changes
<1> HIDE DEF N
<1> QED BY <1>5, <1>6, <1>7

LEMMA PlanIsPlan ==
  ASSUME NEW seen \in Configs, NEW calls \in LlmAnswers
  PROVE  Plan(seen, calls) \in Seq(Changes) /\ Len(Plan(seen, calls)) <= MaxActions
BY CleanIsPlan, DeterministicIsPlan DEF Plan

------------------------------------------------------------------------------
(* What a step of the agent can be *)

Asked(step) == pc' = step /\ inbox' = Append(inbox, Request(step))

\* Before anything is changed in a round.
Gathers ==
  /\ pc \in Gathering /\ pc' \in Gathering /\ Asked(pc')
  /\ run'.round = run.round
  /\ pc' = "before" => pc = "baseline"
  /\ pc = "before" => reply.is = "ok"
  /\ run'.known => run.known \/ (pc = "baseline" /\ reply.is = "ok")

Plans ==
  /\ pc = "scheduler" /\ Asked("check")
  /\ run'.round = run.round + 1 /\ run'.known = run.known

Changing ==
  /\ pc = "check" /\ pc' = "write" /\ inbox' = Append(inbox, Head(run.plan))
  /\ run' = run

Proceeds ==
  /\ pc \in {"check", "write"} /\ pc' \in {"check", "after"} /\ Asked(pc')
  /\ run' = [run EXCEPT !.plan = Tail(run.plan)]

Restores ==
  /\ pc \notin Ended /\ Asked("restore")
  /\ run'.known /\ (run.known \/ (pc = "baseline" /\ reply.is = "ok"))
  /\ run'.aborting \/ (pc = "after" /\ run' = run)
  /\ pc \in {"restore", "readback"} => ~run.aborting

ReadsBack == pc = "restore" /\ reply.is = "ok" /\ Asked("readback") /\ run' = run

Again ==
  /\ pc = "readback" /\ ~run.aborting /\ Asked("streams")
  /\ run'.round = run.round /\ run'.known = run.known

Keeps == pc = "after" /\ reply.is = "ok" /\ pc' = "kept" /\ UNCHANGED <<inbox, run>>

GivesUp ==
  /\ pc \in {"streams", "scheduler", "restore", "readback"} /\ pc' = "gaveUp"
  /\ run'.known = run.known /\ UNCHANGED inbox

Falls ==
  /\ pc \notin Ended /\ pc' = "escaped" /\ UNCHANGED <<inbox, run>>
  /\ Transport = "urllib" => pc = "baseline"

Moves ==
  \/ Gathers \/ Plans \/ Changing \/ Proceeds \/ Restores
  \/ ReadsBack \/ Again \/ Keeps \/ GivesUp \/ Falls

\* A step is one of these, and leaves the run as its place says.
Steered ==
  /\ Moves
  /\ pc' \in Steps \union Ended /\ inbox' \in Seq(Requests)
  /\ run' \in Runs /\ Progress(pc', run')

LEMMA InitialConfigTyped == InitialConfig \in Configs
BY AgentAssumption DEF InitialConfig, Configs

LEMMA RequestTyped ==
  ASSUME NEW step \in Steps \ {"write"}
  PROVE  Request(step) \in Requests
BY DEF Steps, Gathering, Request, Requests, Questions, Call

LEMMA AskedTyped ==
  ASSUME inbox \in Seq(Requests), NEW step \in Steps \ {"write"}, Asked(step)
  PROVE  inbox' \in Seq(Requests)
<1>1. Request(step) \in Requests
  BY RequestTyped
<1> QED BY <1>1 DEF Asked

\* An abort, of what the run has become by the answer just read.
LEMMA AbortIsSteered ==
  ASSUME Types, pc \notin Ended, NEW m \in Runs, Len(m.plan) <= MaxActions,
         m.known = (m.phase # "start"),
         m.known => run.known \/ (pc = "baseline" /\ reply.is = "ok"),
         ~m.known => ~run.known /\ pc \in {"streams", "scheduler"},
         pc \in {"restore", "readback"} => ~run.aborting,
         Abort(m)
  PROVE  Steered
<1>1. CASE m.known
  <2>1. Asked("restore") /\ run' = [m EXCEPT !.aborting = TRUE]
    BY <1>1 DEF Abort, Send, Asked
  <2>2. run' \in Runs /\ run'.aborting /\ run'.known /\ run'.plan = m.plan /\ run'.phase = m.phase
    BY <1>1, <2>1 DEF Runs
  <2>3. Restores
    BY <1>1, <2>1, <2>2 DEF Restores
  <2>4. inbox' \in Seq(Requests) /\ pc' = "restore"
    BY <2>1, AskedTyped DEF Types, Steps, Asked
  <2>5. Progress("restore", run')
    BY <1>1, <2>2 DEF Progress, Gathering, Steps
  <2> QED BY <2>2, <2>3, <2>4, <2>5 DEF Steered, Moves, Steps
<1>2. CASE ~m.known
  <2>1. pc' = "gaveUp" /\ run' = m /\ UNCHANGED inbox
    BY <1>2 DEF Abort, End
  <2>2. GivesUp
    BY <1>2, <2>1 DEF GivesUp, Types, Runs
  <2> QED BY <1>2, <2>1, <2>2 DEF Steered, Moves, Types, Progress, Ended, Steps, Gathering
<1> QED BY <1>1, <1>2 DEF Runs

LEMMA AskIsSteered ==
  ASSUME Types, NEW step \in Steps \ {"write"}, NEW m \in Runs, Progress(step, m),
         Asked(step) /\ run' = m => Moves,
         Send(step, Request(step), m)
  PROVE  Steered
<1>1. Asked(step) /\ pc' = step /\ run' = m
  BY DEF Send, Asked
<1>2. inbox' \in Seq(Requests)
  BY <1>1, AskedTyped DEF Types
<1> QED BY <1>1, <1>2 DEF Steered

LEMMA GoIsSteered ==
  ASSUME Types, pc \notin Ended, NEW step \in Steps \ {"write"}, NEW m \in Runs,
         Progress(step, m),
         Asked(step) /\ run' = m => Moves,
         m.known => run.known \/ (pc = "baseline" /\ reply.is = "ok"),
         ~m.known => ~run.known /\ pc \in {"streams", "scheduler"},
         pc \in {"restore", "readback"} => ~run.aborting,
         Go(step, m)
  PROVE  Steered
<1>1. Len(m.plan) <= MaxActions /\ m.known = (m.phase # "start")
  BY DEF Progress
<1>2. CASE Abort(m)
  BY <1>1, <1>2, AbortIsSteered
<1>3. CASE Send(step, Request(step), m)
  BY <1>3, AskIsSteered
<1> QED BY <1>2, <1>3 DEF Go

LEMMA ObserveIsSteered ==
  ASSUME Types, pc \in {"streams", "scheduler"}, NEW step \in {"streams", "scheduler"},
         NEW seen \in Configs, NEW m, m = [run EXCEPT !.seen = seen], GoObserve(step, m)
  PROVE  Steered
<1>1. pc \notin Ended /\ run \in Runs /\ Progress(pc, run) /\ m \in Runs
  BY DEF Types, Ended, Runs
<1>2. m.phase = run.phase /\ m.round = run.round /\ m.plan = run.plan /\ m.known = run.known
        /\ m.aborting = run.aborting
  BY <1>1 DEF Runs
<1>3. Progress(step, m)
  BY <1>1, <1>2 DEF Progress, Gathering, Steps
<1>4. Len(m.plan) <= MaxActions /\ m.known = (m.phase # "start") /\ m.known \in BOOLEAN
  BY <1>1, <1>3 DEF Progress, Runs
<1>5. Asked(step) /\ run' = m => Moves
  BY <1>1, <1>2 DEF Moves, Gathers, Gathering, Asked
<1>6. CASE Abort(m)
  BY <1>1, <1>2, <1>4, <1>6, AbortIsSteered
<1>7. CASE Go(step, m)
  BY <1>1, <1>2, <1>3, <1>4, <1>5, <1>7, GoIsSteered DEF Steps, Gathering
<1> QED BY <1>6, <1>7 DEF GoObserve

LEMMA StreamsSteered ==
  ASSUME Types, NEW a \in Answers, ReadStreams(a)
  PROVE  Steered
<1>1. pc = "streams" /\ run \in Runs /\ run.seen \in Configs /\ a.config \in Configs
  BY DEF ReadStreams, Types, Runs, Answers
<1>2. run = [run EXCEPT !.seen = run.seen]
  BY <1>1 DEF Runs
<1>3. CASE a.is = "ok"
  BY <1>1, <1>3, ObserveIsSteered DEF ReadStreams
<1>4. CASE a.is # "ok"
  BY <1>1, <1>2, <1>4, ObserveIsSteered DEF ReadStreams
<1> QED BY <1>3, <1>4

LEMMA RoundIsSteered ==
  ASSUME Types, pc = "scheduler", run.phase # "start",
         NEW plan \in Seq(Changes), Len(plan) <= MaxActions,
         BeginRound(run.round + 1, plan)
  PROVE  Steered
<1> DEFINE m == [run EXCEPT !.round = run.round + 1, !.plan = plan, !.seen = InitialConfig]
<1>1. run \in Runs /\ Progress("scheduler", run) /\ pc \notin Ended
  BY DEF Types, Ended
<1>2. run.round \in Nat /\ run.round + 1 <= MaxRounds /\ run.known /\ MaxRounds \in Nat
  BY <1>1, AgentAssumption DEF Progress, Gathering, Runs
<1>3. m \in Runs /\ m.known = run.known /\ m.phase = run.phase /\ m.plan = plan
        /\ m.round = run.round + 1
  <2> DEFINE round == run.round + 1
  <2>1. round \in 0..MaxRounds
    BY <1>2
  <2> HIDE DEF round
  <2>2. [run EXCEPT !.round = round, !.plan = plan, !.seen = InitialConfig] \in Runs
    BY <1>1, <2>1, InitialConfigTyped DEF Runs
  <2>3. m = [run EXCEPT !.round = round, !.plan = plan, !.seen = InitialConfig]
    BY DEF round
  <2>4. m.known = run.known /\ m.phase = run.phase /\ m.plan = plan /\ m.round = round
    BY <1>1, <2>3 DEF Runs
  <2> QED BY <2>2, <2>3, <2>4 DEF round
<1> HIDE DEF m
<1>4. CASE plan = <<>> /\ ~late
  <2>1. End("gaveUp", m)
    BY <1>4 DEF BeginRound, m
  <2>2. pc' = "gaveUp" /\ run' = m /\ UNCHANGED inbox
    BY <2>1 DEF End
  <2>3. GivesUp
    BY <1>3, <2>2 DEF GivesUp
  <2>4. Progress("gaveUp", m)
    BY <1>1, <1>2, <1>3 DEF Progress, Gathering, Steps
  <2> QED BY <1>3, <2>2, <2>3, <2>4 DEF Steered, Moves, Ended, Types
<1>5. CASE plan # <<>>
  <2>1. Go("check", m)
    BY <1>5 DEF BeginRound, m
  <2>2. Progress("check", m)
    BY <1>1, <1>2, <1>3, <1>5 DEF Progress, Gathering, Steps
  <2>3. Asked("check") /\ run' = m => Moves
    BY <1>3 DEF Moves, Plans
  <2>4. "check" \in Steps \ {"write"}
    BY DEF Steps
  <2> QED BY <1>1, <1>2, <1>3, <2>1, <2>2, <2>3, <2>4, GoIsSteered
<1>6. CASE plan = <<>> /\ late
  <2>1. Abort(m)
    BY <1>6 DEF BeginRound, Go, Checked, m
  <2> QED BY <1>1, <1>2, <1>3, <2>1, AbortIsSteered DEF Progress
<1> QED BY <1>4, <1>5, <1>6

LEMMA SchedulerSteered ==
  ASSUME Types, NEW a \in Answers, ReadScheduler(a)
  PROVE  Steered
<1>1. pc = "scheduler" /\ pc \notin Ended /\ run \in Runs /\ Progress("scheduler", run)
        /\ run.seen \in Configs
  BY DEF ReadScheduler, Types, Runs, Ended
<1>2. run = [run EXCEPT !.seen = run.seen]
  BY <1>1 DEF Runs
<1>3. CASE a.is # "ok"
  BY <1>1, <1>2, <1>3, ObserveIsSteered DEF ReadScheduler
<1>4. CASE a.is = "ok" /\ run.phase = "start"
  <2> DEFINE m == [run EXCEPT !.baseline = run.seen, !.seen = InitialConfig]
  <2>1. m \in Runs /\ m.known = run.known /\ m.phase = run.phase /\ m.plan = run.plan
          /\ m.round = run.round /\ m.aborting = run.aborting
    BY <1>1, InitialConfigTyped DEF Runs
  <2> HIDE DEF m
  <2>2. ~run.known /\ Len(run.plan) <= MaxActions /\ run.known = (run.phase # "start")
    BY <1>1, <1>4 DEF Progress
  <2>3. CASE Abort(run)
    BY <1>1, <2>2, <2>3, AbortIsSteered
  <2>4. CASE Go("baseline", m)
    <3>1. Progress("baseline", m)
      BY <1>1, <2>1, <2>2 DEF Progress, Gathering, Steps
    <3>2. Asked("baseline") /\ run' = m => Moves
      BY <1>1, <2>1 DEF Moves, Gathers, Gathering, Asked
    <3>3. "baseline" \in Steps \ {"write"}
      BY DEF Steps, Gathering
    <3> QED BY <1>1, <2>1, <2>2, <2>4, <3>1, <3>2, <3>3, GoIsSteered
  <2> QED BY <1>4, <2>3, <2>4 DEF ReadScheduler, m
<1>5. CASE a.is = "ok" /\ run.phase = "plan"
  <2>1. PICK calls \in LlmAnswers : BeginRound(1, Plan(run.seen, calls))
    BY <1>5 DEF ReadScheduler
  <2>2. run.round + 1 = 1
    BY <1>1, <1>5 DEF Progress, Gathering
  <2> QED BY <1>1, <1>5, <2>1, <2>2, PlanIsPlan, RoundIsSteered
<1>6. CASE a.is = "ok" /\ run.phase = "replan"
  <2>1. run.round + 1 \in Nat
    BY <1>1 DEF Runs
  <2>2. BeginRound(run.round + 1, Deterministic(run.seen, run.round + 1))
    BY <1>6 DEF ReadScheduler
  <2> QED BY <1>1, <1>6, <2>1, <2>2, DeterministicIsPlan, RoundIsSteered
<1> QED BY <1>1, <1>3, <1>4, <1>5, <1>6 DEF Runs

LEMMA BaselineSteered ==
  ASSUME Types, NEW a \in Answers, a.is = "ok" => a = reply, ReadBaseline(a)
  PROVE  Steered
<1>1. pc = "baseline" /\ pc \notin Ended /\ run \in Runs /\ Progress("baseline", run)
  BY DEF ReadBaseline, Types, Ended
<1>2. CASE a.is = "ok"
  <2> DEFINE m == [run EXCEPT !.known = TRUE, !.phase = "plan"]
  <2>1. m \in Runs /\ m.known /\ m.phase = "plan" /\ m.plan = run.plan /\ m.round = run.round
          /\ m.aborting = run.aborting
    BY <1>1 DEF Runs
  <2>2. Go("before", m) /\ reply.is = "ok"
    BY <1>2 DEF ReadBaseline
  <2> HIDE DEF m
  <2>3. Progress("before", m)
    BY <1>1, <2>1 DEF Progress, Gathering, Steps
  <2>4. Asked("before") /\ run' = m => Moves
    BY <1>1, <2>1, <2>2 DEF Moves, Gathers, Gathering, Asked
  <2>5. "before" \in Steps \ {"write"}
    BY DEF Steps, Gathering
  <2> QED BY <1>1, <2>1, <2>2, <2>3, <2>4, <2>5, GoIsSteered
<1>3. CASE a.is # "ok"
  <2>1. End("escaped", run)
    BY <1>3 DEF ReadBaseline
  <2>2. Falls
    BY <1>1, <2>1 DEF Falls, End
  <2>3. Progress("escaped", run)
    BY <1>1 DEF Progress, Gathering, Steps
  <2> QED BY <1>1, <2>1, <2>2, <2>3 DEF Steered, Moves, End, Ended, Types
<1> QED BY <1>2, <1>3

\* From here on there is a baseline to go back to.
LEMMA AbortOfRunIsSteered ==
  ASSUME Types, pc \in Steps \ Gathering \/ pc = "before",
         pc \in {"restore", "readback"} => ~run.aborting, Abort(run)
  PROVE  Steered
<1>1. run \in Runs /\ Progress(pc, run) /\ pc \notin Ended /\ run.known
  BY DEF Types, Ended, Steps, Gathering, Progress
<1> QED BY <1>1, AbortIsSteered DEF Progress

LEMMA BeforeSteered ==
  ASSUME Types, NEW a \in Answers, a.is = "ok" => a = reply, ReadBefore(a)
  PROVE  Steered
<1>1. pc = "before" /\ pc \notin Ended /\ run \in Runs /\ Progress("before", run)
  BY DEF ReadBefore, Types, Ended
<1>2. CASE a.is = "ok"
  <2> DEFINE spoilt == a.to = "CRITICAL"
             m == [run EXCEPT !.spoilt = spoilt]
  <2>1. Go("streams", m) /\ reply.is = "ok" /\ spoilt \in BOOLEAN
    BY <1>2 DEF ReadBefore
  <2> HIDE DEF spoilt
  <2>2. m \in Runs /\ m.known = run.known /\ m.phase = run.phase /\ m.plan = run.plan
          /\ m.round = run.round /\ m.aborting = run.aborting
    BY <1>1, <2>1 DEF Runs
  <2> HIDE DEF m
  <2>3. Progress("streams", m) /\ m.known
    BY <1>1, <2>2 DEF Progress, Gathering, Steps
  <2>4. Asked("streams") /\ run' = m => Moves
    BY <1>1, <2>1, <2>2 DEF Moves, Gathers, Gathering, Asked
  <2>5. "streams" \in Steps \ {"write"}
    BY DEF Steps, Gathering
  <2> QED BY <1>1, <2>1, <2>2, <2>3, <2>4, <2>5, GoIsSteered
<1>3. CASE a.is # "ok"
  BY <1>1, <1>3, AbortOfRunIsSteered DEF ReadBefore
<1> QED BY <1>2, <1>3

LEMMA ProceedSteered ==
  ASSUME Types, pc \in {"check", "write"}, Proceed(Tail(run.plan))
  PROVE  Steered
<1> DEFINE plan == Tail(run.plan)
           m == [run EXCEPT !.plan = plan]
           step == IF plan = <<>> THEN "after" ELSE "check"
<1>1. pc \notin Ended /\ run \in Runs /\ Progress(pc, run) /\ run.known /\ run.plan # <<>>
  BY DEF Types, Ended, Progress, Steps, Gathering
<1>2. run.plan \in Seq(Changes) /\ Len(run.plan) <= MaxActions /\ MaxActions \in Nat
  BY <1>1, AgentAssumption DEF Progress, Runs
<1>3. plan \in Seq(Changes) /\ Len(plan) <= MaxActions
  BY <1>1, <1>2
<1>4. Go(step, m) /\ m = [run EXCEPT !.plan = Tail(run.plan)]
  BY DEF Proceed
<1>5. step \in {"check", "after"} /\ (step = "check" => plan # <<>>)
  OBVIOUS
<1> HIDE DEF plan, step
<1>6. m \in Runs /\ m.known = run.known /\ m.phase = run.phase /\ m.plan = plan
  BY <1>1, <1>3 DEF Runs
<1> HIDE DEF m
<1>7. Progress(step, m)
  BY <1>1, <1>3, <1>5, <1>6 DEF Progress, Gathering, Steps
<1>8. Asked(step) /\ run' = m => Moves
  BY <1>4, <1>5 DEF Moves, Proceeds, Asked
<1>9. step \in Steps \ {"write"}
  BY <1>5 DEF Steps
<1> QED BY <1>1, <1>4, <1>6, <1>7, <1>8, <1>9, GoIsSteered

LEMMA CheckSteered ==
  ASSUME Types, NEW a \in Answers, ReadCheck(a)
  PROVE  Steered
<1>1. pc = "check" /\ run \in Runs /\ Progress("check", run) /\ run.plan # <<>>
  BY DEF ReadCheck, Types, Progress
<1>2. CASE Send("write", Head(run.plan), run)
  <2>1. Head(run.plan) \in Requests /\ inbox \in Seq(Requests)
    BY <1>1 DEF Runs, Requests, Types
  <2>2. inbox' \in Seq(Requests)
    BY <1>2, <2>1 DEF Send
  <2>3. Changing
    BY <1>1, <1>2 DEF Send, Changing
  <2>4. Progress("write", run)
    BY <1>1 DEF Progress, Gathering, Steps
  <2> QED BY <1>1, <2>2, <2>3, <2>4 DEF Changing, Steered, Moves, Steps
<1>3. CASE Proceed(Tail(run.plan))
  BY <1>1, <1>3, ProceedSteered
<1> QED BY <1>2, <1>3 DEF ReadCheck

LEMMA AfterSteered ==
  ASSUME Types, NEW a \in Answers, a.is = "ok" => a = reply, ReadAfter(a)
  PROVE  Steered
<1>1. pc = "after" /\ pc \notin Ended /\ run \in Runs /\ Progress("after", run) /\ run.known
  BY DEF ReadAfter, Types, Ended, Progress, Steps, Gathering
<1>2. CASE Abort(run)
  BY <1>1, <1>2, AbortOfRunIsSteered DEF Steps, Gathering
<1>3. CASE a.is = "ok" /\ End("kept", run)
  <2>1. Progress("kept", run)
    BY <1>1 DEF Progress, Gathering, Steps
  <2> QED BY <1>1, <1>3, <2>1 DEF End, Keeps, Steered, Moves, Ended, Types
<1>4. CASE Go("restore", run)
  <2>1. Progress("restore", run)
    BY <1>1 DEF Progress, Gathering, Steps
  <2>2. Asked("restore") /\ run' = run => Moves
    BY <1>1 DEF Moves, Restores, Asked
  <2> QED BY <1>1, <1>4, <2>1, <2>2, GoIsSteered DEF Steps
<1> QED BY <1>2, <1>3, <1>4 DEF ReadAfter

LEMMA NotRestoredSteered ==
  ASSUME Types, pc \in {"restore", "readback"}, NotRestored
  PROVE  Steered
<1>1. run \in Runs /\ Progress(pc, run) /\ run.known
  BY DEF Types, Progress, Steps, Gathering
<1>2. CASE run.aborting
  <2>1. pc' = "gaveUp" /\ run' = run /\ UNCHANGED inbox
    BY <1>2 DEF NotRestored, End
  <2>2. Progress("gaveUp", run)
    BY <1>1 DEF Progress, Gathering, Steps
  <2> QED BY <1>1, <2>1, <2>2 DEF GivesUp, Steered, Moves, Ended, Types
<1>3. CASE ~run.aborting
  BY <1>3, AbortOfRunIsSteered DEF NotRestored, Steps, Gathering
<1> QED BY <1>2, <1>3

LEMMA RestoreSteered ==
  ASSUME Types, NEW a \in Answers, a.is = "ok" => a = reply, ReadRestore(a)
  PROVE  Steered
<1>1. pc = "restore" /\ pc \notin Ended /\ run \in Runs /\ Progress("restore", run) /\ run.known
  BY DEF ReadRestore, Types, Ended, Progress, Steps, Gathering
<1>2. CASE a.is = "ok"
  <2>1. Send("readback", Request("readback"), run) /\ reply.is = "ok"
    BY <1>2 DEF ReadRestore, Go, Checked
  <2>2. Progress("readback", run)
    BY <1>1 DEF Progress, Gathering, Steps
  <2>3. Asked("readback") /\ run' = run => Moves
    BY <1>1, <2>1 DEF Moves, ReadsBack
  <2>4. "readback" \in Steps \ {"write"}
    BY DEF Steps
  <2> QED BY <1>1, <2>1, <2>2, <2>3, <2>4, AskIsSteered
<1>3. CASE a.is # "ok"
  BY <1>1, <1>3, NotRestoredSteered DEF ReadRestore
<1> QED BY <1>2, <1>3

LEMMA BackSteered ==
  ASSUME Types, NEW a \in Answers, ReadBack(a)
  PROVE  Steered
<1>1. pc = "readback" /\ pc \notin Ended /\ run \in Runs /\ Progress("readback", run) /\ run.known
  BY DEF ReadBack, Types, Ended, Progress, Steps, Gathering
<1>2. CASE NotRestored
  BY <1>1, <1>2, NotRestoredSteered
<1>3. CASE End("gaveUp", run)
  <2>1. Progress("gaveUp", run)
    BY <1>1 DEF Progress, Gathering, Steps
  <2> QED BY <1>1, <1>3, <2>1 DEF End, GivesUp, Steered, Moves, Ended, Types
<1>4. CASE /\ ~run.aborting /\ run.round # MaxRounds
           /\ Go("streams", [run EXCEPT !.phase = "replan"])
  <2> DEFINE m == [run EXCEPT !.phase = "replan"]
  <2>1. m \in Runs /\ m.known = run.known /\ m.phase = "replan" /\ m.plan = run.plan
          /\ m.round = run.round /\ m.aborting = run.aborting
    BY <1>1 DEF Runs
  <2>2. run.round < MaxRounds
    BY <1>1, <1>4, AgentAssumption DEF Runs
  <2> HIDE DEF m
  <2>3. Progress("streams", m)
    BY <1>1, <1>4, <2>1, <2>2 DEF Progress, Gathering, Steps
  <2>4. Asked("streams") /\ run' = m => Moves
    BY <1>1, <1>4, <2>1 DEF Moves, Again
  <2>5. "streams" \in Steps \ {"write"}
    BY DEF Steps, Gathering
  <2> QED BY <1>1, <1>4, <2>1, <2>3, <2>4, <2>5, GoIsSteered DEF m
<1> QED BY <1>2, <1>3, <1>4 DEF ReadBack

LEMMA EscapeSteered ==
  ASSUME Types, NEW a \in Answers, Escapes(a), End("escaped", run)
  PROVE  Steered
<1>1. run \in Runs /\ Progress("escaped", run) /\ inbox \in Seq(Requests)
  BY DEF Types, Progress, Steps, Gathering
<1>2. Falls
  BY DEF Escapes, End, Falls
<1> QED BY <1>1, <1>2 DEF Steered, Moves, End, Ended

LEMMA AgentSteered ==
  ASSUME Types, Agent
  PROVE  Steered
<1>1. Lost \in Answers /\ Lost.is = "lost" /\ reply \in Answers
  BY InitialConfigTyped DEF Lost, Answer, Answers, States, Types
<1>2. ASSUME NEW a \in Answers, a.is = "ok" => a = reply, Reading(a)
      PROVE  Steered
  <2>1. CASE Escapes(a)
    BY <1>2, <2>1, EscapeSteered DEF Reading
  <2>2. CASE ReadStreams(a)
    BY <2>2, StreamsSteered
  <2>3. CASE ReadScheduler(a)
    BY <2>3, SchedulerSteered
  <2>4. CASE ReadBaseline(a)
    BY <1>2, <2>4, BaselineSteered
  <2>5. CASE ReadBefore(a)
    BY <1>2, <2>5, BeforeSteered
  <2>6. CASE ReadCheck(a)
    BY <2>6, CheckSteered
  <2>7. CASE ReadWrite(a)
    BY <2>7, ProceedSteered DEF ReadWrite
  <2>8. CASE ReadAfter(a)
    BY <1>2, <2>8, AfterSteered
  <2>9. CASE ReadRestore(a)
    BY <1>2, <2>9, RestoreSteered
  <2>10. CASE ReadBack(a)
    BY <2>10, BackSteered
  <2> QED BY <1>2, <2>1, <2>2, <2>3, <2>4, <2>5, <2>6, <2>7, <2>8, <2>9, <2>10 DEF Reading
<1>3. CASE Reading(reply)
  BY <1>1, <1>2, <1>3
<1>4. CASE Reading(Lost)
  BY <1>1, <1>2, <1>4
<1> QED BY <1>3, <1>4 DEF Agent

------------------------------------------------------------------------------
(* The queue of requests *)

LEMMA RequestKinds ==
  /\ \A r \in Requests : r.kind \in {"interval", "priority"} => r.stream \in Streams
  /\ \A r \in Changes : r.kind \in {"interval", "priority"} /\ r \in Requests
  /\ \A step \in Steps \ {"write"} : Request(step).kind \notin {"interval", "priority"}
BY DEF Requests, Questions, Changes, Call, Request, Steps, Gathering

LEMMA AppendedEntries ==
  ASSUME NEW queue \in Seq(Requests), NEW r \in Requests
  PROVE  /\ Append(queue, r) \in Seq(Requests)
         /\ Len(queue) \in Nat /\ Len(Append(queue, r)) = Len(queue) + 1
         /\ DOMAIN queue = 1..Len(queue) /\ DOMAIN Append(queue, r) = 1..(Len(queue) + 1)
         /\ Append(queue, r)[Len(queue) + 1] = r
         /\ \A i \in DOMAIN queue : Append(queue, r)[i] = queue[i]
OBVIOUS

LEMMA AppendedKinds ==
  ASSUME NEW queue \in Seq(Requests), NEW r \in Requests
  PROVE  LET next == Append(queue, r)
             last == Len(queue) + 1
         IN  /\ Writers(next) = Writers(queue) \union
                                  (IF r.kind \in {"interval", "priority"} THEN {last} ELSE {})
             /\ Benchmarks(next) = Benchmarks(queue) \union
                                     (IF r.kind = "benchmark" THEN {last} ELSE {})
             /\ Savers(next) = Savers(queue) \union
                  (IF r.kind \in {"interval", "priority", "rollback"} THEN {last} ELSE {})
BY AppendedEntries DEF Writers, Benchmarks, Savers

LEMMA AppendedStreams ==
  ASSUME NEW queue \in Seq(Requests), NEW r \in Requests
  PROVE  Pending(Append(queue, r)) =
           Pending(queue) \union (IF r.kind \in {"interval", "priority"} THEN {r.stream} ELSE {})
<1> DEFINE next == Append(queue, r)
<1>1. /\ Writers(queue) \subseteq DOMAIN queue
      /\ \A i \in DOMAIN queue : next[i] = queue[i]
      /\ next[Len(queue) + 1] = r
  BY AppendedEntries DEF Writers
<1>2. Writers(next) = Writers(queue) \union
                        (IF r.kind \in {"interval", "priority"} THEN {Len(queue) + 1} ELSE {})
  BY AppendedKinds
<1> HIDE DEF next
<1>3. Pending(next) =
        Pending(queue) \union (IF r.kind \in {"interval", "priority"} THEN {r.stream} ELSE {})
  BY <1>1, <1>2 DEF Pending
<1> QED BY <1>3 DEF next

LEMMA TailEntries ==
  ASSUME NEW queue \in Seq(Requests), queue # <<>>
  PROVE  /\ Tail(queue) \in Seq(Requests)
         /\ Len(queue) \in Nat \ {0} /\ Len(Tail(queue)) = Len(queue) - 1
         /\ DOMAIN queue = 1..Len(queue) /\ DOMAIN Tail(queue) = 1..(Len(queue) - 1)
         /\ Head(queue) = queue[1] /\ Head(queue) \in Requests
         /\ \A i \in 1..(Len(queue) - 1) : Tail(queue)[i] = queue[i + 1]
OBVIOUS

LEMMA TailKinds ==
  ASSUME NEW queue \in Seq(Requests), queue # <<>>
  PROVE  /\ Writers(Tail(queue)) = {i \in 1..(Len(queue) - 1) : i + 1 \in Writers(queue)}
         /\ Benchmarks(Tail(queue)) = {i \in 1..(Len(queue) - 1) : i + 1 \in Benchmarks(queue)}
         /\ Savers(Tail(queue)) = {i \in 1..(Len(queue) - 1) : i + 1 \in Savers(queue)}
BY TailEntries DEF Writers, Benchmarks, Savers

LEMMA TailStreams ==
  ASSUME NEW queue \in Seq(Requests), queue # <<>>
  PROVE  Pending(Tail(queue)) \subseteq Pending(queue)
BY TailEntries, TailKinds DEF Pending, Writers

LEMMA SaversFinite ==
  ASSUME NEW queue \in Seq(Requests)
  PROVE  IsFiniteSet(Savers(queue)) /\ Cardinality(Savers(queue)) \in Nat
<1>1. Len(queue) \in Nat /\ Savers(queue) \subseteq 1..Len(queue)
  BY DEF Savers
<1>2. IsFiniteSet(1..Len(queue))
  BY <1>1, FS_Interval
<1>3. IsFiniteSet(Savers(queue))
  BY <1>1, <1>2, FS_Subset
<1> QED BY <1>3, FS_CardinalityType

LEMMA AppendedSavers ==
  ASSUME NEW queue \in Seq(Requests), NEW r \in Requests
  PROVE  /\ Cardinality(Savers(Append(queue, r))) <= Cardinality(Savers(queue)) + 1
         /\ r.kind \notin {"interval", "priority", "rollback"} =>
              Savers(Append(queue, r)) = Savers(queue)
<1>1. \/ Savers(Append(queue, r)) = Savers(queue)
      \/ Savers(Append(queue, r)) = Savers(queue) \union {Len(queue) + 1}
  BY AppendedKinds
<1>2. r.kind \notin {"interval", "priority", "rollback"} =>
        Savers(Append(queue, r)) = Savers(queue)
  BY AppendedKinds
<1>3. \/ Cardinality(Savers(queue) \union {Len(queue) + 1}) = Cardinality(Savers(queue))
      \/ Cardinality(Savers(queue) \union {Len(queue) + 1}) = Cardinality(Savers(queue)) + 1
  BY SaversFinite, FS_AddElement
<1>4. \/ Cardinality(Savers(Append(queue, r))) = Cardinality(Savers(queue))
      \/ Cardinality(Savers(Append(queue, r))) = Cardinality(Savers(queue)) + 1
  BY <1>1, <1>3
<1>5. Cardinality(Savers(queue)) \in Nat
  BY SaversFinite
<1> QED BY <1>2, <1>4, <1>5

\* Serving the oldest request leaves as many savers less as it was itself.
LEMMA TailSavers ==
  ASSUME NEW queue \in Seq(Requests), queue # <<>>
  PROVE  /\ Cardinality(Savers(Tail(queue))) <= Cardinality(Savers(queue))
         /\ Head(queue).kind \in {"interval", "priority", "rollback"} =>
              Cardinality(Savers(Tail(queue))) + 1 <= Cardinality(Savers(queue))
<1> DEFINE others == Savers(queue) \ {1}
           left == Savers(Tail(queue))
           f == [i \in others |-> i - 1]
<1>1. IsFiniteSet(Savers(queue)) /\ Cardinality(Savers(queue)) \in Nat
  BY SaversFinite
<1>2. IsFiniteSet(others) /\ Cardinality(others) \in Nat
        /\ Cardinality(others) = (IF 1 \in Savers(queue) THEN Cardinality(Savers(queue)) - 1
                                  ELSE Cardinality(Savers(queue)))
  BY <1>1, FS_RemoveElement, FS_CardinalityType
<1>3. Savers(queue) \subseteq 1..Len(queue) /\ Len(queue) \in Nat
  BY TailEntries DEF Savers
<1>4. left = {i \in 1..(Len(queue) - 1) : i + 1 \in Savers(queue)}
  BY TailKinds
<1>5. 1 \in Savers(queue) <=> Head(queue).kind \in {"interval", "priority", "rollback"}
  BY TailEntries DEF Savers
<1> HIDE DEF left
<1>6. f \in Surjection(others, left)
  <2>1. ASSUME NEW i \in others PROVE i - 1 \in left
    BY <1>3, <1>4
  <2>2. ASSUME NEW j \in left PROVE j + 1 \in others /\ f[j + 1] = j
    BY <1>3, <1>4
  <2> QED BY <2>1, <2>2 DEF Surjection
<1> HIDE DEF f, others
<1>7. Cardinality(left) <= Cardinality(others) /\ IsFiniteSet(left)
  BY <1>2, <1>6, FS_Surjection
<1>8. Cardinality(left) \in Nat
  BY <1>7, FS_CardinalityType
<1> QED BY <1>1, <1>2, <1>5, <1>7, <1>8 DEF left

------------------------------------------------------------------------------
(* The agent keeps the invariant *)

LEMMA AgentFrame ==
  ASSUME Agent
  PROVE  UNCHANGED <<server, disturbed>> /\ reply' = NoAnswer
BY DEF Agent

LEMMA NoAnswerTyped ==
  /\ NoAnswer \in Answers /\ NoAnswer.is = "none" /\ Lost \in Answers /\ Lost.is = "lost"
  /\ \A is \in {"ok", "error"} : Answer(is) \in Answers /\ Answer(is).is = is
BY InitialConfigTyped DEF NoAnswer, Lost, Answer, Answers, States

LEMMA AgentTypes ==
  ASSUME Types, Agent
  PROVE  Types'
BY AgentFrame, AgentSteered, NoAnswerTyped DEF Types, Steered, server

LEMMA MovesRun ==
  ASSUME Moves
  PROVE  pc \notin Ended
BY DEF Moves, Gathers, Plans, Changing, Proceeds, Restores, ReadsBack, Again, Keeps, GivesUp,
       Falls, Ended, Gathering

LEMMA EmptyQueue ==
  Writers(<<>>) = {} /\ Pending(<<>>) = {} /\ Benchmarks(<<>>) = {} /\ Savers(<<>>) = {}
BY DEF Writers, Pending, Benchmarks, Savers

LEMMA AnswerEmpties ==
  ASSUME Types, Awaits, pc \notin Ended, reply.is = "ok"
  PROVE  inbox = <<>>
BY NoAnswerTyped DEF Types, Awaits

LEMMA AskedQueue ==
  ASSUME Types, NEW step \in Steps \ {"write"}, Asked(step)
  PROVE  /\ pc' = step /\ inbox' # <<>> /\ inbox'[Len(inbox')] = Request(step)
         /\ Len(inbox) \in Nat /\ Len(inbox') = Len(inbox) + 1
         /\ Writers(inbox') = Writers(inbox) /\ Pending(inbox') = Pending(inbox)
         /\ Benchmarks(inbox') =
              Benchmarks(inbox) \union (IF step \in {"before", "after"} THEN {Len(inbox')} ELSE {})
<1> DEFINE r == Request(step)
<1>1. r \in Requests /\ r.kind \notin {"interval", "priority"} /\ inbox \in Seq(Requests)
  BY RequestTyped, RequestKinds DEF Types
<1>2. r.kind = "benchmark" <=> step \in {"before", "after"}
  BY DEF Request, Call, Steps, Gathering
<1> HIDE DEF r
<1>3. inbox' = Append(inbox, r) /\ pc' = step
  BY DEF Asked, r
<1>4. /\ inbox' # <<>> /\ inbox'[Len(inbox')] = r
      /\ Len(inbox) \in Nat /\ Len(inbox') = Len(inbox) + 1
  BY <1>1, <1>3, AppendedEntries
<1>5. Pending(inbox') = Pending(inbox)
  BY <1>1, <1>3, AppendedStreams
<1>6. Writers(inbox') = Writers(inbox)
  BY <1>1, <1>3, AppendedKinds
<1>7. Benchmarks(inbox') = Benchmarks(inbox) \union
        (IF r.kind = "benchmark" THEN {Len(inbox) + 1} ELSE {})
  BY <1>1, <1>3, AppendedKinds
<1> QED BY <1>2, <1>3, <1>4, <1>5, <1>6, <1>7 DEF r

LEMMA ChangingQueue ==
  ASSUME Types, Changing
  PROVE  LET r == Head(run.plan)
         IN  /\ inbox' # <<>> /\ inbox'[Len(inbox')] = r /\ r \in Changes
             /\ run.plan \in Seq(Changes) /\ run.plan # <<>>
             /\ Benchmarks(inbox') = Benchmarks(inbox)
             /\ Pending(inbox') = Pending(inbox) \union {r.stream}
<1> DEFINE r == Head(run.plan)
<1>1. run.plan \in Seq(Changes) /\ run.plan # <<>> /\ inbox \in Seq(Requests)
  BY DEF Types, Changing, Progress, Runs
<1>2. r \in Changes /\ r.kind \in {"interval", "priority"} /\ r \in Requests
  BY <1>1, RequestKinds
<1> HIDE DEF r
<1>3. inbox' = Append(inbox, r)
  BY DEF Changing, r
<1>4. inbox' # <<>> /\ inbox'[Len(inbox')] = r
  BY <1>1, <1>2, <1>3, AppendedEntries
<1>5. Benchmarks(inbox') = Benchmarks(inbox)
  BY <1>1, <1>2, <1>3, AppendedKinds
<1>6. Pending(inbox') = Pending(inbox) \union {r.stream}
  BY <1>1, <1>2, <1>3, AppendedStreams
<1> QED BY <1>1, <1>2, <1>4, <1>5, <1>6 DEF r

\* Every step but an end asks for one thing.
LEMMA MovesAsk ==
  ASSUME Steered
  PROVE  \/ Changing
         \/ pc' \in Steps \ {"write"} /\ Asked(pc')
         \/ pc' \in Ended /\ UNCHANGED inbox
BY DEF Steered, Moves, Gathers, Plans, Changing, Proceeds, Restores, ReadsBack, Again, Keeps,
       GivesUp, Falls, Ended, Gathering, Steps, Asked

LEMMA AgentAwaits ==
  ASSUME Types, Agent
  PROVE  Awaits'
<1>1. Steered /\ reply' = NoAnswer
  BY AgentSteered, AgentFrame
<1>2. CASE Changing
  <2>1. inbox' # <<>> /\ inbox'[Len(inbox')] \in Changes
    BY <1>2, ChangingQueue
  <2>2. inbox'[Len(inbox')].kind \in {"interval", "priority"}
    BY <2>1, RequestKinds
  <2> QED BY <1>1, <1>2, <2>1, <2>2 DEF Awaits, Asks, Changing
<1>3. CASE pc' \in Steps \ {"write"} /\ Asked(pc')
  <2>1. inbox' # <<>> /\ inbox'[Len(inbox')] = Request(pc')
    BY <1>3, AskedQueue
  <2> QED BY <1>1, <1>3, <2>1 DEF Awaits, Asks
<1>4. CASE pc' \in Ended /\ UNCHANGED inbox
  BY <1>4 DEF Awaits
<1> QED BY <1>1, <1>2, <1>3, <1>4, MovesAsk

LEMMA AgentWindows ==
  ASSUME Types, Awaits, Windows, Agent
  PROVE  Windows'
<1> DEFINE old == Benchmarks(inbox)
           new == Benchmarks(inbox')
<1>1. Steered /\ window' = window /\ pc \notin Ended
  BY AgentSteered, AgentFrame, MovesRun DEF Steered, server
<1>2. /\ \A i, j \in old : i = j
      /\ window # "none" => 1 \in old
      /\ pc \in {"before", "after"} => old \subseteq {Len(inbox)}
      /\ pc \in {"streams", "scheduler", "baseline", "check", "write", "readback"} => old = {}
      /\ reply.is = "ok" => old = {}
  BY <1>1, AnswerEmpties, EmptyQueue DEF Windows
<1> SUFFICES /\ \A i, j \in new : i = j
             /\ window # "none" => 1 \in new
             /\ pc' \in {"before", "after"} => new \subseteq {Len(inbox')}
             /\ pc' \in {"streams", "scheduler", "baseline", "check", "write", "readback"} =>
                  new = {}
  BY <1>1 DEF Windows
<1>3. CASE Changing
  <2>1. new = old
    BY <1>3, ChangingQueue
  <2> HIDE DEF old, new
  <2> QED BY <1>2, <1>3, <2>1 DEF Changing
<1>4. CASE pc' \in Steps \ {"write"} /\ Asked(pc')
  <2>1. new = old \union (IF pc' \in {"before", "after"} THEN {Len(inbox')} ELSE {})
    BY <1>4, AskedQueue
  <2> HIDE DEF old, new
  <2>2. \/ Gathers \/ Plans \/ Proceeds \/ Restores \/ ReadsBack \/ Again
    BY <1>1, <1>4 DEF Steered, Moves, Changing, Keeps, GivesUp, Falls, Steps, Gathering
  <2>3. CASE Gathers
    BY <1>2, <2>1, <2>3 DEF Gathers, Gathering
  <2>4. CASE Plans
    BY <1>2, <2>1, <2>4 DEF Plans, Asked
  <2>5. CASE Proceeds
    BY <1>2, <2>1, <2>5 DEF Proceeds
  <2>6. CASE Restores
    BY <1>2, <2>1, <2>6 DEF Restores, Asked
  <2>7. CASE ReadsBack
    BY <1>2, <2>1, <2>7 DEF ReadsBack, Asked
  <2>8. CASE Again
    BY <1>2, <2>1, <2>8 DEF Again, Asked
  <2> QED BY <2>2, <2>3, <2>4, <2>5, <2>6, <2>7, <2>8
<1>5. CASE pc' \in Ended /\ UNCHANGED inbox
  <2>1. new = old
    BY <1>5
  <2> HIDE DEF old, new
  <2> QED BY <1>2, <1>5, <2>1 DEF Ended
<1> QED BY <1>1, <1>3, <1>4, <1>5, MovesAsk

LEMMA StreamsCount ==
  ASSUME NEW T \in SUBSET Streams, NEW S \in SUBSET T
  PROVE  Cardinality(S) \in Nat /\ Cardinality(T) \in Nat /\ Cardinality(S) <= Cardinality(T)
<1>1. IsFiniteSet(Streams)
  BY AgentAssumption, FS_Interval DEF Streams
<1>2. IsFiniteSet(T) /\ IsFiniteSet(S)
  BY <1>1, FS_Subset
<1> QED BY <1>2, FS_Subset, FS_CardinalityType

LEMMA PendingTyped ==
  ASSUME NEW queue \in Seq(Requests)
  PROVE  Pending(queue) \subseteq Streams
<1>1. \A i \in Writers(queue) : queue[i] \in Requests /\ queue[i].kind \in {"interval", "priority"}
  BY DEF Writers
<1> QED BY <1>1, RequestKinds DEF Pending

LEMMA PlannedTyped ==
  ASSUME NEW plan \in Seq(Changes), NEW step
  PROVE  /\ Planned(step, plan) \subseteq Streams
         /\ plan # <<>> =>
              /\ step \in {"check", "write"} => Head(plan).stream \in Planned(step, plan)
              /\ \A other \in {"check", "after"} :
                   step \in {"check", "write"} =>
                     Planned(other, Tail(plan)) \subseteq Planned(step, plan)
<1>1. \A c \in Changes : c.stream \in Streams
  BY DEF Changes
<1>2. Planned(step, plan) \subseteq Streams
  BY <1>1 DEF Planned
<1>3. ASSUME plan # <<>>, step \in {"check", "write"}
      PROVE  Head(plan).stream \in Planned(step, plan)
  <2>1. 1 \in DOMAIN plan /\ Head(plan) = plan[1]
    BY <1>3
  <2> QED BY <1>3, <2>1 DEF Planned
<1>4. ASSUME plan # <<>>, step \in {"check", "write"}, NEW other \in {"check", "after"}
      PROVE  Planned(other, Tail(plan)) \subseteq Planned(step, plan)
  <2>1. \A i \in DOMAIN Tail(plan) : i + 1 \in DOMAIN plan /\ Tail(plan)[i] = plan[i + 1]
    BY <1>4
  <2> HIDE DEF Changes
  <2>2. {Tail(plan)[i].stream : i \in DOMAIN Tail(plan)} \subseteq {plan[i].stream : i \in DOMAIN plan}
    BY <2>1
  <2> QED BY <1>4, <2>2 DEF Planned
<1> QED BY <1>2, <1>3, <1>4

\* A plan is about at most as many streams as it has changes.
LEMMA PlannedCount ==
  ASSUME NEW plan \in Seq(Changes), NEW step
  PROVE  Cardinality(Planned(step, plan)) <= Len(plan)
<1> DEFINE streams == {plan[i].stream : i \in DOMAIN plan}
           f == [i \in 1..Len(plan) |-> plan[i].stream]
<1>1. Len(plan) \in Nat /\ IsFiniteSet(1..Len(plan)) /\ Cardinality(1..Len(plan)) = Len(plan)
  <2>1. PICK n \in Nat : n = Len(plan)
    OBVIOUS
  <2>2. n \in Nat /\ IsFiniteSet(1..n) /\ Cardinality(1..n) = n
    BY FS_Interval
  <2> QED BY <2>1, <2>2
<1>2. f \in Surjection(1..Len(plan), streams)
  BY DEF Surjection
<1> HIDE DEF f
<1>3. Cardinality(streams) <= Len(plan)
  BY <1>1, <1>2, FS_Surjection
<1>4. Cardinality({}) = 0
  BY FS_EmptySet
<1> QED BY <1>1, <1>3, <1>4 DEF Planned

LEMMA AgentBounded ==
  ASSUME Types, Awaits, Bounded, Agent
  PROVE  Bounded'
<1> DEFINE old == mine \union Pending(inbox) \union Planned(pc, run.plan)
           new == mine \union Pending(inbox') \union Planned(pc', run'.plan)
<1>1. Steered /\ mine' = mine /\ pc \notin Ended /\ reply' = NoAnswer
  BY AgentSteered, AgentFrame, MovesRun DEF Steered, server
<1>2. run.plan \in Seq(Changes) /\ run'.plan \in Seq(Changes) /\ Len(run'.plan) <= MaxActions
        /\ MaxActions \in Nat
  BY <1>1, AgentAssumption DEF Types, Runs, Steered, Progress
<1>3. old \subseteq Streams
  BY <1>2, PendingTyped, PlannedTyped DEF Types
<1>4. /\ Cardinality(old) <= MaxActions
      /\ pc \in Gathering \union {"readback"} => mine = {} /\ Pending(inbox) = {}
      /\ pc = "restore" /\ reply.is = "ok" => mine = {} /\ Pending(inbox) = {}
  BY <1>1, AnswerEmpties, EmptyQueue DEF Bounded
<1>5. SUFFICES /\ Cardinality(new) <= MaxActions
               /\ pc' \in Gathering \union {"readback"} => mine = {} /\ Pending(inbox') = {}
  BY <1>1, NoAnswerTyped DEF Bounded
<1>6. new \subseteq old => Cardinality(new) <= MaxActions
  <2> HIDE DEF old, new
  <2> QED BY <1>2, <1>3, <1>4, StreamsCount
<1>7. CASE Changing
  <2>1. Pending(inbox') = Pending(inbox) \union {Head(run.plan).stream} /\ run.plan # <<>>
    BY <1>7, ChangingQueue
  <2>2. pc = "check" /\ pc' = "write" /\ run' = run
    BY <1>7 DEF Changing
  <2>3. Head(run.plan).stream \in Planned("check", run.plan)
    BY <1>2, <2>1, PlannedTyped
  <2>4. Planned("check", run.plan) = Planned("write", run.plan)
    BY DEF Planned
  <2> QED BY <1>6, <2>1, <2>2, <2>3, <2>4 DEF Gathering
<1>8. CASE pc' \in Ended /\ UNCHANGED inbox
  <2>1. Planned(pc', run'.plan) = {}
    BY <1>8 DEF Planned, Ended
  <2> QED BY <1>6, <1>8, <2>1 DEF Ended, Gathering
<1>9. CASE pc' \in Steps \ {"write"} /\ Asked(pc')
  <2>1. Pending(inbox') = Pending(inbox)
    BY <1>9, AskedQueue
  <2>2. \/ Gathers \/ Plans \/ Proceeds \/ Restores \/ ReadsBack \/ Again
    BY <1>1, <1>9 DEF Steered, Moves, Changing, Keeps, GivesUp, Falls, Steps, Gathering
  <2>3. CASE Plans
    <3>1. mine = {} /\ Pending(inbox) = {} /\ pc' = "check"
      BY <1>4, <2>3 DEF Plans, Gathering, Asked
    <3>2. new = Planned(pc', run'.plan)
      BY <2>1, <3>1
    <3>3. Cardinality(new) <= Len(run'.plan) /\ Len(run'.plan) \in Nat
      <4>1. Cardinality(Planned(pc', run'.plan)) <= Len(run'.plan)
        BY <1>2, PlannedCount
      <4> HIDE DEF new
      <4>2. Cardinality(new) <= Len(run'.plan)
        BY <3>2, <4>1
      <4> QED BY <1>2, <4>2
    <3>4. Cardinality(new) \in Nat
      <4>1. new \subseteq Streams
        BY <1>2, <3>2, PlannedTyped
      <4> HIDE DEF new
      <4> QED BY <4>1, StreamsCount
    <3> HIDE DEF new
    <3> QED BY <1>2, <3>1, <3>3, <3>4 DEF Gathering
  <2>4. CASE Proceeds
    <3>1. run'.plan = Tail(run.plan) /\ run.plan # <<>>
      BY <2>4 DEF Proceeds, Types, Runs, Progress
    <3>2. Planned(pc', run'.plan) \subseteq Planned(pc, run.plan)
      BY <1>2, <2>4, <3>1, PlannedTyped DEF Proceeds
    <3> QED BY <1>6, <2>1, <2>4, <3>2 DEF Proceeds, Gathering
  <2>5. CASE Gathers \/ Restores \/ ReadsBack \/ Again
    <3>1. pc' \notin {"check", "write"}
      BY <2>5 DEF Gathers, Restores, ReadsBack, Again, Gathering, Asked
    <3>2. Planned(pc', run'.plan) = {}
      BY <3>1 DEF Planned
    <3>3. pc' # "restore" => mine = {} /\ Pending(inbox) = {}
      BY <1>4, <2>5 DEF Gathers, Restores, ReadsBack, Again, Gathering, Asked
    <3> QED BY <1>6, <2>1, <3>2, <3>3 DEF Gathering
  <2> QED BY <2>2, <2>3, <2>4, <2>5
<1> QED BY <1>1, <1>7, <1>8, <1>9, MovesAsk

LEMMA AgentTraceless ==
  ASSUME Types, Bounded, Traceless, Agent
  PROVE  Traceless'
<1>1. Steered /\ mine' = mine /\ refused' = refused
  BY AgentSteered, AgentFrame DEF Steered, server
<1>2. CASE Restores
  <2>1. Asked("restore") /\ "restore" \in Steps \ {"write"}
    BY <1>2 DEF Restores, Steps
  <2>2. /\ inbox' # <<>> /\ inbox'[Len(inbox')] = Request("restore")
        /\ Len(inbox) \in Nat /\ Len(inbox') = Len(inbox) + 1
        /\ Writers(inbox') = Writers(inbox)
    BY <2>1, AskedQueue
  <2>3. Writers(inbox) \subseteq 1..Len(inbox)
    BY DEF Types, Writers
  <2>4. Len(inbox') \in DOMAIN inbox'
    BY <1>1, <2>2 DEF Steered
  <2>5. \A j \in Writers(inbox') : j < Len(inbox')
    BY <2>2, <2>3
  <2>6. inbox'[Len(inbox')].kind = "rollback"
    BY <2>2 DEF Request, Call
  <2> QED BY <2>4, <2>5, <2>6 DEF Traceless, Undone
<1>3. CASE GivesUp
  <2>1. Undone
    BY <1>3 DEF GivesUp, Bounded, Traceless, Undone, Gathering
  <2>2. inbox' = inbox
    BY <1>3 DEF GivesUp
  <2> QED BY <1>1, <2>1, <2>2 DEF Traceless, Undone
<1>4. CASE Falls
  <2>1. Transport = "urllib" => Undone
    BY <1>4 DEF Falls, Bounded, Undone, Gathering
  <2>2. inbox' = inbox /\ pc' = "escaped"
    BY <1>4 DEF Falls
  <2> QED BY <1>1, <2>1, <2>2 DEF Traceless, Undone
<1>5. CASE Gathers \/ Plans \/ Changing \/ Proceeds \/ ReadsBack \/ Again \/ Keeps
  BY <1>5 DEF Gathers, Plans, Changing, Proceeds, ReadsBack, Again, Keeps, Traceless, Asked,
              Gathering
<1> QED BY <1>1, <1>2, <1>3, <1>4, <1>5 DEF Steered, Moves

LEMMA AgentMeasured ==
  ASSUME Types, Awaits, Windows, Measured, Agent
  PROVE  Measured'
<1>1. /\ Steered /\ Config' = Config /\ window' = window /\ measured' = measured
      /\ disturbed' = disturbed /\ reply'.is = "none" /\ pc \notin Ended
  BY AgentSteered, AgentFrame, NoAnswerTyped, MovesRun DEF Steered, server, Config
<1>2. CASE Keeps
  <2>1. inbox' = <<>> /\ (~disturbed => measured = Config) /\ pc' = "kept"
    BY <1>1, <1>2, AnswerEmpties DEF Keeps, Measured
  <2> QED BY <1>1, <2>1 DEF Measured
<1>3. CASE Proceeds
  <2>1. window = "none" /\ pc' # "kept"
    BY <1>3 DEF Proceeds, Windows
  <2> QED BY <1>1, <2>1 DEF Measured
<1>4. CASE Gathers \/ Plans \/ Changing \/ Restores \/ ReadsBack \/ Again \/ GivesUp \/ Falls
  BY <1>4 DEF Gathers, Plans, Changing, Restores, ReadsBack, Again, GivesUp, Falls, Asked,
              Measured, Gathering
<1> QED BY <1>1, <1>2, <1>3, <1>4 DEF Steered, Moves

LEMMA RoundsLeft ==
  ASSUME NEW r \in 0..MaxRounds
  PROVE  /\ (MaxRounds - r) * (MaxActions + 1) \in Nat
         /\ r < MaxRounds => (MaxRounds - r) * (MaxActions + 1) =
                               (MaxRounds - (r + 1)) * (MaxActions + 1) + MaxActions + 1
<1>1. MaxRounds \in Nat /\ MaxActions \in Nat
  BY AgentAssumption
<1>2. PICK d \in Nat : d = MaxRounds - r
  BY <1>1
<1>3. PICK k \in Nat : k = MaxActions + 1
  BY <1>1
<1>4. d * k \in Nat
  OBVIOUS
<1>5. d * k = (d - 1) * k + k
  OBVIOUS
<1> QED BY <1>1, <1>2, <1>3, <1>4, <1>5

LEMMA ToAskIs ==
  ASSUME NEW step \in Steps \union Ended, NEW m \in Runs,
         NEW R \in Nat, R = (MaxRounds - m.round) * (MaxActions + 1)
  PROVE  /\ ToAsk(step, m) \in Nat
         /\ step \in Gathering => ToAsk(step, m) = R + 1
         /\ step = "check" => ToAsk(step, m) = R + Len(m.plan) + 2
         /\ step = "write" => ToAsk(step, m) = R + Len(m.plan) + 1
         /\ step = "after" => ToAsk(step, m) = R + 2
         /\ step \in {"restore", "readback"} =>
              ToAsk(step, m) = IF m.aborting THEN 0 ELSE R + 1
         /\ step \in Ended => ToAsk(step, m) = 0
<1>1. PICK n \in Nat : n = Len(m.plan)
  BY DEF Runs
<1>2. /\ step \in Gathering => ToAsk(step, m) = R + 1
      /\ step = "check" => ToAsk(step, m) = R + n + 2
      /\ step = "write" => ToAsk(step, m) = R + n + 1
      /\ step = "after" => ToAsk(step, m) = R + 2
      /\ step \in {"restore", "readback"} =>
           ToAsk(step, m) = IF m.aborting THEN 0 ELSE R + 1
      /\ step \in Ended => ToAsk(step, m) = 0
  BY <1>1 DEF ToAsk, Gathering, Ended
<1>3. m.aborting \in BOOLEAN
  BY DEF Runs
<1> HIDE DEF Gathering, Ended
<1>4. ToAsk(step, m) \in Nat
  BY <1>2, <1>3 DEF Steps
<1> QED BY <1>1, <1>2, <1>4

LEMMA AgentKept ==
  ASSUME Types, Awaits, Kept, Agent
  PROVE  Kept'
<1>1. /\ Steered /\ file' = file /\ reply'.is = "none" /\ pc \notin Ended
      /\ run \in Runs /\ run' \in Runs
      /\ Progress(pc, run) /\ Progress(pc', run') /\ pc \in Steps /\ pc' \in Steps \union Ended
      /\ inbox \in Seq(Requests) /\ inbox' \in Seq(Requests)
  BY AgentSteered, AgentFrame, NoAnswerTyped, MovesRun DEF Steered, server, Types
<1>2. run.round \in 0..MaxRounds /\ run'.round \in 0..MaxRounds
  BY <1>1 DEF Runs
<1>3. Enough => (run'.known => file.there)
  BY <1>1 DEF Kept, Steered, Moves, Gathers, Plans, Changing, Proceeds, Restores, ReadsBack,
              Again, Keeps, GivesUp, Falls, Runs
<1>4. PICK k \in Nat : k = Cardinality(Savers(inbox))
  BY <1>1, SaversFinite
<1>5. PICK l \in Nat : l = Cardinality(Savers(inbox'))
  BY <1>1, SaversFinite
<1>6. PICK R \in Nat : R = (MaxRounds - run.round) * (MaxActions + 1)
  BY <1>2, RoundsLeft
<1>7. PICK Q \in Nat : Q = (MaxRounds - run'.round) * (MaxActions + 1)
  BY <1>2, RoundsLeft
<1>8. PICK A \in Nat : A = ToAsk(pc, run)
  BY <1>1, <1>6, ToAskIs
<1>9. PICK B \in Nat : B = ToAsk(pc', run')
  BY <1>1, <1>7, ToAskIs
<1>10. PICK n \in Nat : n = file.newer
  BY DEF Types
<1>11. PICK p \in Nat : p = Len(run.plan)
  BY <1>1 DEF Runs
<1>12. PICK q \in Nat : q = Len(run'.plan)
  BY <1>1 DEF Runs
<1>13. p <= MaxActions /\ q <= MaxActions /\ MaxActions \in Nat
  BY <1>1, <1>11, <1>12, AgentAssumption DEF Progress
<1>14. Saves \in Int /\ n + k + A <= Saves
  BY <1>4, <1>8, <1>10, AgentAssumption DEF Kept, Saves
<1>15. SUFFICES l + B <= k + A
  <2>1. n + l + B <= Saves
    BY <1>14, <1>15
  <2> QED BY <1>1, <1>3, <1>5, <1>9, <1>10, <2>1 DEF Kept
<1>16. /\ pc \in Gathering => A = R + 1
       /\ pc = "check" => A = R + p + 2
       /\ pc = "write" => A = R + p + 1
       /\ pc = "after" => A = R + 2
       /\ pc \in {"restore", "readback"} => A = IF run.aborting THEN 0 ELSE R + 1
  <2>1. pc \in Steps \union Ended /\ run \in Runs
    BY <1>1
  <2>2. /\ pc \in Gathering => ToAsk(pc, run) = R + 1
        /\ pc = "check" => ToAsk(pc, run) = R + Len(run.plan) + 2
        /\ pc = "write" => ToAsk(pc, run) = R + Len(run.plan) + 1
        /\ pc = "after" => ToAsk(pc, run) = R + 2
        /\ pc \in {"restore", "readback"} =>
             ToAsk(pc, run) = IF run.aborting THEN 0 ELSE R + 1
    BY <1>6, <2>1, ToAskIs
  <2> QED BY <1>8, <1>11, <2>2
<1>17. /\ pc' \in Gathering => B = Q + 1
       /\ pc' = "check" => B = Q + q + 2
       /\ pc' = "write" => B = Q + q + 1
       /\ pc' = "after" => B = Q + 2
       /\ pc' \in {"restore", "readback"} => B = IF run'.aborting THEN 0 ELSE Q + 1
       /\ pc' \in Ended => B = 0
  <2>1. pc' \in Steps \union Ended /\ run' \in Runs
    BY <1>1
  <2>2. /\ pc' \in Gathering => ToAsk(pc', run') = Q + 1
        /\ pc' = "check" => ToAsk(pc', run') = Q + Len(run'.plan) + 2
        /\ pc' = "write" => ToAsk(pc', run') = Q + Len(run'.plan) + 1
        /\ pc' = "after" => ToAsk(pc', run') = Q + 2
        /\ pc' \in {"restore", "readback"} =>
             ToAsk(pc', run') = IF run'.aborting THEN 0 ELSE Q + 1
        /\ pc' \in Ended => ToAsk(pc', run') = 0
    BY <1>7, <2>1, ToAskIs
  <2> QED BY <1>9, <1>12, <2>2
<1>18. ASSUME NEW step \in Steps \ {"write"}, Asked(step)
       PROVE  IF step = "restore" THEN l <= k + 1 ELSE l = k
  <2> DEFINE r == Request(step)
  <2>1. r \in Requests /\ inbox' = Append(inbox, r)
    BY <1>18, RequestTyped DEF Asked
  <2>2. step # "restore" => r.kind \notin {"interval", "priority", "rollback"}
    BY DEF Request, Call, Steps, Gathering
  <2> HIDE DEF r
  <2> QED BY <1>1, <1>4, <1>5, <2>1, <2>2, AppendedSavers
<1>19. CASE Gathers
  <2>1. run'.round = run.round /\ pc \in Gathering /\ pc' \in Gathering /\ Asked(pc')
    BY <1>19 DEF Gathers
  <2>2. l = k
    BY <1>18, <2>1 DEF Gathering, Steps
  <2>3. R = Q
    BY <1>6, <1>7, <2>1
  <2> QED BY <1>16, <1>17, <2>1, <2>2, <2>3
<1>20. CASE Plans
  <2>1. run'.round = run.round + 1 /\ pc = "scheduler" /\ pc' = "check" /\ Asked("check")
    BY <1>20 DEF Plans, Asked
  <2>2. l = k
    BY <1>18, <2>1 DEF Steps
  <2>3. run.round < MaxRounds
    BY <1>1, <2>1 DEF Progress, Gathering
  <2>4. R = Q + MaxActions + 1
    BY <1>2, <1>6, <1>7, <2>1, <2>3, RoundsLeft
  <2>5. A = R + 1 /\ B = Q + q + 2
    BY <1>16, <1>17, <2>1 DEF Gathering
  <2> QED BY <1>13, <2>2, <2>4, <2>5
<1>21. CASE Changing
  <2>1. pc = "check" /\ pc' = "write" /\ run' = run
    BY <1>21 DEF Changing
  <2>2. Head(run.plan) \in Requests /\ inbox' = Append(inbox, Head(run.plan))
    BY <1>21, ChangingQueue, RequestKinds DEF Changing
  <2>3. l <= k + 1
    BY <1>1, <1>4, <1>5, <2>2, AppendedSavers
  <2>4. R = Q /\ p = q
    BY <1>6, <1>7, <1>11, <1>12, <2>1
  <2> QED BY <1>16, <1>17, <2>1, <2>3, <2>4
<1>22. CASE Proceeds
  <2>1. /\ pc \in {"check", "write"} /\ pc' \in {"check", "after"} /\ Asked(pc')
        /\ run' = [run EXCEPT !.plan = Tail(run.plan)]
    BY <1>22 DEF Proceeds
  <2>2. l = k
    BY <1>18, <2>1 DEF Steps
  <2>3. run'.round = run.round /\ run.plan # <<>> /\ run.plan \in Seq(Changes)
          /\ run'.plan = Tail(run.plan)
    BY <1>1, <2>1 DEF Progress, Runs
  <2>4. q = p - 1
    BY <1>11, <1>12, <2>3
  <2>5. R = Q
    BY <1>6, <1>7, <2>3
  <2>6. A \in {R + p + 2, R + p + 1}
    BY <1>16, <2>1
  <2>7. B \in {Q + q + 2, Q + 2}
    BY <1>17, <2>1
  <2> QED BY <2>2, <2>4, <2>5, <2>6, <2>7
<1>23. CASE Restores
  <2>1. Asked("restore") /\ pc' = "restore"
    BY <1>23 DEF Restores, Asked
  <2>2. l <= k + 1
    BY <1>18, <2>1 DEF Steps
  <2>3. CASE run'.aborting
    <3>1. B = 0
      BY <1>17, <2>1, <2>3
    <3>2. A >= 1
      BY <1>1, <1>16, <1>23 DEF Restores, Steps
    <3> QED BY <2>2, <3>1, <3>2
  <2>4. CASE ~run'.aborting
    <3>1. pc = "after" /\ run' = run
      BY <1>23, <2>4 DEF Restores
    <3>2. R = Q
      BY <1>6, <1>7, <3>1
    <3> QED BY <1>16, <1>17, <2>1, <2>2, <2>4, <3>1, <3>2
  <2> QED BY <1>1, <2>3, <2>4
<1>24. CASE ReadsBack
  <2>1. Asked("readback") /\ pc = "restore" /\ pc' = "readback" /\ run' = run
    BY <1>24 DEF ReadsBack, Asked
  <2>2. l = k
    BY <1>18, <2>1 DEF Steps
  <2>3. R = Q
    BY <1>6, <1>7, <2>1
  <2> QED BY <1>16, <1>17, <2>1, <2>2, <2>3
<1>25. CASE Again
  <2>1. /\ Asked("streams") /\ pc = "readback" /\ pc' = "streams" /\ run'.round = run.round
        /\ ~run.aborting
    BY <1>25 DEF Again, Asked
  <2>2. l = k
    BY <1>18, <2>1 DEF Steps, Gathering
  <2>3. R = Q
    BY <1>6, <1>7, <2>1
  <2> QED BY <1>16, <1>17, <2>1, <2>2, <2>3 DEF Gathering
<1>26. CASE Keeps \/ GivesUp \/ Falls
  <2>1. pc' \in Ended /\ inbox' = inbox
    BY <1>26 DEF Keeps, GivesUp, Falls, Ended
  <2>2. l = k
    BY <1>4, <1>5, <2>1
  <2> QED BY <1>17, <2>1, <2>2
<1> QED BY <1>1, <1>19, <1>20, <1>21, <1>22, <1>23, <1>24, <1>25, <1>26 DEF Steered, Moves

------------------------------------------------------------------------------
(* What a step of the server can be *)

\* The oldest request is answered.
Answered(answer) ==
  /\ inbox # <<>> /\ inbox' = Tail(inbox)
  /\ reply' = IF Len(inbox) = 1 /\ pc \notin Ended THEN answer ELSE reply

Untouched == UNCHANGED <<priority, interval, mine, refused>>

\* A save that may have failed.
MaySave == file'.there = file.there /\ file'.newer \in {file.newer, file.newer + 1}

Looks == Head(inbox).kind \in {"streams", "scheduler"} /\ UNCHANGED file /\ Untouched
Closes == Head(inbox).kind = "benchmark" /\ window # "none" /\ UNCHANGED file /\ Untouched

Baselines(answer) ==
  /\ Head(inbox).kind = "snapshot" /\ Untouched
  /\ \/ file'.there /\ file'.newer = 0
     \/ answer.is = "error" /\ UNCHANGED file

Declines(answer) ==
  /\ Head(inbox).kind \in {"interval", "priority"} /\ Untouched
  /\ answer.is = "error" /\ MaySave

Alters ==
  /\ Head(inbox).kind \in {"interval", "priority"}
  /\ mine' = mine \union {Head(inbox).stream} /\ refused' = refused /\ SavesAnother

Stays(answer) ==
  /\ Head(inbox).kind = "rollback" /\ answer.is = "error"
  /\ refused' = TRUE /\ mine' = mine /\ MaySave

Returns ==
  /\ Head(inbox).kind = "rollback" /\ mine' = {} /\ refused' = FALSE /\ SavesAnother

Serves(answer) ==
  /\ Answered(answer) /\ answer \in Answers /\ answer.is \in {"ok", "error"}
  /\ window' = "none" /\ UNCHANGED <<agent, measured, disturbed, scheduler>>
  /\ \/ Looks \/ Closes \/ Baselines(answer) \/ Declines(answer) \/ Alters
     \/ Stays(answer) \/ Returns

Opens ==
  /\ inbox # <<>> /\ Head(inbox).kind = "benchmark" /\ window = "none"
  /\ window' \in States /\ measured' = Config
  /\ UNCHANGED <<agent, file, inbox, reply, scheduler>> /\ Untouched

LEMMA TablesTyped ==
  \A st, step, p : p \in Priorities => TableFor(st, step)[p] \in Nat
<1>1. \A st, step : TableFor(st, step) \in [high : Nat, normal : Nat, low : Nat]
  BY DEF TableFor, RecoveryTable
<1>2. \A t \in [high : Nat, normal : Nat, low : Nat], p \in Priorities : t[p] \in Nat
  BY DEF Priorities
<1> QED BY <1>1, <1>2

LEMMA RemoveOldest ==
  ASSUME NEW queue \in Seq(Requests), queue # <<>>
  PROVE  RemoveAt(queue, 1) = Tail(queue)
<1>1. Len(queue) \in Nat \ {0}
  OBVIOUS
<1>2. SubSeq(queue, 1, 1 - 1) = <<>>
  BY <1>1
<1>3. SubSeq(queue, 1 + 1, Len(queue)) = Tail(queue)
  BY <1>1
<1>4. Tail(queue) \in Seq(Requests)
  OBVIOUS
<1>5. <<>> \o Tail(queue) = Tail(queue)
  BY <1>4
<1> QED BY <1>2, <1>3, <1>5 DEF RemoveAt

LEMMA RespondAnswers ==
  ASSUME inbox \in Seq(Requests), 1 \in DOMAIN inbox, NEW answer, Respond(1, answer)
  PROVE  Answered(answer)
<1>1. inbox # <<>>
  OBVIOUS
<1> QED BY <1>1, RemoveOldest DEF Respond, Answered

\* The types of what the server keeps.
Keeping ==
  /\ priority \in [Streams -> Priorities] /\ interval \in [Streams -> Nat]
  /\ file \in [there : BOOLEAN, newer : Nat, config : Configs]
  /\ mine \subseteq Streams

LEMMA ConfigTyped ==
  ASSUME Types
  PROVE  Config \in Configs /\ Keeping
BY DEF Types, Config, Configs, Keeping

LEMMA OldestTyped ==
  ASSUME Types, 1 \in DOMAIN inbox
  PROVE  inbox \in Seq(Requests) /\ Head(inbox) = inbox[1] /\ inbox[1] \in Requests
BY DEF Types

LEMMA FailsToSaveMay ==
  ASSUME Types, FailsToSave \/ UNCHANGED file
  PROVE  MaySave /\ file' \in [there : BOOLEAN, newer : Nat, config : Configs]
BY DEF Types, FailsToSave, MaySave

LEMMA SavesTyped ==
  ASSUME Types, SavesAnother
  PROVE  file' \in [there : BOOLEAN, newer : Nat, config : Configs]
<1> DEFINE n == file.newer + 1
           there == file.there /\ file.newer + 1 < MaxSnapshots
<1>1. n \in Nat /\ there \in BOOLEAN /\ file \in [there : BOOLEAN, newer : Nat, config : Configs]
  BY DEF Types
<1>2. file' = [file EXCEPT !.newer = n, !.there = there]
  BY <1>1 DEF SavesAnother
<1> HIDE DEF n, there
<1> QED BY <1>1, <1>2

LEMMA ReadsServes ==
  ASSUME Types, window = "none", 1 \in DOMAIN inbox, Reads(1),
         UNCHANGED <<agent, disturbed>>
  PROVE  Keeping' /\ \E answer : Serves(answer)
<1> DEFINE answer == [Answer("ok") EXCEPT !.config = Config, !.to = state]
<1>1. answer \in Answers /\ answer.is = "ok"
  BY ConfigTyped, NoAnswerTyped DEF Answers, Types
<1>2. Respond(1, answer)
  BY DEF Reads
<1> HIDE DEF answer
<1>3. Answered(answer) /\ Head(inbox) = inbox[1]
  BY <1>2, RespondAnswers, OldestTyped
<1>4. UNCHANGED server /\ inbox[1].kind \in {"streams", "scheduler"}
  BY DEF Reads
<1>5. Serves(answer)
  BY <1>1, <1>3, <1>4 DEF Serves, Looks, Untouched, server, scheduler
<1> QED BY <1>4, <1>5, ConfigTyped DEF server, Keeping

LEMMA ClosesServes ==
  ASSUME Types, Windows, EndWindow, UNCHANGED <<agent, disturbed>>
  PROVE  Keeping' /\ \E answer : Serves(answer)
<1> DEFINE answer == [Answer("ok") EXCEPT !.from = window, !.to = state]
<1>1. answer \in Answers /\ answer.is = "ok"
  BY NoAnswerTyped DEF Answers, Types, EndWindow
<1>2. PICK i \in DOMAIN inbox : inbox[i].kind = "benchmark" /\ Respond(i, answer)
  BY DEF EndWindow
<1> HIDE DEF answer
<1>3. i = 1 /\ window # "none"
  BY <1>2 DEF Windows, Benchmarks, EndWindow
<1>4. Answered(answer) /\ Head(inbox) = inbox[1]
  BY <1>2, <1>3, RespondAnswers, OldestTyped
<1>5. window' = "none" /\ UNCHANGED <<scheduler, priority, interval, file, refused, mine, measured>>
  BY DEF EndWindow
<1>6. Serves(answer)
  BY <1>1, <1>2, <1>3, <1>4, <1>5 DEF Serves, Closes, Untouched
<1> QED BY <1>5, <1>6, ConfigTyped DEF Keeping

LEMMA SnapshotsServes ==
  ASSUME Types, window = "none", 1 \in DOMAIN inbox, Snapshots(1),
         UNCHANGED <<agent, disturbed>>
  PROVE  Keeping' /\ \E answer : Serves(answer)
<1>1. /\ Head(inbox) = inbox[1] /\ inbox[1].kind = "snapshot"
      /\ UNCHANGED <<scheduler, priority, interval, window, refused, mine, measured>>
  BY OldestTyped DEF Snapshots
<1>2. CASE /\ file' = [there |-> TRUE, newer |-> 0, config |-> Config]
           /\ Respond(1, Answer("ok"))
  <2>1. Answered(Answer("ok"))
    BY <1>2, RespondAnswers, OldestTyped
  <2>2. file' \in [there : BOOLEAN, newer : Nat, config : Configs]
    BY <1>2, ConfigTyped
  <2>3. Serves(Answer("ok"))
    BY <1>1, <1>2, <2>1, NoAnswerTyped DEF Serves, Baselines, Untouched
  <2> QED BY <1>1, <2>2, <2>3, ConfigTyped DEF Keeping
<1>3. CASE Respond(1, Answer("error")) /\ UNCHANGED file
  <2>1. Answered(Answer("error"))
    BY <1>3, RespondAnswers, OldestTyped
  <2>2. Serves(Answer("error"))
    BY <1>1, <1>3, <2>1, NoAnswerTyped DEF Serves, Baselines, Untouched
  <2> QED BY <1>1, <1>3, <2>2, ConfigTyped DEF Keeping
<1> QED BY <1>2, <1>3 DEF Snapshots

LEMMA RefusesServes ==
  ASSUME Types, window = "none", 1 \in DOMAIN inbox, Refuses(1),
         UNCHANGED <<agent, disturbed>>
  PROVE  Keeping' /\ \E answer : Serves(answer)
<1>1. /\ Head(inbox) = inbox[1] /\ inbox[1].kind \in {"interval", "priority"}
      /\ UNCHANGED <<scheduler, priority, interval, window, refused, mine, measured>>
  BY OldestTyped DEF Refuses
<1>2. Answered(Answer("error"))
  BY RespondAnswers, OldestTyped DEF Refuses
<1>3. MaySave /\ file' \in [there : BOOLEAN, newer : Nat, config : Configs]
  BY FailsToSaveMay DEF Refuses
<1>4. Serves(Answer("error"))
  BY <1>1, <1>2, <1>3, NoAnswerTyped DEF Serves, Declines, Untouched
<1> QED BY <1>1, <1>3, <1>4, ConfigTyped DEF Keeping

LEMMA WritesServes ==
  ASSUME Types, window = "none", 1 \in DOMAIN inbox, Writes(1),
         UNCHANGED <<agent, disturbed>>
  PROVE  Keeping' /\ \E answer : Serves(answer)
<1> DEFINE r == inbox[1]
<1>1. /\ Head(inbox) = r /\ r \in Requests /\ r.kind \in {"interval", "priority"}
      /\ UNCHANGED <<scheduler, window, refused, measured>>
      /\ mine' = mine \union {r.stream} /\ SavesAnother
  BY OldestTyped DEF Writes
<1>2. Answered(Answer("ok"))
  BY RespondAnswers, OldestTyped DEF Writes
<1>3. Serves(Answer("ok"))
  BY <1>1, <1>2, NoAnswerTyped DEF Serves, Alters
<1>4. r \in Changes
  BY <1>1 DEF Requests, Questions, Call
<1>5. r.stream \in Streams
  BY <1>4 DEF Changes
<1>6. priority' \in [Streams -> Priorities] /\ interval' \in [Streams -> Nat]
  <2>1. CASE r.kind = "interval"
    <3>1. r.value \in Nat
      BY <1>4, <2>1, AgentAssumption DEF Changes
    <3>2. interval' = [interval EXCEPT ![r.stream] = r.value] /\ UNCHANGED priority
      BY <2>1 DEF Writes
    <3> QED BY <3>1, <3>2 DEF Types
  <2>2. CASE r.kind = "priority"
    <3>1. r.value \in Priorities
      BY <1>4, <2>2 DEF Changes
    <3>2. Table[r.value] \in Nat
      BY <3>1, TablesTyped DEF Table
    <3>3. /\ priority' = [priority EXCEPT ![r.stream] = r.value]
          /\ interval' \in {interval, [interval EXCEPT ![r.stream] = Table[r.value]]}
      BY <2>2 DEF Writes
    <3> QED BY <3>1, <3>2, <3>3 DEF Types
  <2> QED BY <1>1, <2>1, <2>2
<1>7. mine' \subseteq Streams /\ file' \in [there : BOOLEAN, newer : Nat, config : Configs]
  BY <1>1, <1>5, SavesTyped DEF Types
<1> QED BY <1>3, <1>6, <1>7 DEF Keeping

LEMMA RefusesRollbackServes ==
  ASSUME Types, window = "none", 1 \in DOMAIN inbox, RefusesRollback(1),
         UNCHANGED <<agent, disturbed>>
  PROVE  Keeping' /\ \E answer : Serves(answer)
<1>1. /\ Head(inbox) = inbox[1] /\ inbox[1].kind = "rollback" /\ refused' = TRUE
      /\ UNCHANGED <<scheduler, priority, interval, window, mine, measured>>
  BY OldestTyped DEF RefusesRollback
<1>2. Answered(Answer("error"))
  BY RespondAnswers, OldestTyped DEF RefusesRollback
<1>3. MaySave /\ file' \in [there : BOOLEAN, newer : Nat, config : Configs]
  BY FailsToSaveMay DEF RefusesRollback
<1>4. Serves(Answer("error"))
  BY <1>1, <1>2, <1>3, NoAnswerTyped DEF Serves, Stays
<1> QED BY <1>1, <1>3, <1>4, ConfigTyped DEF Keeping

LEMMA RollsBackServes ==
  ASSUME Types, window = "none", 1 \in DOMAIN inbox, RollsBack(1),
         UNCHANGED <<agent, disturbed>>
  PROVE  Keeping' /\ \E answer : Serves(answer)
<1> DEFINE c == file.config
<1>1. /\ Head(inbox) = inbox[1] /\ inbox[1].kind = "rollback" /\ refused' = FALSE /\ mine' = {}
      /\ UNCHANGED <<scheduler, window, measured>> /\ SavesAnother
  BY OldestTyped DEF RollsBack
<1>2. PICK is \in {"ok", "error"} : Respond(1, Answer(is))
  BY DEF RollsBack
<1>3. Answered(Answer(is))
  BY <1>2, RespondAnswers, OldestTyped
<1>4. Serves(Answer(is))
  BY <1>1, <1>3, NoAnswerTyped DEF Serves, Returns
<1>5. c.priority \in [Streams -> Priorities] /\ c.interval \in [Streams -> Nat]
  BY DEF Types, Configs
<1>6. \A p \in Priorities : Table[p] \in Nat
  BY TablesTyped DEF Table
<1>7. priority' = c.priority /\ interval' = [s \in Streams |->
        IF Table[c.priority[s]] = Table[priority[s]] THEN c.interval[s] ELSE Table[c.priority[s]]]
  BY DEF RollsBack
<1> HIDE DEF c
<1>8. priority' \in [Streams -> Priorities] /\ interval' \in [Streams -> Nat]
  BY <1>5, <1>6, <1>7
<1> QED BY <1>1, <1>4, <1>8, SavesTyped DEF Keeping

LEMMA BeginOpens ==
  ASSUME Types, window = "none", 1 \in DOMAIN inbox, BeginWindow(1), UNCHANGED agent
  PROVE  Keeping' /\ Opens
<1>1. inbox # <<>> /\ Head(inbox) = inbox[1]
  BY OldestTyped
<1>2. Opens
  BY <1>1 DEF Opens, BeginWindow, Untouched, Types
<1> QED BY <1>2, ConfigTyped DEF Opens, Untouched, Keeping

LEMMA ServerServes ==
  ASSUME Types, Windows, Server
  PROVE  Keeping' /\ (Opens \/ \E answer : Serves(answer))
<1>1. UNCHANGED agent
  BY DEF Server
<1>2. CASE EndWindow /\ UNCHANGED disturbed
  BY <1>1, <1>2, ClosesServes
<1>3. CASE \E i \in Accepted : Serve(i)
  <2>1. 1 \in DOMAIN inbox /\ window = "none" /\ Serve(1)
    BY <1>3 DEF Accepted
  <2>2. CASE BeginWindow(1)
    BY <1>1, <2>1, <2>2, BeginOpens
  <2>3. CASE UNCHANGED disturbed /\ Reads(1)
    BY <1>1, <2>1, <2>3, ReadsServes
  <2>4. CASE UNCHANGED disturbed /\ Snapshots(1)
    BY <1>1, <2>1, <2>4, SnapshotsServes
  <2>5. CASE UNCHANGED disturbed /\ Refuses(1)
    BY <1>1, <2>1, <2>5, RefusesServes
  <2>6. CASE UNCHANGED disturbed /\ Writes(1)
    BY <1>1, <2>1, <2>6, WritesServes
  <2>7. CASE UNCHANGED disturbed /\ RefusesRollback(1)
    BY <1>1, <2>1, <2>7, RefusesRollbackServes
  <2>8. CASE UNCHANGED disturbed /\ RollsBack(1)
    BY <1>1, <2>1, <2>8, RollsBackServes
  <2> QED BY <2>1, <2>2, <2>3, <2>4, <2>5, <2>6, <2>7, <2>8 DEF Serve
<1> QED BY <1>2, <1>3 DEF Server

------------------------------------------------------------------------------
(* The server keeps the invariant *)

LEMMA ServedTypes ==
  ASSUME Types, Keeping', NEW answer, Serves(answer)
  PROVE  Types'
<1>1. inbox' \in Seq(Requests)
  BY TailEntries DEF Serves, Answered, Types
<1>2. reply' \in {answer, reply} /\ answer \in Answers /\ answer.is # "none"
  BY DEF Serves, Answered
<1>3. reply' \in Answers /\ (reply'.is = "none" => reply' = NoAnswer)
  BY <1>2 DEF Types
<1> QED BY <1>1, <1>3 DEF Types, Keeping, Serves, scheduler, agent

LEMMA OpensTypes ==
  ASSUME Types, Keeping', Opens
  PROVE  Types'
<1>1. Config \in Configs
  BY ConfigTyped
<1> QED BY <1>1 DEF Types, Keeping, Opens, scheduler, agent

\* What the agent is answered, the server was asked for last.
LEMMA AnsweredLast ==
  ASSUME Types, Awaits, NEW answer, Serves(answer)
  PROVE  /\ inbox \in Seq(Requests) /\ inbox # <<>> /\ inbox' = Tail(inbox) /\ pc' = pc
         /\ run' = run
         /\ pc \notin Ended =>
              /\ reply = NoAnswer
              /\ Len(inbox) = 1 => reply' = answer /\ Head(inbox).kind \in Asks(pc)
              /\ Len(inbox) # 1 => reply' = NoAnswer
         /\ pc \in Ended => reply' = reply
<1>1. /\ inbox \in Seq(Requests) /\ inbox # <<>> /\ inbox' = Tail(inbox) /\ pc' = pc /\ run' = run
      /\ reply' = IF Len(inbox) = 1 /\ pc \notin Ended THEN answer ELSE reply
  BY DEF Types, Serves, Answered, agent
<1>2. Head(inbox) = inbox[1]
  BY <1>1, TailEntries
<1> QED BY <1>1, <1>2 DEF Awaits

LEMMA ServedAwaits ==
  ASSUME Types, Awaits, NEW answer, Serves(answer)
  PROVE  Awaits'
<1> SUFFICES ASSUME pc \notin Ended PROVE Awaits'
  BY AnsweredLast DEF Awaits
<1>1. /\ inbox \in Seq(Requests) /\ inbox # <<>> /\ inbox' = Tail(inbox) /\ pc' = pc
      /\ Len(inbox) = 1 => reply' = answer
      /\ Len(inbox) # 1 => reply' = NoAnswer
      /\ inbox[Len(inbox)].kind \in Asks(pc)
  BY AnsweredLast DEF Awaits
<1>2. answer # NoAnswer
  BY NoAnswerTyped DEF Serves
<1>3. CASE Len(inbox) = 1
  <2>1. Tail(inbox) = <<>>
    BY <1>1, <1>3
  <2> QED BY <1>1, <1>2, <1>3, <2>1 DEF Awaits
<1>4. CASE Len(inbox) # 1
  <2>1. PICK n \in Nat \ {0} : n = Len(inbox)
    BY <1>1, TailEntries
  <2>2. Len(Tail(inbox)) = n - 1 /\ n - 1 \in 1..(n - 1)
    BY <1>1, <1>4, <2>1, TailEntries
  <2>3. Tail(inbox)[n - 1] = inbox[(n - 1) + 1]
    BY <1>1, <2>1, <2>2, TailEntries
  <2>4. Tail(inbox)[Len(Tail(inbox))] = inbox[Len(inbox)]
    BY <2>1, <2>2, <2>3
  <2>5. Tail(inbox) # <<>>
    <3>1. PICK rest \in Seq(Requests) : rest = Tail(inbox)
      BY <1>1, TailEntries
    <3>2. Len(rest) # 0
      BY <2>2, <3>1
    <3>3. rest # <<>>
      BY <3>2
    <3> QED BY <3>1, <3>3
  <2> QED BY <1>1, <1>4, <2>4, <2>5 DEF Awaits
<1> QED BY <1>3, <1>4

LEMMA ServedWindows ==
  ASSUME Types, Awaits, Windows, NEW answer, Serves(answer)
  PROVE  Windows'
<1> DEFINE old == Benchmarks(inbox)
           new == Benchmarks(inbox')
           n == Len(inbox)
<1>1. /\ inbox \in Seq(Requests) /\ inbox # <<>> /\ inbox' = Tail(inbox) /\ pc' = pc
      /\ window' = "none"
  BY AnsweredLast DEF Serves
<1>2. n \in Nat \ {0} /\ Len(inbox') = n - 1 /\ old \subseteq 1..n
      /\ new = {i \in 1..(n - 1) : i + 1 \in old}
  BY <1>1, TailEntries, TailKinds DEF Benchmarks
<1>3. /\ \A i, j \in old : i = j
      /\ pc \in {"before", "after"} => old \subseteq {n}
      /\ pc \in {"streams", "scheduler", "baseline", "check", "write", "readback"} => old = {}
  BY DEF Windows
<1> HIDE DEF old, new, n
<1>4. \A i, j \in new : i = j
  <2> SUFFICES ASSUME NEW i \in new, NEW j \in new PROVE i = j
    OBVIOUS
  <2>1. i + 1 = j + 1 /\ i \in Int /\ j \in Int
    BY <1>2, <1>3
  <2> QED BY <2>1
<1>5. pc \in {"before", "after"} => new \subseteq {n - 1}
  BY <1>2, <1>3
<1>6. old = {} => new = {}
  BY <1>2
<1> QED BY <1>1, <1>2, <1>3, <1>4, <1>5, <1>6 DEF Windows, new

LEMMA ServedStreams ==
  ASSUME Types, NEW answer, Serves(answer)
  PROVE  /\ Pending(inbox') \subseteq Pending(inbox)
         /\ Head(inbox).kind \in {"interval", "priority"} => Head(inbox).stream \in Pending(inbox)
         /\ \A j \in Writers(inbox') : j + 1 \in Writers(inbox)
<1>1. inbox \in Seq(Requests) /\ inbox # <<>> /\ inbox' = Tail(inbox)
  BY DEF Types, Serves, Answered
<1>2. Head(inbox) = inbox[1] /\ 1 \in DOMAIN inbox
  BY <1>1
<1>3. Head(inbox).kind \in {"interval", "priority"} => Head(inbox).stream \in Pending(inbox)
  BY <1>2 DEF Pending, Writers
<1> QED BY <1>1, <1>3, TailStreams, TailKinds

LEMMA ServedBounded ==
  ASSUME Types, Awaits, Bounded, NEW answer, Serves(answer)
  PROVE  Bounded'
<1> DEFINE old == mine \union Pending(inbox) \union Planned(pc, run.plan)
           new == mine' \union Pending(inbox') \union Planned(pc, run.plan)
<1>1. /\ pc' = pc /\ run' = run /\ run.plan \in Seq(Changes) /\ inbox \in Seq(Requests)
      /\ mine \subseteq Streams /\ MaxActions \in Nat
  BY AnsweredLast, AgentAssumption DEF Types, Runs
<1>2. Pending(inbox') \subseteq Pending(inbox)
  BY ServedStreams
<1>3. \/ mine' \subseteq mine
      \/ \E s \in Pending(inbox) : mine' = mine \union {s}
  BY ServedStreams DEF Serves, Looks, Closes, Baselines, Declines, Alters, Stays, Returns, Untouched
<1>4. new \subseteq old
  BY <1>2, <1>3
<1>5. old \subseteq Streams
  BY <1>1, PendingTyped, PlannedTyped
<1>6. Cardinality(new) <= MaxActions
  <2>1. Cardinality(old) <= MaxActions
    BY DEF Bounded
  <2> HIDE DEF old, new
  <2> QED BY <1>1, <1>4, <1>5, <2>1, StreamsCount
<1>7. pc \in Gathering \union {"readback"} => mine' = {} /\ Pending(inbox') = {}
  BY <1>2, <1>3 DEF Bounded
<1>8. ASSUME pc = "restore", reply'.is = "ok"
      PROVE  mine' = {}
  <2>1. Len(inbox) = 1 /\ reply' = answer /\ Head(inbox).kind = "rollback"
    BY <1>8, AnsweredLast, NoAnswerTyped DEF Ended, Asks, Request, Call
  <2> QED BY <1>8, <2>1 DEF Serves, Looks, Closes, Baselines, Declines, Alters, Stays, Returns
<1> QED BY <1>1, <1>6, <1>7, <1>8 DEF Bounded

LEMMA ServedTraceless ==
  ASSUME Types, Traceless, NEW answer, Serves(answer)
  PROVE  Traceless'
<1>1. /\ inbox \in Seq(Requests) /\ inbox # <<>> /\ inbox' = Tail(inbox) /\ pc' = pc
  BY DEF Types, Serves, Answered, agent
<1>2. /\ Pending(inbox') \subseteq Pending(inbox)
      /\ Head(inbox).kind \in {"interval", "priority"} => Head(inbox).stream \in Pending(inbox)
      /\ \A j \in Writers(inbox') : j + 1 \in Writers(inbox)
  BY ServedStreams
<1>3. Undone => Undone'
  <2>1. CASE Pending(inbox) = {} /\ (mine = {} \/ refused)
    <3>1. Pending(inbox') = {} /\ Head(inbox).kind \notin {"interval", "priority"}
      BY <1>2, <2>1
    <3>2. mine' = {} \/ refused'
      BY <2>1, <3>1 DEF Serves, Looks, Closes, Baselines, Declines, Alters, Stays, Returns, Untouched
    <3> QED BY <3>1, <3>2 DEF Undone
  <2>2. ASSUME NEW i \in DOMAIN inbox, inbox[i].kind = "rollback",
               \A j \in Writers(inbox) : j < i
        PROVE  Undone'
    <3>1. Len(inbox) \in Nat /\ i \in 1..Len(inbox) /\ DOMAIN inbox' = 1..(Len(inbox) - 1)
            /\ Head(inbox) = inbox[1]
            /\ \A j \in 1..(Len(inbox) - 1) : inbox'[j] = inbox[j + 1]
      BY <1>1, <2>2, TailEntries
    <3>2. Writers(inbox') \subseteq Int
      BY <3>1 DEF Writers
    <3>3. CASE i = 1
      <4>1. Writers(inbox') = {}
        <5> SUFFICES ASSUME NEW j \in Writers(inbox') PROVE FALSE
          OBVIOUS
        <5>1. j + 1 < 1 /\ j \in 1..(Len(inbox) - 1)
          BY <1>2, <2>2, <3>1, <3>3 DEF Writers
        <5> QED BY <5>1
      <4>2. Pending(inbox') = {}
        BY <4>1 DEF Pending
      <4>3. mine' = {} \/ refused'
        BY <2>2, <3>1, <3>3 DEF Serves, Looks, Closes, Baselines, Declines, Alters, Stays, Returns
      <4> QED BY <4>2, <4>3 DEF Undone
    <3>4. CASE i # 1
      <4>1. i - 1 \in DOMAIN inbox' /\ inbox'[i - 1].kind = "rollback"
        BY <2>2, <3>1, <3>4
      <4>2. \A j \in Writers(inbox') : j < i - 1
        BY <1>2, <2>2, <3>1, <3>2
      <4> QED BY <4>1, <4>2 DEF Undone
    <3> QED BY <3>3, <3>4
  <2> QED BY <2>1, <2>2 DEF Undone
<1> QED BY <1>1, <1>3 DEF Traceless

LEMMA ServedMeasured ==
  ASSUME Types, Awaits, Measured, NEW answer, Serves(answer)
  PROVE  Measured'
<1>1. pc' = pc /\ window' = "none" /\ measured' = measured /\ disturbed' = disturbed
  BY DEF Serves, agent
<1>2. pc # "kept"
  BY DEF Measured, Serves, Answered
<1>3. ASSUME pc = "after", ~disturbed, reply'.is = "ok"
      PROVE  measured = Config'
  <2>1. Head(inbox).kind = "benchmark"
    BY <1>3, AnsweredLast, NoAnswerTyped DEF Ended, Asks, Request, Call
  <2>2. Closes
    BY <2>1 DEF Serves, Looks, Baselines, Declines, Alters, Stays, Returns
  <2> QED BY <1>3, <2>2 DEF Closes, Untouched, Measured, Config
<1> QED BY <1>1, <1>2, <1>3 DEF Measured

LEMMA ServedKept ==
  ASSUME Types, Awaits, Kept, NEW answer, Serves(answer)
  PROVE  Kept'
<1>1. /\ inbox \in Seq(Requests) /\ inbox # <<>> /\ inbox' = Tail(inbox) /\ pc' = pc /\ run' = run
      /\ Tail(inbox) \in Seq(Requests) /\ run \in Runs
  BY AnsweredLast, TailEntries DEF Types
<1>2. PICK k \in Nat : k = Cardinality(Savers(inbox))
  BY <1>1, SaversFinite
<1>3. PICK l \in Nat : l = Cardinality(Savers(inbox'))
  BY <1>1, SaversFinite
<1>4. PICK R \in Nat : R = (MaxRounds - run.round) * (MaxActions + 1)
  BY <1>1, RoundsLeft DEF Runs
<1>5. PICK A \in Nat : A = ToAsk(pc, run)
  BY <1>1, <1>4, ToAskIs DEF Types
<1>6. PICK n \in Nat : n = file.newer
  BY DEF Types
<1>7. PICK p \in Int : p = Saves /\ MaxSnapshots \in Int
  BY AgentAssumption DEF Saves
<1>8. n + k + A <= p
  BY <1>2, <1>5, <1>6, <1>7 DEF Kept
<1>9. /\ l <= k
      /\ Head(inbox).kind \in {"interval", "priority", "rollback"} => l + 1 <= k
  BY <1>1, <1>2, <1>3, TailSavers
<1>10. CASE Alters \/ Returns
  <2>1. l + 1 <= k /\ SavesAnother
    BY <1>9, <1>10 DEF Alters, Returns
  <2>2. file'.newer = n + 1 /\ (file'.there <=> file.there /\ n + 1 < MaxSnapshots)
    BY <1>6, <2>1 DEF SavesAnother, Types
  <2>3. Enough => n + 1 < MaxSnapshots
    BY <1>7, <1>8, <2>1 DEF Enough
  <2>4. (n + 1) + l + A <= p
    BY <1>8, <2>1
  <2>5. reply'.is = "ok" => pc # "baseline"
    <3>1. ASSUME pc = "baseline", reply'.is = "ok"
          PROVE  Head(inbox).kind = "snapshot"
      BY <3>1, AnsweredLast, NoAnswerTyped DEF Ended, Asks, Request, Call
    <3> QED BY <1>10, <3>1 DEF Alters, Returns
  <2>6. Enough => (run.known => file'.there)
    BY <2>2, <2>3 DEF Kept
  <2> QED BY <1>1, <1>3, <1>5, <1>7, <2>2, <2>4, <2>5, <2>6 DEF Kept
<1>11. CASE Declines(answer) \/ Stays(answer)
  <2>1. l + 1 <= k /\ MaySave
    BY <1>9, <1>11 DEF Declines, Stays
  <2>2. file'.newer \in {n, n + 1} /\ (file'.there <=> file.there)
    BY <1>6, <2>1 DEF MaySave
  <2>3. file'.newer + l + A <= p
    BY <1>8, <2>1, <2>2
  <2>4. reply'.is = "ok" => pc # "baseline"
    <3>1. ASSUME pc = "baseline", reply'.is = "ok"
          PROVE  Head(inbox).kind = "snapshot"
      BY <3>1, AnsweredLast, NoAnswerTyped DEF Ended, Asks, Request, Call
    <3> QED BY <1>11, <3>1 DEF Declines, Stays
  <2> QED BY <1>1, <1>3, <1>5, <1>7, <2>2, <2>3, <2>4 DEF Kept
<1>12. CASE Looks \/ Closes
  <2>1. file' = file
    BY <1>12 DEF Looks, Closes
  <2>2. n + l + A <= p
    BY <1>8, <1>9
  <2>3. reply'.is = "ok" => pc # "baseline"
    <3>1. ASSUME pc = "baseline", reply'.is = "ok"
          PROVE  Head(inbox).kind = "snapshot"
      BY <3>1, AnsweredLast, NoAnswerTyped DEF Ended, Asks, Request, Call
    <3> QED BY <1>12, <3>1 DEF Looks, Closes
  <2> QED BY <1>1, <1>3, <1>5, <1>6, <1>7, <2>1, <2>2, <2>3 DEF Kept
<1>13. CASE Baselines(answer)
  <2>1. CASE file'.there /\ file'.newer = 0
    <3>1. 0 + l + A <= p
      BY <1>8, <1>9
    <3> QED BY <1>1, <1>3, <1>5, <1>7, <2>1, <3>1 DEF Kept
  <2>2. CASE answer.is = "error" /\ UNCHANGED file
    <3>1. n + l + A <= p
      BY <1>8, <1>9
    <3>2. pc = "baseline" => reply'.is # "ok"
      BY <2>2, AnsweredLast, NoAnswerTyped DEF Ended
    <3> QED BY <1>1, <1>3, <1>5, <1>6, <1>7, <2>2, <3>1, <3>2 DEF Kept
  <2> QED BY <1>13, <2>1, <2>2 DEF Baselines
<1> QED BY <1>10, <1>11, <1>12, <1>13 DEF Serves

------------------------------------------------------------------------------
(* The scheduler, a crash, the deadline *)

Safe == Types /\ Awaits /\ Windows /\ Bounded /\ Measured /\ Kept

LEMMA TickSafe ==
  ASSUME Safe, SchedulerTick
  PROVE  Safe'
<1>1. /\ UNCHANGED <<priority, file, window, refused, mine, measured, inbox, reply, agent>>
      /\ disturbed' = TRUE
  BY DEF SchedulerTick
<1>2. state' \in States /\ recoveryStep' \in 0..LastRecoveryStep
  <2>1. Scheduler!Next /\ state \in States /\ recoveryStep \in 0..LastRecoveryStep
    BY DEF SchedulerTick, Safe, Types
  <2> QED
    BY <2>1 DEF Scheduler!Next, Scheduler!ToState, Scheduler!StepDown, Scheduler!Recovered,
                Scheduler!LastRecoveryStep, Scheduler!Escalated, Scheduler!States,
                States, LastRecoveryStep
<1>3. interval' \in [Streams -> Nat]
  <2>1. \A s \in Streams : TableFor(state', recoveryStep')[priority[s]] \in Nat
    BY TablesTyped DEF Safe, Types
  <2> QED BY <2>1 DEF SchedulerTick, Safe, Types
<1>4. Types'
  BY <1>1, <1>2, <1>3 DEF Safe, Types, agent
<1>5. Awaits' /\ Windows' /\ Bounded' /\ Kept'
  BY <1>1 DEF Safe, Awaits, Windows, Bounded, Kept, agent
<1>6. Measured'
  BY <1>1 DEF Safe, Measured, agent
<1> QED BY <1>4, <1>5, <1>6 DEF Safe

LEMMA TickTraceless ==
  ASSUME Traceless, SchedulerTick
  PROVE  Traceless'
BY DEF SchedulerTick, agent, Traceless, Undone

LEMMA ExpireSafe ==
  ASSUME Safe, Expire
  PROVE  Safe'
<1>1. UNCHANGED <<server, inbox, reply, pc, run, disturbed>>
  BY DEF Expire
<1>2. Types'
  BY <1>1 DEF Safe, Types, server
<1>3. Awaits' /\ Windows' /\ Bounded' /\ Kept' /\ Measured'
  BY <1>1 DEF Safe, Awaits, Windows, Bounded, Kept, Measured, Config, server
<1> QED BY <1>2, <1>3 DEF Safe

LEMMA ExpireTraceless ==
  ASSUME Traceless, Expire
  PROVE  Traceless'
BY DEF Expire, server, Traceless, Undone

LEMMA CrashSafe ==
  ASSUME Safe, Crash
  PROVE  Safe'
<1>1. /\ priority' = InitialConfig.priority /\ interval' = InitialConfig.interval
      /\ state' = "NORMAL" /\ recoveryStep' = 0
      /\ inbox' = <<>> /\ window' = "none" /\ mine' = {} /\ disturbed' = TRUE
      /\ reply' = (IF inbox = <<>> THEN reply ELSE Lost)
      /\ UNCHANGED <<refused, measured, agent>>
  BY DEF Crash
<1>2. MaySave /\ file' \in [there : BOOLEAN, newer : Nat, config : Configs]
  BY FailsToSaveMay DEF Safe, Crash
<1>3. inbox' \in Seq(Requests)
  BY <1>1
<1>4. Types'
  BY <1>1, <1>2, <1>3, InitialConfigTyped, NoAnswerTyped
     DEF Safe, Types, Configs, States, LastRecoveryStep, agent
<1>5. Awaits'
  <2>1. pc' = pc /\ Lost # NoAnswer
    BY <1>1, NoAnswerTyped DEF agent
  <2> QED BY <1>1, <2>1 DEF Safe, Awaits
<1>6. Windows'
  BY <1>1, EmptyQueue DEF Windows, agent
<1>7. Bounded'
  <2> DEFINE old == mine \union Pending(inbox) \union Planned(pc, run.plan)
             new == Planned(pc, run.plan)
  <2>1. old \subseteq Streams
    BY PendingTyped, PlannedTyped DEF Safe, Types, Runs
  <2>2. Cardinality(old) <= MaxActions /\ MaxActions \in Nat /\ new \subseteq old
    BY AgentAssumption DEF Safe, Bounded
  <2> HIDE DEF old
  <2>3. Cardinality(new) <= MaxActions
    <3> HIDE DEF new
    <3> QED BY <2>1, <2>2, StreamsCount
  <2>4. mine' \union Pending(inbox') \union Planned(pc', run'.plan) = new
    BY <1>1, EmptyQueue DEF agent
  <2>5. mine' = {} /\ Pending(inbox') = {}
    BY <1>1, EmptyQueue
  <2> HIDE DEF new
  <2> QED BY <2>3, <2>4, <2>5 DEF Bounded
<1>8. Measured'
  BY <1>1 DEF Safe, Measured, agent
<1>9. Kept'
  <2>1. PICK k \in Nat : k = Cardinality(Savers(inbox))
    BY SaversFinite DEF Safe, Types
  <2>2. PICK R \in Nat : R = (MaxRounds - run.round) * (MaxActions + 1)
    BY RoundsLeft DEF Safe, Types, Runs
  <2>3. PICK A \in Nat : A = ToAsk(pc, run)
    BY <2>2, ToAskIs DEF Safe, Types
  <2>4. PICK n \in Nat : n = file.newer
    BY DEF Safe, Types
  <2>5. PICK p \in Int : p = Saves
    BY AgentAssumption DEF Saves
  <2>6. n + k + A <= p
    BY <2>1, <2>3, <2>4, <2>5 DEF Safe, Kept
  <2>7. file' = file \/ k >= 1
    <3>1. CASE inbox # <<>> /\ Head(inbox).kind \in {"interval", "priority", "rollback"}
      <4>1. Tail(inbox) \in Seq(Requests) /\ inbox \in Seq(Requests)
        BY <3>1 DEF Safe, Types
      <4>2. PICK l \in Nat : l = Cardinality(Savers(Tail(inbox)))
        BY <4>1, SaversFinite
      <4>3. l + 1 <= k
        BY <2>1, <3>1, <4>1, <4>2, TailSavers
      <4> QED BY <4>3
    <3>2. CASE ~(inbox # <<>> /\ Head(inbox).kind \in {"interval", "priority", "rollback"})
      BY <3>2 DEF Crash
    <3> QED BY <3>1, <3>2
  <2>8. file'.newer \in {n, n + 1} /\ (file' = file => file'.newer = n)
          /\ (file'.there <=> file.there)
    BY <1>2, <2>4 DEF MaySave
  <2>9. file'.newer + 0 + A <= p
    BY <2>6, <2>7, <2>8
  <2>10. Cardinality(Savers(inbox')) = 0
    BY <1>1, EmptyQueue, FS_EmptySet
  <2>11. reply'.is = "ok" => reply' = reply
    BY <1>1, NoAnswerTyped
  <2> QED BY <1>1, <2>3, <2>5, <2>8, <2>9, <2>10, <2>11 DEF Safe, Kept, agent
<1> QED BY <1>4, <1>5, <1>6, <1>7, <1>8, <1>9 DEF Safe

LEMMA CrashTraceless ==
  ASSUME Traceless, Crash
  PROVE  Traceless'
<1>1. inbox' = <<>> /\ mine' = {}
  BY DEF Crash
<1>2. Undone'
  BY <1>1, EmptyQueue DEF Undone
<1> QED BY <1>2 DEF Traceless

------------------------------------------------------------------------------
(* The theorems *)

LEMMA InitSafe == Init => Safe /\ Traceless
<1> SUFFICES ASSUME Init PROVE Safe /\ Traceless
  OBVIOUS
<1>1. /\ inbox = <<Call("streams")>> /\ pc = "streams" /\ reply = NoAnswer /\ window = "none"
      /\ mine = {} /\ file = [there |-> FALSE, newer |-> 0, config |-> InitialConfig]
      /\ state = "NORMAL" /\ recoveryStep = 0 /\ measured = InitialConfig
      /\ priority = InitialConfig.priority /\ interval = InitialConfig.interval
      /\ run = [phase |-> "start", round |-> 0, plan |-> <<>>, seen |-> InitialConfig,
                baseline |-> InitialConfig, known |-> FALSE, spoilt |-> FALSE, aborting |-> FALSE]
  BY DEF Init, Scheduler!Init
<1>2. {MaxRounds, MaxActions} \subseteq Nat \ {0}
  BY AgentAssumption
<1>3. Call("streams") \in Requests /\ Call("streams").kind = "streams"
  BY DEF Requests, Questions, Call
<1>4. inbox \in Seq(Requests) /\ Len(inbox) = 1 /\ DOMAIN inbox = {1} /\ inbox[1] = Call("streams")
  BY <1>1, <1>3
<1>5. run \in Runs /\ Progress("streams", run)
  <2>1. 0 \in 0..MaxRounds /\ 0 < MaxRounds /\ 0 <= MaxActions
    BY <1>2
  <2>2. <<>> \in Seq(Changes) /\ Len(<<>>) = 0
    OBVIOUS
  <2>3. run \in Runs
    BY <1>1, <2>1, <2>2, InitialConfigTyped DEF Runs
  <2> QED BY <1>1, <2>1, <2>2, <2>3 DEF Progress, Steps, Gathering
<1>6. Types
  BY <1>1, <1>4, <1>5, InitialConfigTyped, NoAnswerTyped
     DEF Types, Configs, States, LastRecoveryStep, Steps, Gathering
<1>7. Awaits
  BY <1>1, <1>3, <1>4 DEF Awaits, Asks, Request
<1>8. Writers(inbox) = {} /\ Benchmarks(inbox) = {} /\ Savers(inbox) = {}
  BY <1>3, <1>4 DEF Writers, Benchmarks, Savers
<1>9. Windows
  BY <1>1, <1>8 DEF Windows
<1>10. Bounded
  <2>1. Pending(inbox) = {} /\ Planned(pc, run.plan) = {}
    BY <1>1, <1>8 DEF Pending, Planned
  <2>2. mine \union Pending(inbox) \union Planned(pc, run.plan) = {}
    BY <1>1, <2>1
  <2>3. Cardinality(mine \union Pending(inbox) \union Planned(pc, run.plan)) = 0
    BY <2>2, FS_EmptySet
  <2> QED BY <1>1, <1>2, <2>1, <2>3 DEF Bounded
<1>11. Measured
  BY <1>1 DEF Measured
<1>12. Kept
  <2>1. PICK R \in Nat : R = MaxRounds * (MaxActions + 1)
    BY <1>2
  <2>2. (MaxRounds - run.round) * (MaxActions + 1) = R
    BY <1>1, <1>2, <2>1
  <2>3. ToAsk(pc, run) = R + 1
    BY <1>1, <1>5, <2>2, ToAskIs DEF Steps, Gathering
  <2>4. Saves = R + 1
    BY <2>1 DEF Saves
  <2>5. Cardinality(Savers(inbox)) = 0
    BY <1>8, FS_EmptySet
  <2>6. file.newer = 0 /\ ~run.known /\ pc # "baseline"
    BY <1>1
  <2> QED BY <2>3, <2>4, <2>5, <2>6 DEF Kept
<1>13. Traceless
  BY <1>1 DEF Traceless
<1> QED BY <1>6, <1>7, <1>9, <1>10, <1>11, <1>12, <1>13 DEF Safe

LEMMA StutterSafe ==
  ASSUME Safe, UNCHANGED vars
  PROVE  Safe'
BY DEF Safe, Types, Awaits, Windows, Bounded, Measured, Kept, Config, vars, server, agent

LEMMA NextSafe ==
  ASSUME Safe, [Next]_vars
  PROVE  Safe'
<1>1. CASE Agent
  <2>1. Types' /\ Awaits' /\ Windows'
    BY <1>1, AgentTypes, AgentAwaits, AgentWindows DEF Safe
  <2>2. Bounded' /\ Measured' /\ Kept'
    BY <1>1, AgentBounded, AgentMeasured, AgentKept DEF Safe
  <2> QED BY <2>1, <2>2 DEF Safe
<1>2. CASE Server
  <2>1. Keeping' /\ (Opens \/ \E answer : Serves(answer))
    BY <1>2, ServerServes DEF Safe
  <2>2. CASE Opens
    <3>1. Types'
      BY <2>1, <2>2, OpensTypes DEF Safe
    <3>2. inbox' = inbox /\ pc' = pc /\ run' = run /\ reply' = reply /\ file' = file
            /\ mine' = mine /\ measured' = Config /\ Config' = Config /\ inbox # <<>>
      BY <2>2 DEF Opens, Untouched, agent, Config
    <3>3. 1 \in Benchmarks(inbox)
      BY <2>2 DEF Benchmarks, Opens, Safe, Types
    <3>4. Awaits' /\ Windows' /\ Bounded' /\ Kept' /\ Measured'
      BY <3>2, <3>3 DEF Safe, Awaits, Windows, Bounded, Kept, Measured
    <3> QED BY <3>1, <3>4 DEF Safe
  <2>3. ASSUME NEW answer, Serves(answer) PROVE Safe'
    <3>1. Types' /\ Awaits' /\ Windows'
      BY <2>1, <2>3, ServedTypes, ServedAwaits, ServedWindows DEF Safe
    <3>2. Bounded' /\ Measured' /\ Kept'
      BY <2>3, ServedBounded, ServedMeasured, ServedKept DEF Safe
    <3> QED BY <3>1, <3>2 DEF Safe
  <2> QED BY <2>1, <2>2, <2>3
<1>3. CASE SchedulerTick
  BY <1>3, TickSafe
<1>4. CASE Crash
  BY <1>4, CrashSafe
<1>5. CASE Expire
  BY <1>5, ExpireSafe
<1>6. CASE UNCHANGED vars
  BY <1>6, StutterSafe
<1> QED BY <1>1, <1>2, <1>3, <1>4, <1>5, <1>6 DEF Next

LEMMA NextTraceless ==
  ASSUME Safe, Traceless, [Next]_vars
  PROVE  Traceless'
<1>1. CASE Agent
  BY <1>1, AgentTraceless DEF Safe
<1>2. CASE Server
  <2>1. Opens \/ \E answer : Serves(answer)
    BY <1>2, ServerServes DEF Safe
  <2>2. CASE Opens
    BY <2>2 DEF Opens, Untouched, agent, Traceless, Undone
  <2>3. ASSUME NEW answer, Serves(answer) PROVE Traceless'
    BY <2>3, ServedTraceless DEF Safe
  <2> QED BY <2>1, <2>2, <2>3
<1>3. CASE SchedulerTick
  BY <1>3, TickTraceless
<1>4. CASE Crash
  BY <1>4, CrashTraceless
<1>5. CASE Expire
  BY <1>5, ExpireTraceless
<1>6. CASE UNCHANGED vars
  BY <1>6 DEF vars, server, agent, Traceless, Undone
<1> QED BY <1>1, <1>2, <1>3, <1>4, <1>5, <1>6 DEF Next

LEMMA AlwaysSafe == Spec => [](Safe /\ Traceless)
<1>1. Safe /\ Traceless /\ [Next]_vars => Safe' /\ Traceless'
  BY NextSafe, NextTraceless
<1> QED BY InitSafe, <1>1, PTL DEF Spec

\* A run always waits for exactly one answer, plans no change beyond max_infer_interval,
\* and, where max_snapshots is more than what the run's own writes and rollbacks can
\* take, in every round (7 at the agent's defaults, of 32 in the configurations), the
\* baseline it goes back to is never among the snapshots the server deletes
\* (executor.py, main.py; SnapshotStore::save).
THEOREM BaselineOutlivesTheRun ==
  ASSUME MaxSnapshots > MaxRounds * (MaxActions + 1) + 1
  PROVE  Spec => []TypeOK
<1>0. Enough
  BY DEF Enough, Saves
<1>1. ASSUME Safe
      PROVE  TypeOK
  <2>1. /\ Config \in Configs /\ file \in [there : BOOLEAN, newer : Nat, config : Configs]
        /\ inbox \in Seq(Requests) /\ run \in Runs /\ pc \in Steps \union Ended
    BY <1>1, ConfigTyped DEF Safe, Types
  <2>2. file.newer <= MaxSnapshots
    <3>1. PICK k \in Nat : k = Cardinality(Savers(inbox))
      BY <2>1, SaversFinite
    <3>2. PICK R \in Nat : R = (MaxRounds - run.round) * (MaxActions + 1)
      BY <2>1, RoundsLeft DEF Runs
    <3>3. PICK A \in Nat : A = ToAsk(pc, run)
      BY <2>1, <3>2, ToAskIs
    <3>4. PICK p \in Int : p = Saves /\ p < MaxSnapshots /\ MaxSnapshots \in Int
      BY <1>0, AgentAssumption DEF Saves, Enough
    <3>5. PICK n \in Nat : n = file.newer
      BY <2>1
    <3>6. n + k + A <= p
      BY <1>1, <3>1, <3>3, <3>4, <3>5 DEF Safe, Kept
    <3> QED BY <3>4, <3>5, <3>6
  <2>3. file.newer \in 0..MaxSnapshots
    BY <2>1, <2>2, AgentAssumption
  <2>4. file \in [there : BOOLEAN, newer : 0..MaxSnapshots, config : Configs]
    BY <2>1, <2>3
  <2> QED BY <1>0, <1>1, <2>1, <2>4 DEF Safe, Types, Awaits, Kept, TypeOK, Steps, Gathering, Checked, Runs
<1> QED BY AlwaysSafe, <1>1, PTL

\* Whatever is lost, late, refused or restarted, in whichever round: never more than
\* max_actions_per_round streams run at a setting of the agent's, since a round starts
\* only once the rollback of the one before has been read back (executor.py).
THEOREM NeverMoreThanOnePlan == Spec => []ChangeIsBounded
<1>1. ASSUME Safe
      PROVE  ChangeIsBounded
  <2> DEFINE old == mine \union Pending(inbox) \union Planned(pc, run.plan)
  <2>1. old \subseteq Streams
    BY <1>1, PendingTyped, PlannedTyped DEF Safe, Types, Runs
  <2>2. Cardinality(old) <= MaxActions /\ mine \subseteq old /\ MaxActions \in Nat
    BY <1>1, AgentAssumption DEF Safe, Bounded
  <2> HIDE DEF old
  <2> QED BY <2>1, <2>2, StreamsCount DEF ChangeIsBounded
<1> QED BY AlwaysSafe, <1>1, PTL

\* What a run keeps is what its last window measured, with no write under way that could
\* still change it, unless the scheduler or a crash came in between (check_goal_met).
THEOREM OnlyTheMeasuredIsKept == Spec => []KeptIsMeasured
<1>1. Safe => KeptIsMeasured
  BY DEF Safe, Measured, KeptIsMeasured
<1> QED BY AlwaysSafe, <1>1, PTL

\* With the HTTP library whose failures the agent catches, a run that ended without
\* success leaves no stream at a setting of the agent's once its requests are served,
\* unless the server refused the rollback (the abort handler and rollback_to).
THEOREM AbortedRunsAreUndone ==
  ASSUME Transport = "urllib"
  PROVE  Spec => []GivenUpLeavesNoTrace
<1>1. ASSUME Safe, Traceless
      PROVE  GivenUpLeavesNoTrace
  <2> SUFFICES ASSUME pc \in {"gaveUp", "escaped"}, inbox = <<>>
               PROVE  mine = {} \/ refused
    BY DEF GivenUpLeavesNoTrace
  <2>1. Undone
    BY <1>1 DEF Traceless
  <2> QED BY <2>1 DEF Undone
<1> QED BY AlwaysSafe, <1>1, PTL

=============================================================================
