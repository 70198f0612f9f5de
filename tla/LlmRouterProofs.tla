---------------------------- MODULE LlmRouterProofs ----------------------------
(***************************************************************************)
(* Proofs about LlmRouter for every number of workers, queue capacity and  *)
(* breaker configuration.                                                  *)
(***************************************************************************)
EXTENDS LlmRouter, FiniteSetTheorems, TLAPS

(***************************************************************************)
(* The queue                                                               *)
(***************************************************************************)

LEMMA TopIsQueued ==
  ASSUME NEW q \in Queues, ~IsEmpty(q)
  PROVE  Top(q) \in Priorities /\ q[Top(q)] > 0
<1>. DEFINE best(p) == q[p] > 0 /\ \A r \in Priorities : q[r] > 0 => p <= r
<1>1. \E p \in Priorities : q[p] > 0
  BY DEF IsEmpty, Queues
<1>2. Priorities \subseteq {0, 1, 2}
  BY RouterAssumption DEF High, Normal, Low
<1>3. \E p \in Priorities : best(p)
  <2>1. CASE 0 \in Priorities /\ q[0] > 0
    BY <1>2, <2>1
  <2>2. CASE ~(0 \in Priorities /\ q[0] > 0) /\ 1 \in Priorities /\ q[1] > 0
    BY <1>2, <2>2
  <2>3. CASE ~(0 \in Priorities /\ q[0] > 0) /\ ~(1 \in Priorities /\ q[1] > 0)
    BY <1>1, <1>2, <2>3
  <2>. QED
    BY <2>1, <2>2, <2>3
<1>. QED
  BY <1>3 DEF Top

LEMMA TakeShrinks ==
  ASSUME NEW q \in Queues, NEW p \in Priorities, q[p] > 0
  PROVE  /\ [q EXCEPT ![p] = @ - 1] \in Queues
         /\ Size([q EXCEPT ![p] = @ - 1]) = Size(q) - 1
<1>1. Priorities \subseteq {0, 1, 2}
  BY RouterAssumption DEF High, Normal, Low
<1>2. [q EXCEPT ![p] = @ - 1] \in Queues
  BY DEF Queues
<1>. QED
  BY <1>1, <1>2 DEF Queues, Size, High, Normal, Low

LEMMA PopShrinks ==
  ASSUME NEW q \in Queues, ~IsEmpty(q)
  PROVE  Pop(q) \in Queues /\ Size(Pop(q)) = Size(q) - 1
  BY TopIsQueued, TakeShrinks DEF Pop

LEMMA AddGrows ==
  ASSUME NEW q \in Queues, NEW p \in Priorities
  PROVE  /\ [q EXCEPT ![p] = @ + 1] \in Queues
         /\ Size([q EXCEPT ![p] = @ + 1]) = Size(q) + 1
<1>1. Priorities \subseteq {0, 1, 2}
  BY RouterAssumption DEF High, Normal, Low
<1>. QED
  BY <1>1 DEF Queues, Size, High, Normal, Low

LEMMA EmptyHasNoSize ==
  ASSUME NEW q \in Queues
  PROVE  Size(q) \in Nat /\ (IsEmpty(q) => Size(q) = 0)
  BY DEF Queues, Size, IsEmpty, High, Normal, Low

(* A submission never leaves the queue above its capacity. *)
LEMMA PushBounded ==
  ASSUME NEW q \in Queues, Size(q) <= MaxSize, NEW p \in Priorities
  PROVE  Push(q, p) \in Queues /\ Size(Push(q, p)) <= MaxSize
<1>. DEFINE room == IF Size(q) >= MaxSize THEN Pop(q) ELSE q
<1>1. Size(q) >= MaxSize => ~IsEmpty(q)
  BY EmptyHasNoSize, RouterAssumption
<1>2. room \in Queues /\ Size(room) < MaxSize
  BY <1>1, PopShrinks, EmptyHasNoSize, RouterAssumption
<1>3. [room EXCEPT ![p] = @ + 1] \in Queues /\ Size([room EXCEPT ![p] = @ + 1]) = Size(room) + 1
  BY <1>2, AddGrows
<1>4. Push(q, p) = [room EXCEPT ![p] = @ + 1]
  BY DEF Push
<1>5. Size(room) \in Nat
  BY <1>2, EmptyHasNoSize
<1>. HIDE DEF room
<1>. QED
  BY <1>2, <1>3, <1>4, <1>5, RouterAssumption

------------------------------------------------------------------------------
(***************************************************************************)
(* The circuit breaker                                                     *)
(***************************************************************************)

LEMMA BreakerType ==
  ASSUME NEW b \in Breakers
  PROVE  /\ AfterAsked(b) \in Breakers
         /\ RecordSuccess(b) \in Breakers
         /\ RecordFailure(b) \in Breakers
         /\ Aged(b) \in Breakers
<1>1. AfterAsked(b) \in Breakers
  <2>1. CASE TimedOut(b)
    <3>1. HalfOpened(b) \in Breakers
      BY BreakerAssumption DEF Breakers, HalfOpened
    <3>2. AfterAsked(b) = [HalfOpened(b) EXCEPT !.used = 1]
      BY <2>1 DEF AfterAsked, TimedOut, HasProbeLeft
    <3>. QED
      BY <3>1, <3>2 DEF Breakers
  <2>2. CASE ~TimedOut(b) /\ HasProbeLeft(b)
    BY <2>2 DEF AfterAsked, Breakers
  <2>3. CASE ~TimedOut(b) /\ ~HasProbeLeft(b)
    BY <2>3 DEF AfterAsked
  <2>. QED
    BY <2>1, <2>2, <2>3
<1>2. RecordSuccess(b) \in Breakers
  BY BreakerAssumption DEF RecordSuccess, Closed, NewBreaker, Breakers
<1>3. RecordFailure(b) \in Breakers
  BY BreakerAssumption DEF RecordFailure, Opened, NewBreaker, Breakers
<1>4. Aged(b) \in Breakers
  BY BreakerAssumption DEF Aged, Breakers
<1>. QED
  BY <1>1, <1>2, <1>3, <1>4

\* A half-open breaker is owed at most n outcomes by the probes it let through.
Owed(b, n) == b.state = "HALF_OPEN" => b.used <= b.successes + n

(* Letting a request through adds at most one outcome to what is owed.      *)
LEMMA AskedOwes ==
  ASSUME NEW b \in Breakers, NEW n \in Nat, Owed(b, n)
  PROVE  /\ Allows(b) => Owed(AfterAsked(b), n + 1)
         /\ ~Allows(b) => AfterAsked(b) = b
  BY DEF Breakers, Owed, Allows, AfterAsked, TimedOut, HasProbeLeft, HalfOpened, NewBreaker

(* Every outcome, a late one included, pays one back.                       *)
LEMMA OutcomePays ==
  ASSUME NEW b \in Breakers, NEW n \in Nat, Owed(b, n + 1)
  PROVE  Owed(RecordSuccess(b), n) /\ Owed(RecordFailure(b), n)
<1>1. Owed(RecordSuccess(b), n)
  BY DEF Breakers, Owed, RecordSuccess, Closed, NewBreaker
<1>2. Owed(RecordFailure(b), n)
  BY DEF Breakers, Owed, RecordFailure, Opened, NewBreaker
<1>. QED
  BY <1>1, <1>2

LEMMA AgedOwes ==
  ASSUME NEW b \in Breakers, NEW n \in Nat, Owed(b, n)
  PROVE  Owed(Aged(b), n) /\ Aged(b).state = b.state
  BY DEF Breakers, Owed, Aged

------------------------------------------------------------------------------
(***************************************************************************)
(* Types                                                                   *)
(***************************************************************************)

LEMMA ProviderType == \A p : ProviderOf(p) \in Providers
  BY DEF ProviderOf, Providers

LEMMA TypeInitial == Init => TypeOK
<1>. SUFFICES ASSUME Init PROVE TypeOK
  OBVIOUS
<1>1. queue \in Queues /\ Size(queue) <= MaxSize
  <2>1. queue \in Queues /\ IsEmpty(queue)
    BY DEF Init, Queues, IsEmpty
  <2>. QED
    BY <2>1, EmptyHasNoSize, RouterAssumption
<1>2. breaker \in [Providers -> Breakers]
  BY BreakerAssumption DEF Init, NewBreaker, Breakers
<1>. QED
  BY <1>1, <1>2, RouterAssumption DEF Init, TypeOK, Locations

LEMMA TypeInductive == TypeOK /\ [Next]_vars => TypeOK'
<1>. SUFFICES ASSUME TypeOK, [Next]_vars PROVE TypeOK'
  OBVIOUS
<1>. USE DEF TypeOK, Locations, InCall, GoTo, Return
<1>1. ASSUME NEW p \in Priorities, Submit(p) PROVE TypeOK'
  BY <1>1, PushBounded DEF Submit
<1>2. ASSUME NEW w \in Workers, Step(w) PROVE TypeOK'
  <2>1. CASE Loop(w)
    BY <2>1 DEF Loop
  <2>2. CASE Dequeue(w)
    <3>1. queue' \in Queues /\ Size(queue') <= MaxSize
      BY <2>2, PopShrinks, EmptyHasNoSize, RouterAssumption DEF Dequeue
    <3>2. Top(queue) \in Priorities
      BY <2>2, TopIsQueued DEF Dequeue
    <3>. QED
      BY <2>2, <3>1, <3>2 DEF Dequeue
  <2>3. CASE DequeueNothing(w)
    BY <2>3 DEF DequeueNothing
  <2>4. CASE Gate(w)
    <3>1. breaker' \in [Providers -> Breakers]
      BY <2>4, BreakerType, ProviderType DEF Gate
    <3>. QED
      BY <2>4, <3>1 DEF Gate
  <2>5. CASE Lock(w)
    BY <2>5 DEF Lock
  <2>6. ASSUME NEW a \in Answers, Perform(w, a) PROVE TypeOK'
    BY <2>6, RouterAssumption DEF Perform
  <2>7. CASE Record(w)
    <3>1. breaker' \in [Providers -> Breakers]
      BY <2>7, BreakerType, ProviderType DEF Record
    <3>. QED
      BY <2>7, <3>1 DEF Record
  <2>. QED
    BY <1>2, <2>1, <2>2, <2>3, <2>4, <2>5, <2>6, <2>7 DEF Step
<1>3. CASE Stop \/ ShutDownQueue \/ Join
  BY <1>3 DEF Stop, ShutDownQueue, Join
<1>4. CASE Elapse
  BY <1>4, BreakerType DEF Elapse
<1>5. CASE UNCHANGED vars
  BY <1>5 DEF vars
<1>. QED
  BY <1>1, <1>2, <1>3, <1>4, <1>5 DEF Next

(* The router keeps its types and the queue its capacity. *)
THEOREM TypeCorrect == Spec => []TypeOK
<1>. QED
  BY TypeInitial, TypeInductive, PTL DEF Spec

------------------------------------------------------------------------------
(***************************************************************************)
(* No probe is lost.  The invariant that carries the proof adds the        *)
(* providers without a key: the gate steps their breaker too, and nothing  *)
(* would pay back a probe it let through, but a breaker that never sees an *)
(* outcome never leaves CLOSED.                                            *)
(***************************************************************************)
KeylessIdle ==
  \A p \in Providers \ Keyed : breaker[p].state = "CLOSED" /\ InFlight(p) = {}

Accounted == NoProbeLost /\ KeylessIdle

LEMMA InFlightFinite ==
  \A p : IsFiniteSet(InFlight(p)) /\ Cardinality(InFlight(p)) \in Nat
<1>. SUFFICES ASSUME NEW p
              PROVE  IsFiniteSet(InFlight(p)) /\ Cardinality(InFlight(p)) \in Nat
  OBVIOUS
<1>1. InFlight(p) \subseteq Workers
  BY DEF InFlight
<1>. QED
  BY <1>1, FS_Subset, FS_CardinalityType, RouterAssumption

LEMMA AccountedIsOwed ==
  ASSUME NEW p \in Providers, NoProbeLost
  PROVE  Owed(breaker[p], Cardinality(InFlight(p)))
  BY DEF NoProbeLost, Owed

(* A step that moves no request in or out of a call and leaves the breakers  *)
(* alone keeps the account.                                                *)
LEMMA Untouched ==
  ASSUME Accounted, breaker' = breaker,
         \A p \in Providers : InFlight(p)' = InFlight(p)
  PROVE  Accounted'
  BY DEF Accounted, NoProbeLost, KeylessIdle

(* A worker that goes from one place outside of a call to another, or from *)
(* one inside to another with the same request, moves no request.          *)
LEMMA SameCalls ==
  ASSUME TypeOK, NEW w \in Workers, NEW l, pc' = [pc EXCEPT ![w] = l],
         \/ pc[w] \in InCall /\ l \in InCall /\ req' = req
         \/ /\ pc[w] \notin InCall /\ l \notin InCall
            /\ \A v \in Workers : v # w => req'[v] = req[v]
  PROVE  \A p \in Providers : InFlight(p)' = InFlight(p)
  BY DEF TypeOK, InFlight

LEMMA GateAccounts ==
  ASSUME TypeOK, Accounted, NEW w \in Workers, Gate(w)
  PROVE  Accounted'
<1>0. PICK p \in Providers : p = ProviderOf(req[w])
  BY ProviderType
<1>1. pc[w] = "gate" /\ w \notin InFlight(p)
  BY <1>0 DEF Gate, InFlight, InCall
<1>2. breaker' = [breaker EXCEPT ![p] = AfterAsked(breaker[p])]
  BY <1>0 DEF Gate
<1>3. breaker[p] \in Breakers /\ Owed(breaker[p], Cardinality(InFlight(p)))
  BY <1>0, AccountedIsOwed DEF TypeOK, Accounted
<1>4. CASE Allows(breaker[p]) /\ p \in Keyed
  <2>1. pc' = [pc EXCEPT ![w] = "lock"] /\ req' = req
    BY <1>0, <1>4 DEF Gate, GoTo
  <2>2. InFlight(p)' = InFlight(p) \union {w}
    BY <1>0, <2>1 DEF InFlight, InCall, TypeOK
  <2>3. \A q \in Providers : q # p => InFlight(q)' = InFlight(q)
    BY <1>0, <1>1, <2>1 DEF InFlight, InCall, TypeOK
  <2>4. Cardinality(InFlight(p)') = Cardinality(InFlight(p)) + 1
    BY <1>1, <2>2, InFlightFinite, FS_AddElement
  <2>5. Owed(breaker'[p], Cardinality(InFlight(p)'))
    <3>1. Owed(AfterAsked(breaker[p]), Cardinality(InFlight(p)) + 1)
      BY <1>3, <1>4, AskedOwes, InFlightFinite
    <3>. QED
      BY <1>0, <1>2, <2>4, <3>1 DEF TypeOK
  <2>6. \A q \in Providers : q # p => breaker'[q] = breaker[q]
    BY <1>2 DEF TypeOK
  <2>7. NoProbeLost'
    BY <2>3, <2>5, <2>6 DEF Accounted, NoProbeLost, Owed
  <2>8. KeylessIdle'
    BY <1>4, <2>3, <2>6 DEF Accounted, KeylessIdle
  <2>. QED
    BY <2>7, <2>8 DEF Accounted
<1>5. CASE ~(Allows(breaker[p]) /\ p \in Keyed)
  <2>1. pc' = [pc EXCEPT ![w] = "loop"] /\ req' = [req EXCEPT ![w] = NoRequest]
    BY <1>0, <1>5 DEF Gate, GoTo, Return
  <2>2. \A q \in Providers : InFlight(q)' = InFlight(q)
    BY <1>1, <2>1, SameCalls DEF InCall, TypeOK
  <2>3. AfterAsked(breaker[p]) = breaker[p]
    <3>1. CASE ~Allows(breaker[p])
      BY <1>3, <3>1, AskedOwes, InFlightFinite
    <3>2. CASE p \notin Keyed
      BY <1>0, <3>2 DEF Accounted, KeylessIdle, AfterAsked, TimedOut, HasProbeLeft
    <3>. QED
      BY <1>5, <3>1, <3>2
  <2>4. breaker' = breaker
    BY <1>0, <1>2, <2>3 DEF TypeOK
  <2>. QED
    BY <2>2, <2>4, Untouched
<1>. QED
  BY <1>4, <1>5

LEMMA RecordAccounts ==
  ASSUME TypeOK, Accounted, NEW w \in Workers, Record(w)
  PROVE  Accounted'
<1>0. PICK p \in Providers : p = ProviderOf(req[w])
  BY ProviderType
<1>. DEFINE n == Cardinality(InFlight(p)')
<1>1. pc[w] \in InCall /\ w \in InFlight(p)
  BY <1>0 DEF Record, InFlight, InCall
<1>2. pc' = [pc EXCEPT ![w] = "loop"] /\ req' = [req EXCEPT ![w] = NoRequest]
  BY DEF Record, GoTo, Return
<1>3. InFlight(p)' = InFlight(p) \ {w}
  BY <1>0, <1>2 DEF InFlight, InCall, TypeOK
<1>4. \A q \in Providers : q # p => InFlight(q)' = InFlight(q)
  BY <1>0, <1>2 DEF InFlight, InCall, TypeOK
<1>5. n \in Nat /\ Cardinality(InFlight(p)) = n + 1
  <2>1. Cardinality(InFlight(p) \ {w}) = Cardinality(InFlight(p)) - 1
    BY <1>1, InFlightFinite, FS_RemoveElement
  <2>2. InFlight(p) \ {w} = InFlight(p)'
    BY <1>3
  <2>3. IsFiniteSet(InFlight(p) \ {w})
    BY InFlightFinite, FS_RemoveElement
  <2>4. n \in Nat
    BY <2>2, <2>3, FS_CardinalityType
  <2>. QED
    BY <2>1, <2>2, <2>4, InFlightFinite
<1>6. breaker[p] \in Breakers /\ Owed(breaker[p], n + 1)
  BY <1>0, <1>5, AccountedIsOwed DEF TypeOK, Accounted
<1>7. \/ breaker' = [breaker EXCEPT ![p] = RecordSuccess(breaker[p])]
      \/ breaker' = [breaker EXCEPT ![p] = RecordFailure(breaker[p])]
  BY <1>0 DEF Record
<1>8. Owed(breaker'[p], n) /\ \A q \in Providers : q # p => breaker'[q] = breaker[q]
  <2>1. Owed(RecordSuccess(breaker[p]), n) /\ Owed(RecordFailure(breaker[p]), n)
    BY <1>5, <1>6, OutcomePays
  <2>. QED
    BY <1>0, <1>7, <2>1 DEF TypeOK
<1>9. NoProbeLost'
  BY <1>4, <1>8 DEF Accounted, NoProbeLost, Owed
<1>10. KeylessIdle'
  <2>1. p \in Keyed
    BY <1>0, <1>1 DEF Accounted, KeylessIdle
  <2>. QED
    BY <1>4, <1>8, <2>1 DEF Accounted, KeylessIdle
<1>. QED
  BY <1>9, <1>10 DEF Accounted

LEMMA AccountedInductive == TypeOK /\ Accounted /\ [Next]_vars => Accounted'
<1>. SUFFICES ASSUME TypeOK, Accounted, [Next]_vars PROVE Accounted'
  OBVIOUS
<1>1. ASSUME breaker' = breaker, pc' = pc, req' = req PROVE Accounted'
  BY <1>1, Untouched DEF InFlight
<1>2. ASSUME NEW w \in Workers, Step(w) PROVE Accounted'
  <2>1. CASE Loop(w)
    BY <2>1, SameCalls, Untouched DEF Loop, GoTo, InCall
  <2>2. CASE Dequeue(w)
    BY <2>2, SameCalls, Untouched DEF Dequeue, GoTo, InCall, TypeOK
  <2>3. CASE DequeueNothing(w)
    BY <2>3, SameCalls, Untouched DEF DequeueNothing, GoTo, InCall
  <2>4. CASE Gate(w)
    BY <2>4, GateAccounts
  <2>5. CASE Lock(w)
    BY <2>5, SameCalls, Untouched DEF Lock, GoTo, InCall
  <2>6. ASSUME NEW a \in Answers, Perform(w, a) PROVE Accounted'
    BY <2>6, SameCalls, Untouched DEF Perform, GoTo, InCall
  <2>7. CASE Record(w)
    BY <2>7, RecordAccounts
  <2>. QED
    BY <1>2, <2>1, <2>2, <2>3, <2>4, <2>5, <2>6, <2>7 DEF Step
<1>3. CASE Elapse
  <2>1. \A p \in Providers : InFlight(p)' = InFlight(p)
    BY <1>3 DEF Elapse, InFlight
  <2>2. ASSUME NEW p \in Providers
        PROVE  /\ Owed(breaker'[p], Cardinality(InFlight(p)))
               /\ breaker'[p].state = breaker[p].state
    <3>1. breaker[p] \in Breakers /\ Owed(breaker[p], Cardinality(InFlight(p)))
      BY AccountedIsOwed DEF TypeOK, Accounted
    <3>2. breaker'[p] = Aged(breaker[p])
      BY <1>3 DEF Elapse
    <3>. QED
      BY <3>1, <3>2, AgedOwes, InFlightFinite
  <2>. QED
    BY <2>1, <2>2 DEF Accounted, NoProbeLost, KeylessIdle, Owed
<1>. QED
  BY <1>1, <1>2, <1>3 DEF Next, Submit, Stop, ShutDownQueue, Join, vars

(* Whatever the workers do to each other's breaker, a half-open breaker is *)
(* owed an outcome for every probe that has not reported a success: it     *)
(* never waits for a probe nobody is making.                               *)
THEOREM NoProbeIsLost == Spec => []NoProbeLost
<1>1. Init => Accounted
  <2>. SUFFICES ASSUME Init PROVE Accounted
    OBVIOUS
  <2>1. \A p \in Providers : breaker[p].state = "CLOSED" /\ InFlight(p) = {}
    BY DEF Init, NewBreaker, InFlight, InCall
  <2>. QED
    BY <2>1 DEF Accounted, NoProbeLost, KeylessIdle
<1>2. Accounted => NoProbeLost
  BY DEF Accounted
<1>. QED
  BY <1>1, <1>2, AccountedInductive, TypeCorrect, PTL DEF Spec
=============================================================================
