---------------------------- MODULE ReconnectProofs ----------------------------
(***************************************************************************)
(* Safety of a reconnect: of the driver of one stream (RtspWatchdog), and  *)
(* of the probe lists that all streams share (EosProbes).  The two have no *)
(* variable in common and their theorems are about one of them each.       *)
(*                                                                         *)
(* The driver, for every timeout, every number of failures allowed and     *)
(* every outcome of a rebuild.  Its three invariants need no fact about    *)
(* each other, only the types below; each handler is shown to keep all of  *)
(* them.  All handlers but the rebuild change the policy through Schedule  *)
(* alone, whose effect is stated once (ScheduleFails).  The moves of the   *)
(* reported state follow from the same invariant.                          *)
(*                                                                         *)
(* The probes, whichever rebuilds fail: the positions of the lists are the *)
(* streams' indices as far as no earlier stream lacks its pad, so that an  *)
(* end of such a stream flushes that stream, and no reconnect takes its    *)
(* probe.  (Run eos_wrong_flush shows what happens to the others.)         *)
(***************************************************************************)
EXTENDS RtspWatchdog, EosProbes, WellFoundedInduction, TLAPS

Active == {"CONNECTING", "RUNNING", "RECONNECTING", "FAILED"}

Shape ==
  /\ policy \in [state : Active, failures : Nat, attempts : Nat]
  /\ window.age \in Nat
  /\ connectAge \in Nat
  /\ lastAge \in Nat \cup {NoFrame}

IInv ==
  /\ Shape
  /\ WatchedChainIsLive
  /\ WindowIsOfThisConnection
  /\ AttemptsPaidFor

LEMMA InitHolds == Init => IInv
<1> SUFFICES ASSUME Init PROVE IInv
  OBVIOUS
<1>1. policy = [state |-> "CONNECTING", failures |-> 0, attempts |-> 1]
  BY DEF Init, MarkConnect, NewPolicy
<1> QED
  BY <1>1 DEF Init, IInv, Shape, Active, NoWindow, NoFrame, WatchedChainIsLive,
              WindowIsOfThisConnection, AttemptsPaidFor

\* A failure signal that counts leaves the stream waiting or given up, and pays
\* for the attempt under way.
LEMMA MarkFailureFails ==
  ASSUME NEW f \in Nat, NEW a \in Nat, NEW st, NEW p,
         p = [state |-> st, failures |-> f, attempts |-> a]
  PROVE  /\ MarkFailure(p) \in [state : {"RECONNECTING", "FAILED"}, failures : Nat, attempts : Nat]
         /\ MarkFailure(p).failures = p.failures + 1
         /\ MarkFailure(p).attempts = p.attempts
<1> DEFINE next == IF f + 1 > MaxFailures THEN "FAILED" ELSE "RECONNECTING"
<1>1. MarkFailure(p) = [state |-> next, failures |-> f + 1, attempts |-> a]
  BY DEF MarkFailure
<1>2. next \in {"RECONNECTING", "FAILED"}
  OBVIOUS
<1> QED
  BY <1>1, <1>2

LEMMA ScheduleFails ==
  ASSUME NEW p \in [state : Active \cup {"DEGRADED"}, failures : Nat, attempts : Nat],
         connectAge \in Nat,
         p.attempts <= p.failures + (IF p.state = "CONNECTING" THEN 1 ELSE 0),
         Schedule(p)
  PROVE  /\ policy' \in [state : {"RECONNECTING", "FAILED"}, failures : Nat, attempts : Nat]
         /\ policy'.attempts <= policy'.failures
         /\ connectAge' \in Nat
<1>1. CASE Pending(p)
  BY <1>1 DEF Schedule, Pending
<1>2. CASE ~Pending(p)
  <2>1. policy' = MarkFailure(p) /\ connectAge' = 0
    BY <1>2 DEF Schedule
  <2>2. p = [state |-> p.state, failures |-> p.failures, attempts |-> p.attempts]
    OBVIOUS
  <2>3. /\ MarkFailure(p) \in [state : {"RECONNECTING", "FAILED"}, failures : Nat, attempts : Nat]
        /\ MarkFailure(p).failures = p.failures + 1
        /\ MarkFailure(p).attempts = p.attempts
    BY <2>2, MarkFailureFails
  <2> QED
    BY <2>1, <2>3
<1> QED
  BY <1>1, <1>2

\* Every handler that only signals a failure keeps the invariant.
LEMMA SignalKeeps ==
  ASSUME IInv, Schedule(policy), window'.age \in Nat,
         lastAge' \in Nat \cup {NoFrame}
  PROVE  IInv'
<1>1. /\ policy' \in [state : {"RECONNECTING", "FAILED"}, failures : Nat, attempts : Nat]
      /\ policy'.attempts <= policy'.failures
      /\ connectAge' \in Nat
  BY ScheduleFails DEF IInv, Shape, AttemptsPaidFor
<1> QED
  BY <1>1 DEF IInv, Shape, Active, WatchedChainIsLive, WindowIsOfThisConnection,
              AttemptsPaidFor

LEMMA ElapseKeeps == ASSUME IInv, Elapse PROVE IInv'
<1>1. WindowLimit \in Nat /\ ConnectLimit \in Nat /\ WindowLimit <= ConnectLimit /\ DetectionTime \in Nat
  BY WatchAssumption DEF WindowLimit, ConnectLimit, DetectionTime
<1>2. lastAge' \in Nat \cup {NoFrame} /\ (lastAge # NoFrame => lastAge' # NoFrame)
  BY <1>1 DEF Elapse, IInv, Shape, Capped, NoFrame
<1>3. connectAge' = (IF policy.state = "CONNECTING"
                       THEN Capped(connectAge + 1, ConnectLimit) ELSE connectAge)
  BY DEF Elapse
<1>4. window'.age = IF verifying THEN Capped(window.age + 1, WindowLimit) ELSE window.age
  BY DEF Elapse
<1>5. UNCHANGED <<policy, verifying, chain, pad>>
  BY DEF Elapse
<1>6. window'.age \in Nat /\ connectAge' \in Nat
  BY <1>1, <1>3, <1>4 DEF IInv, Shape, Capped
<1>7. WindowIsOfThisConnection'
  BY <1>1, <1>2, <1>3, <1>4, <1>5 DEF IInv, Shape, WindowIsOfThisConnection, Capped
<1> QED
  BY <1>2, <1>5, <1>6, <1>7 DEF IInv, Shape, WatchedChainIsLive, AttemptsPaidFor

LEMMA RebuiltKeeps == ASSUME IInv, RetryDue, Rebuilt, lastAge' = NoFrame PROVE IInv'
<1>1. policy' = [state |-> "CONNECTING", failures |-> policy.failures,
                 attempts |-> policy.attempts + 1]
  BY DEF Rebuilt, MarkConnect, IInv, Shape
<1>2. policy.attempts <= policy.failures
  BY DEF RetryDue, IInv, Shape, AttemptsPaidFor
<1>3. Shape'
  BY <1>1 DEF Rebuilt, CloseWindow, NoWindow, IInv, Shape, Active
<1>4. AttemptsPaidFor'
  BY <1>1, <1>2 DEF IInv, Shape, AttemptsPaidFor
<1> QED
  BY <1>3, <1>4 DEF Rebuilt, CloseWindow, IInv, WatchedChainIsLive, WindowIsOfThisConnection

LEMMA DoReconnectKeeps == ASSUME IInv, DoReconnect PROVE IInv'
<1>1. PICK outcome \in RebuildOutcomes :
        IF outcome = "ok" THEN Rebuilt ELSE RebuildFailed(outcome)
  BY DEF DoReconnect
<1>2. CASE outcome = "ok"
  BY <1>1, <1>2, RebuiltKeeps DEF DoReconnect
<1>3. CASE outcome # "ok"
  BY <1>1, <1>3, SignalKeeps DEF DoReconnect, RebuildFailed, IInv, Shape
<1> QED
  BY <1>2, <1>3

LEMMA PassVerifyKeeps == ASSUME IInv, PassVerify PROVE IInv'
<1>1. policy' = [state |-> "RUNNING", failures |-> 0, attempts |-> 0]
  BY DEF PassVerify, MarkRunning
<1>2. UNCHANGED <<chain, pad, lastAge>> /\ window'.age = 0 /\ connectAge' = 0
  BY DEF PassVerify, CloseWindow, NoWindow, chainVars
<1> QED
  BY <1>1, <1>2 DEF PassVerify, WindowOver, IInv, Shape, Active, WatchedChainIsLive,
                    WindowIsOfThisConnection, AttemptsPaidFor

LEMMA StallKeeps == ASSUME IInv, Stall PROVE IInv'
<1> DEFINE p == MarkDegraded(policy)
<1>1. p = [state |-> "DEGRADED", failures |-> policy.failures, attempts |-> policy.attempts]
  BY DEF Stall, Stalled, MarkDegraded, IInv, Shape
<1>2. policy.attempts <= policy.failures
  BY DEF Stall, Stalled, IInv, Shape, AttemptsPaidFor
<1>3. /\ p \in [state : Active \cup {"DEGRADED"}, failures : Nat, attempts : Nat]
      /\ p.attempts <= p.failures + (IF p.state = "CONNECTING" THEN 1 ELSE 0)
  BY <1>1, <1>2 DEF IInv, Shape
<1>4. Schedule(p) /\ connectAge \in Nat /\ UNCHANGED <<verifying, window, chain, pad, lastAge>>
  BY DEF Stall, chainVars, IInv, Shape
<1> HIDE DEF p
<1>5. /\ policy' \in [state : {"RECONNECTING", "FAILED"}, failures : Nat, attempts : Nat]
      /\ policy'.attempts <= policy'.failures
      /\ connectAge' \in Nat
  BY <1>3, <1>4, ScheduleFails
<1> QED
  BY <1>4, <1>5 DEF IInv, Shape, Active, WatchedChainIsLive, WindowIsOfThisConnection,
                    AttemptsPaidFor

LEMMA WatchTickKeeps == ASSUME IInv, WatchTick PROVE IInv'
<1>1. CASE OpenWindow
  BY <1>1 DEF OpenWindow, FramesCame, NoWindow, chainVars, IInv, Shape,
              WatchedChainIsLive, WindowIsOfThisConnection, AttemptsPaidFor
<1>2. CASE PassVerify
  BY <1>2, PassVerifyKeeps
<1>3. CASE FailVerify
  BY <1>3, SignalKeeps DEF FailVerify, CloseWindow, NoWindow, chainVars, IInv, Shape
<1>4. CASE NoFirstFrame
  BY <1>4, SignalKeeps DEF NoFirstFrame, chainVars, IInv, Shape
<1>5. CASE Stall
  BY <1>5, StallKeeps
<1>6. CASE DoReconnect
  BY <1>6, DoReconnectKeeps
<1>7. CASE NothingDue
  BY <1>7 DEF NothingDue, streamVars, chainVars, IInv, Shape,
              WatchedChainIsLive, WindowIsOfThisConnection, AttemptsPaidFor
<1> QED
  BY <1>1, <1>2, <1>3, <1>4, <1>5, <1>6, <1>7 DEF WatchTick

LEMMA StepKeeps == IInv /\ [Next]_vars => IInv'
<1> SUFFICES ASSUME IInv, [Next]_vars PROVE IInv'
  OBVIOUS
<1>1. CASE Elapse
  BY <1>1, ElapseKeeps
<1>2. CASE PostError \/ Settle \/ UNCHANGED vars
  BY <1>2 DEF PostError, Settle, vars, streamVars, chainVars, IInv, Shape,
              WatchedChainIsLive, WindowIsOfThisConnection, AttemptsPaidFor
<1>3. CASE WatchTick
  BY <1>3, WatchTickKeeps
<1>4. CASE BusError \/ Restart
  BY <1>4, SignalKeeps DEF BusError, Restart, chainVars, IInv, Shape
<1>5. CASE StaleBusError
  BY <1>5 DEF StaleBusError, IgnoreStaleError, chainVars, IInv, Shape,
              WatchedChainIsLive, WindowIsOfThisConnection, AttemptsPaidFor
<1> QED
  BY <1>1, <1>2, <1>3, <1>4, <1>5 DEF Next

------------------------------------------------------------------------------
LEMMA Inductive == Spec => []IInv
BY InitHolds, StepKeeps, PTL DEF Spec

\* A stream the watchdog calls connecting or running has a live chain on a
\* linked muxer pad: a failed rebuild never leaves one waiting for frames.
THEOREM WatchedStreamsAreConnected == Spec => []WatchedChainIsLive
<1>1. IInv => WatchedChainIsLive
  BY DEF IInv
<1> QED
  BY <1>1, Inductive, PTL

\* A verification window never spans a rebuild (do_reconnect resets it).
THEOREM WindowsAreOfOneConnection == Spec => []WindowIsOfThisConnection
<1>1. IInv => WindowIsOfThisConnection
  BY DEF IInv
<1> QED
  BY <1>1, Inductive, PTL

\* Failure signals that race are coalesced, but never so that a connect attempt
\* goes uncounted.
THEOREM EveryAttemptIsPaidFor == Spec => []AttemptsPaidFor
<1>1. IInv => AttemptsPaidFor
  BY DEF IInv
<1> QED
  BY <1>1, Inductive, PTL

------------------------------------------------------------------------------
(* The moves of the reported state *)

StateMoves ==
  policy'.state # policy.state => <<policy.state, policy'.state>> \in Moves

\* A failure signal moves a stream that is not FAILED to a retry or to FAILED.
LEMMA SignalMoves ==
  ASSUME IInv, NEW p \in [state : Active \cup {"DEGRADED"}, failures : Nat, attempts : Nat],
         p.attempts <= p.failures + (IF p.state = "CONNECTING" THEN 1 ELSE 0),
         p = policy \/ (policy.state = "RUNNING" /\ p = MarkDegraded(policy)), Schedule(p)
  PROVE  StateMoves
<1>1. CASE policy.state = "FAILED"
  BY <1>1 DEF Schedule, Pending, StateMoves
<1>2. CASE policy.state # "FAILED"
  <2>1. policy'.state \in {"RECONNECTING", "FAILED"}
    BY ScheduleFails DEF IInv, Shape
  <2>2. policy.state \in {"CONNECTING", "RUNNING", "RECONNECTING"}
    BY <1>2 DEF IInv, Shape, Active
  <2> QED
    BY <2>1, <2>2 DEF StateMoves, Moves
<1> QED
  BY <1>1, <1>2

LEMMA PolicyMoves ==
  ASSUME IInv, Schedule(policy)
  PROVE  StateMoves
BY SignalMoves DEF IInv, Shape, AttemptsPaidFor

LEMMA StallMoves ==
  ASSUME IInv, Stall
  PROVE  StateMoves
<1>1. policy.state = "RUNNING" /\ Schedule(MarkDegraded(policy))
  BY DEF Stall, Stalled
<1>2. /\ MarkDegraded(policy) \in [state : {"DEGRADED"}, failures : Nat, attempts : Nat]
      /\ MarkDegraded(policy).attempts = policy.attempts
      /\ MarkDegraded(policy).failures = policy.failures
      /\ MarkDegraded(policy).state = "DEGRADED"
  BY <1>1 DEF MarkDegraded, IInv, Shape, Active
<1>3. policy.attempts <= policy.failures
  BY <1>1 DEF IInv, Shape, Active, AttemptsPaidFor
<1> QED
  BY <1>1, <1>2, <1>3, SignalMoves

LEMMA StepMoves == IInv /\ [Next]_vars => StateMoves
<1> SUFFICES ASSUME IInv, [Next]_vars PROVE StateMoves
  OBVIOUS
<1>1. CASE Elapse \/ PostError \/ Settle \/ StaleBusError \/ UNCHANGED vars
  BY <1>1 DEF Elapse, PostError, Settle, StaleBusError, IgnoreStaleError, vars,
              streamVars, StateMoves
<1>2. CASE BusError \/ Restart
  BY <1>2, PolicyMoves DEF BusError, Restart
<1>3. CASE WatchTick
  <2>1. CASE OpenWindow \/ NothingDue
    BY <2>1 DEF OpenWindow, NothingDue, streamVars, StateMoves
  <2>2. CASE PassVerify
    BY <2>2 DEF PassVerify, WindowOver, MarkRunning, StateMoves, Moves
  <2>3. CASE FailVerify \/ NoFirstFrame
    BY <2>3, PolicyMoves DEF FailVerify, NoFirstFrame
  <2>4. CASE Stall
    BY <2>4, StallMoves
  <2>5. CASE DoReconnect
    <3>1. CASE Rebuilt
      BY <2>5, <3>1 DEF DoReconnect, RetryDue, Rebuilt, MarkConnect, StateMoves, Moves
    <3>2. ASSUME NEW outcome, RebuildFailed(outcome) PROVE StateMoves
      BY <3>2, PolicyMoves DEF RebuildFailed
    <3> QED
      BY <2>5, <3>1, <3>2 DEF DoReconnect
  <2> QED
    BY <1>3, <2>1, <2>2, <2>3, <2>4, <2>5 DEF WatchTick
<1> QED
  BY <1>1, <1>2, <1>3 DEF Next

\* The watchdog, the bus errors and the restarts together move a stream only as
\* StreamModes says: mark_running follows a fresh mark_connect, mark_connect a
\* wait, and nothing follows FAILED.
THEOREM StreamsKeepToMoves == Spec => KeepsToMoves
<1>1. IInv /\ [Next]_vars => [StateMoves]_vars
  BY StepMoves
<1> QED
  BY <1>1, Inductive, PTL DEF Spec, KeepsToMoves, StateMoves
------------------------------------------------------------------------------
(* The backoff: Shifted is defined by recursion, so that it has values at all, *)
(* and which, takes induction.                                                *)

\* A set that holds 0 and with each number the next holds them all: of the numbers
\* it lacked, one would be the least.
LEMMA SetInduction ==
  ASSUME NEW T, 0 \in T, \A n \in Nat : n \in T => n + 1 \in T
  PROVE  Nat \subseteq T
<1> DEFINE U == Nat \ T
<1> SUFFICES ASSUME U # {} PROVE FALSE
  OBVIOUS
<1>1. IsWellFoundedOn(OpToRel(<,Nat), Nat)
  BY NatLessThanWellFounded
<1>2. U \subseteq Nat
  OBVIOUS
<1>3. PICK R : R = OpToRel(<,Nat)
  OBVIOUS
<1>4. \A x, y \in Nat : x < y => <<x, y>> \in R
  BY <1>3 DEF OpToRel
<1>5. PICK x \in U : \A y \in U : ~(<<y, x>> \in R)
  BY <1>1, <1>2, <1>3, WFMin
<1>6. x \in Nat /\ x # 0
  OBVIOUS
<1>7. x - 1 \in Nat /\ x - 1 < x
  BY <1>6
<1>8. x - 1 \notin U
  BY <1>4, <1>5, <1>6, <1>7
<1>9. x - 1 \in T
  BY <1>7, <1>8
<1> QED
  BY <1>5, <1>7, <1>9

\* f is what the recursion says as far as n.
Doubles(f, n) == f = [i \in 0..n |-> IF i = 0 THEN BackoffBase ELSE 2 * f[i - 1]]

\* Each stretch of the recursion has a solution, and any two agree.
LEMMA SomeDoubles == \A n \in Nat : \E f \in [0..n -> Nat] : Doubles(f, n)
<1> DEFINE T == {n \in Nat : \E f \in [0..n -> Nat] : Doubles(f, n)}
<1>1. 0 \in T
  <2>1. PICK f : f = [i \in 0..0 |-> BackoffBase]
    OBVIOUS
  <2>2. f \in [0..0 -> Nat] /\ f = [i \in 0..0 |-> IF i = 0 THEN BackoffBase ELSE 2 * f[i - 1]]
    BY <2>1, PolicyAssumption
  <2> QED
    BY <2>2 DEF Doubles
<1>2. ASSUME NEW n \in Nat, n \in T PROVE n + 1 \in T
  <2>1. PICK f \in [0..n -> Nat] : Doubles(f, n)
    BY <1>2
  <2>2. PICK g : g = [i \in 0..(n + 1) |-> IF i \in 0..n THEN f[i] ELSE 2 * f[n]]
    OBVIOUS
  <2>3. g \in [0..(n + 1) -> Nat]
    BY <2>1, <2>2
  <2>4. ASSUME NEW i \in 0..(n + 1) PROVE g[i] = IF i = 0 THEN BackoffBase ELSE 2 * g[i - 1]
    <3>1. CASE i \in 0..n
      <4>1. f[i] = IF i = 0 THEN BackoffBase ELSE 2 * f[i - 1]
        BY <2>1, <3>1 DEF Doubles
      <4>2. i # 0 => i - 1 \in 0..n
        BY <3>1
      <4> QED
        BY <2>2, <3>1, <4>1, <4>2
    <3>2. CASE i = n + 1
      BY <2>2, <3>2
    <3> QED
      BY <3>1, <3>2
  <2>5. Doubles(g, n + 1)
    BY <2>2, <2>4 DEF Doubles
  <2> QED
    BY <2>3, <2>5
<1> HIDE DEF T
<1>3. Nat \subseteq T
  BY <1>1, <1>2, SetInduction
<1> QED
  BY <1>3 DEF T

LEMMA DoublesAgree ==
  ASSUME NEW n \in Nat, NEW m \in Nat, NEW f, NEW g, Doubles(f, n), Doubles(g, m)
  PROVE  \A i \in Nat : i <= n /\ i <= m => f[i] = g[i]
<1> DEFINE T == {i \in Nat : i <= n /\ i <= m => f[i] = g[i]}
<1>1. \A i \in 0..n : f[i] = IF i = 0 THEN BackoffBase ELSE 2 * f[i - 1]
  BY DEF Doubles
<1>2. \A i \in 0..m : g[i] = IF i = 0 THEN BackoffBase ELSE 2 * g[i - 1]
  BY DEF Doubles
<1>3. 0 \in T
  BY <1>1, <1>2
<1>4. ASSUME NEW i \in Nat, i \in T PROVE i + 1 \in T
  BY <1>1, <1>2, <1>4
<1> HIDE DEF T
<1>5. Nat \subseteq T
  BY <1>3, <1>4, SetInduction
<1> QED
  BY <1>5 DEF T

\* So the recursion has one on all numbers.
LEMMA ShiftedDoubles ==
  \A n \in Nat : Shifted[n] = IF n = 0 THEN BackoffBase ELSE 2 * Shifted[n - 1]
<1> DEFINE Chosen(n) == CHOOSE f \in [0..n -> Nat] : Doubles(f, n)
           F == [n \in Nat |-> Chosen(n)[n]]
<1>1. ASSUME NEW n \in Nat PROVE Doubles(Chosen(n), n) /\ Chosen(n) \in [0..n -> Nat]
  BY SomeDoubles
<1>2. ASSUME NEW n \in Nat PROVE F[n] = IF n = 0 THEN BackoffBase ELSE 2 * F[n - 1]
  <2>1. Chosen(n)[n] = IF n = 0 THEN BackoffBase ELSE 2 * Chosen(n)[n - 1]
    <3> HIDE DEF Chosen
    <3>1. PICK f : f = Chosen(n)
      OBVIOUS
    <3>2. f = [i \in 0..n |-> IF i = 0 THEN BackoffBase ELSE 2 * f[i - 1]]
      BY <1>1, <3>1 DEF Doubles
    <3>3. f[n] = IF n = 0 THEN BackoffBase ELSE 2 * f[n - 1]
      BY <3>2
    <3> QED
      BY <3>1, <3>3
  <2>2. n # 0 => Chosen(n)[n - 1] = Chosen(n - 1)[n - 1]
    <3> SUFFICES ASSUME n # 0 PROVE Chosen(n)[n - 1] = Chosen(n - 1)[n - 1]
      OBVIOUS
    <3>1. n - 1 \in Nat
      OBVIOUS
    <3>2. Doubles(Chosen(n), n) /\ Doubles(Chosen(n - 1), n - 1)
      BY <1>1, <3>1
    <3> HIDE DEF Chosen
    <3>3. \A i \in Nat : i <= n /\ i <= n - 1 => Chosen(n)[i] = Chosen(n - 1)[i]
      BY <3>1, <3>2, DoublesAgree
    <3> QED
      BY <3>1, <3>3
  <2> HIDE DEF Chosen
  <2> QED
    BY <2>1, <2>2
<1>3. F = [n \in Nat |-> IF n = 0 THEN BackoffBase ELSE 2 * F[n - 1]]
  <2> HIDE DEF Chosen
  <2> QED
    BY <1>2
<1> HIDE DEF F
<1>4. Shifted = [n \in Nat |-> IF n = 0 THEN BackoffBase ELSE 2 * Shifted[n - 1]]
  BY <1>3 DEF Shifted
<1> QED
  BY <1>4

LEMMA ShiftedIsNat == \A n \in Nat : Shifted[n] \in Nat
<1> DEFINE T == {n \in Nat : Shifted[n] \in Nat}
<1>1. 0 \in T
  BY ShiftedDoubles, PolicyAssumption
<1>2. ASSUME NEW n \in Nat, n \in T PROVE n + 1 \in T
  <2>1. Shifted[n + 1] = 2 * Shifted[n]
    BY ShiftedDoubles
  <2> QED
    BY <1>2, <2>1
<1> HIDE DEF T
<1>3. Nat \subseteq T
  BY <1>1, <1>2, SetInduction
<1> QED
  BY <1>3 DEF T

\* What mark_failure leaves waits for no longer than backoff_max_ms.
LEMMA BackoffIsBounded ==
  ASSUME NEW p, p.failures \in Nat, p.state = "RECONNECTING" => p.failures >= 1
  PROVE  Backoff(p) \in 0..BackoffMax
<1>1. CASE p.state # "RECONNECTING"
  BY <1>1, PolicyAssumption DEF Backoff
<1>2. CASE p.state = "RECONNECTING"
  <2>1. PICK n : n = p.failures - 1
    OBVIOUS
  <2>2. n \in Nat
    BY <1>2, <2>1
  <2>3. Shifted[n] \in Nat
    BY <2>2, ShiftedIsNat
  <2>4. Backoff(p) = IF Shifted[n] > BackoffMax THEN BackoffMax ELSE Shifted[n]
    BY <1>2, <2>1 DEF Backoff
  <2> QED
    BY <2>3, <2>4, PolicyAssumption
<1> QED
  BY <1>1, <1>2

------------------------------------------------------------------------------
(* The types *)

\* The states a policy is in between two handlers, and the failures they stand for.
PolicyOK(p) ==
  /\ p \in [state : Active, failures : 0..(MaxFailures + 1), attempts : Nat]
  /\ p.state = "FAILED" <=> p.failures = MaxFailures + 1

WindowType == window \in [age : 0..WindowLimit, frames : 0..(MaxRate * WindowLimit)]

Types ==
  /\ PolicyOK(policy) /\ verifying \in BOOLEAN /\ WindowType
  /\ connectAge \in 0..ConnectLimit /\ deadline \in 0..BackoffMax
  /\ chain \in {"live", "torn"} /\ pad \in {"linked", "free", "leaked"}
  /\ lastAge \in NoFrame..(DetectionTime + 1)
  /\ bus \in [fresh : 0..MaxErrors, stale : 0..MaxErrors]
  /\ sinceTick \in 0..MaxLag /\ camera \in {"flaky", "good", "dead"}

LEMMA TypesSplit == TypeOK <=> Types
<1>1. policy \in Policies /\ policy.state \notin {"OFFLINE", "DEGRADED"} /\ policy.failures <= MaxFailures + 1
        <=> policy \in [state : Active, failures : 0..(MaxFailures + 1), attempts : Nat]
  BY PolicyAssumption DEF Policies, StreamStates, Active
<1> QED
  BY <1>1 DEF TypeOK, Types, PolicyOK, WindowType

LEMMA TypesJoin == Types' => TypeOK'
BY TypesSplit, PTL

LEMMA Limits ==
  /\ WindowLimit \in Nat /\ ConnectLimit \in Nat /\ DetectionTime \in Nat
  /\ MaxRate * WindowLimit \in Nat
  /\ BackoffMax \in Nat /\ MaxErrors \in Nat /\ MaxLag \in Nat
BY WatchAssumption, PolicyAssumption DEF WindowLimit, ConnectLimit, DetectionTime

LEMMA ScheduleTypes ==
  ASSUME NEW p \in [state : Active \cup {"DEGRADED"}, failures : 0..(MaxFailures + 1), attempts : Nat],
         p.state = "FAILED" <=> p.failures = MaxFailures + 1, p.state # "DEGRADED" \/ ~Pending(p),
         connectAge \in 0..ConnectLimit, deadline \in 0..BackoffMax,
         Schedule(p)
  PROVE  PolicyOK(policy') /\ connectAge' \in 0..ConnectLimit /\ deadline' \in 0..BackoffMax
<1>1. CASE Pending(p)
  BY <1>1 DEF Schedule, PolicyOK, Pending, Active
<1>2. CASE ~Pending(p)
  <2>1. p.state # "FAILED" /\ p.failures \in 0..MaxFailures
    BY <1>2, PolicyAssumption DEF Pending
  <2>2. PICK n \in Nat : n = p.failures
    BY PolicyAssumption
  <2>3. PICK q : q = MarkFailure(p)
    OBVIOUS
  <2>4. q = [state |-> IF n + 1 > MaxFailures THEN "FAILED" ELSE "RECONNECTING",
             failures |-> n + 1, attempts |-> p.attempts]
    BY <2>2, <2>3 DEF MarkFailure
  <2>5. PolicyOK(q) /\ q.failures \in Nat /\ q.failures >= 1
    BY <2>1, <2>2, <2>4, PolicyAssumption DEF PolicyOK, Active
  <2>6. policy' = q /\ deadline' = Backoff(q) /\ connectAge' = 0
    BY <1>2, <2>3 DEF Schedule
  <2>7. Backoff(q) \in 0..BackoffMax
    BY <2>5, BackoffIsBounded
  <2> QED
    BY <2>5, <2>6, <2>7, Limits
<1> QED
  BY <1>1, <1>2

LEMMA SignalTypes ==
  ASSUME TypeOK, Schedule(policy)
  PROVE  PolicyOK(policy') /\ connectAge' \in 0..ConnectLimit /\ deadline' \in 0..BackoffMax
<1>1. PolicyOK(policy) /\ connectAge \in 0..ConnectLimit /\ deadline \in 0..BackoffMax
  BY TypesSplit DEF Types
<1>2. policy \in [state : Active \cup {"DEGRADED"}, failures : 0..(MaxFailures + 1), attempts : Nat]
      /\ policy.state # "DEGRADED"
  BY <1>1 DEF PolicyOK, Active
<1> QED
  BY <1>1, <1>2, ScheduleTypes DEF PolicyOK

LEMMA ElapseTypes == ASSUME TypeOK, Elapse PROVE TypeOK'
<1>1. PICK n \in Deliveries :
        /\ lastAge' = IF n > 0 THEN 0
                      ELSE IF lastAge = NoFrame THEN NoFrame
                      ELSE Capped(lastAge + 1, DetectionTime + 1)
        /\ window' = IF verifying
                       THEN [age |-> Capped(window.age + 1, WindowLimit),
                             frames |-> Capped(window.frames + n, MaxRate * WindowLimit)]
                       ELSE window
  BY DEF Elapse
<1>2. n \in Nat
  BY WatchAssumption DEF Deliveries, TypeOK
<1>3. lastAge' \in NoFrame..(DetectionTime + 1)
  BY <1>1, <1>2, TypesSplit, Limits DEF Types, NoFrame, Capped
<1>4. WindowType'
  <2>1. window.age \in 0..WindowLimit /\ window.frames \in 0..(MaxRate * WindowLimit)
    BY TypesSplit DEF Types, WindowType
  <2>2. PICK most \in Nat : most = MaxRate * WindowLimit
    BY Limits
  <2>3. /\ Capped(window.age + 1, WindowLimit) \in 0..WindowLimit
        /\ Capped(window.frames + n, most) \in 0..most
    BY <1>2, <2>1, <2>2, Limits DEF Capped
  <2>4. window' \in [age : 0..WindowLimit, frames : 0..most]
    BY <1>1, <2>2, <2>3, TypesSplit DEF Types, WindowType
  <2> QED
    BY <2>2, <2>4 DEF WindowType
<1>5. connectAge' \in 0..ConnectLimit /\ deadline' \in 0..BackoffMax
  BY TypesSplit, Limits DEF Types, Elapse, Capped
<1>6. sinceTick' \in 0..MaxLag
  BY TypesSplit, Limits DEF Types, Elapse
<1>7. UNCHANGED <<policy, verifying, chain, pad, bus, camera>>
  BY DEF Elapse
<1> QED
  BY <1>3, <1>4, <1>5, <1>6, <1>7, TypesSplit, TypesJoin DEF Types, PolicyOK, WindowType, NoFrame

LEMMA DoReconnectTypes ==
  ASSUME TypeOK, DoReconnect
  PROVE  /\ PolicyOK(policy') /\ verifying' \in BOOLEAN /\ WindowType'
         /\ connectAge' \in 0..ConnectLimit /\ deadline' \in 0..BackoffMax
         /\ chain' \in {"live", "torn"} /\ pad' \in {"linked", "free", "leaked"}
         /\ lastAge' \in NoFrame..(DetectionTime + 1)
         /\ bus' \in [fresh : 0..MaxErrors, stale : 0..MaxErrors]
<1>1. PICK outcome \in RebuildOutcomes :
        IF outcome = "ok" THEN Rebuilt ELSE RebuildFailed(outcome)
  BY DEF DoReconnect
<1>2. lastAge' \in NoFrame..(DetectionTime + 1)
  BY Limits DEF DoReconnect, NoFrame
<1>3. bus' \in [fresh : 0..MaxErrors, stale : 0..MaxErrors]
  <2>1. PICK n \in Capped(bus.fresh + bus.stale, MaxErrors)..MaxErrors :
          bus' = [fresh |-> 0, stale |-> n]
    BY DEF DoReconnect, BusAfterTeardown
  <2>2. Capped(bus.fresh + bus.stale, MaxErrors) \in Nat
    BY TypesSplit, Limits DEF Types, Capped
  <2> QED
    BY <2>1, <2>2, Limits
<1>4. CASE outcome = "ok"
  <2>1. policy' = [state |-> "CONNECTING", failures |-> policy.failures,
                   attempts |-> policy.attempts + 1]
    BY <1>1, <1>4 DEF Rebuilt, MarkConnect
  <2>2. policy.state = "RECONNECTING" /\ PolicyOK(policy)
    BY TypesSplit DEF Types, DoReconnect, RetryDue
  <2>3. PolicyOK(policy')
    BY <2>1, <2>2 DEF PolicyOK, Active
  <2>4. WindowType' /\ verifying' \in BOOLEAN
    <3>1. verifying' = FALSE /\ window' = [age |-> 0, frames |-> 0]
      BY <1>1, <1>4 DEF Rebuilt, CloseWindow, NoWindow
    <3>2. 0 \in 0..WindowLimit /\ 0 \in 0..(MaxRate * WindowLimit)
      BY Limits
    <3>3. verifying' \in BOOLEAN
      BY <3>1
    <3>4. WindowType'
      BY <3>1, <3>2 DEF WindowType
    <3> QED
      BY <3>3, <3>4
  <2> QED
    BY <1>1, <1>2, <1>3, <1>4, <2>3, <2>4, TypesSplit, Limits DEF Types, Rebuilt
<1>5. CASE outcome # "ok"
  <2>1. /\ chain' = "torn" /\ pad' \in {"leaked", "free"}
        /\ Schedule(policy) /\ UNCHANGED <<verifying, window>>
    BY <1>1, <1>5 DEF RebuildFailed, PadReleased
  <2> QED
    BY <1>2, <1>3, <2>1, SignalTypes, TypesSplit DEF Types, WindowType
<1> QED
  BY <1>4, <1>5

LEMMA WatchTickTypes == ASSUME TypeOK, WatchTick PROVE TypeOK'
<1>1. /\ PolicyOK(policy) /\ verifying \in BOOLEAN /\ WindowType
      /\ connectAge \in 0..ConnectLimit /\ deadline \in 0..BackoffMax
      /\ chain \in {"live", "torn"} /\ pad \in {"linked", "free", "leaked"}
      /\ lastAge \in NoFrame..(DetectionTime + 1)
      /\ bus \in [fresh : 0..MaxErrors, stale : 0..MaxErrors]
  BY TypesSplit DEF Types
<1>2. NoWindow \in [age : 0..WindowLimit, frames : 0..(MaxRate * WindowLimit)]
  BY Limits DEF NoWindow
<1>3. /\ PolicyOK(policy') /\ verifying' \in BOOLEAN /\ WindowType'
      /\ connectAge' \in 0..ConnectLimit /\ deadline' \in 0..BackoffMax
      /\ chain' \in {"live", "torn"} /\ pad' \in {"linked", "free", "leaked"}
      /\ lastAge' \in NoFrame..(DetectionTime + 1)
      /\ bus' \in [fresh : 0..MaxErrors, stale : 0..MaxErrors]
  <2>1. CASE OpenWindow
    BY <1>1, <1>2, <2>1 DEF OpenWindow, chainVars, WindowType
  <2>2. CASE PassVerify
    <3>1. PolicyOK(policy') /\ connectAge' \in 0..ConnectLimit
      BY <2>2, Limits, PolicyAssumption DEF PassVerify, MarkRunning, PolicyOK, Active
    <3> QED
      BY <1>1, <1>2, <2>2, <3>1 DEF PassVerify, CloseWindow, chainVars, WindowType
  <2>3. CASE FailVerify
    BY <1>1, <1>2, <2>3, SignalTypes DEF FailVerify, CloseWindow, chainVars, WindowType
  <2>4. CASE NoFirstFrame
    BY <1>1, <2>4, SignalTypes DEF NoFirstFrame, chainVars, WindowType
  <2>5. CASE Stall
    <3>1. PICK p : p = [policy EXCEPT !.state = "DEGRADED"]
      OBVIOUS
    <3>2. policy.state = "RUNNING" /\ Schedule(p)
      BY <2>5, <3>1 DEF Stall, Stalled, MarkDegraded
    <3>3. /\ p \in [state : Active \cup {"DEGRADED"}, failures : 0..(MaxFailures + 1), attempts : Nat]
          /\ p.state = "DEGRADED" /\ p.failures # MaxFailures + 1
      BY <1>1, <3>1, <3>2 DEF PolicyOK
    <3>4. PolicyOK(policy') /\ connectAge' \in 0..ConnectLimit /\ deadline' \in 0..BackoffMax
      BY <1>1, <3>2, <3>3, ScheduleTypes DEF Pending
    <3> QED
      BY <1>1, <2>5, <3>4 DEF Stall, chainVars, WindowType
  <2>6. CASE DoReconnect
    BY <2>6, DoReconnectTypes
  <2>7. CASE NothingDue
    BY <1>1, <2>7 DEF NothingDue, streamVars, chainVars, WindowType
  <2> QED
    BY <2>1, <2>2, <2>3, <2>4, <2>5, <2>6, <2>7 DEF WatchTick
<1>4. sinceTick' \in 0..MaxLag /\ camera' \in {"flaky", "good", "dead"}
  BY TypesSplit, Limits DEF Types, WatchTick
<1> QED
  BY <1>3, <1>4, TypesSplit, TypesJoin DEF Types, PolicyOK, WindowType, NoFrame

LEMMA StepTypes == TypeOK /\ [Next]_vars => TypeOK'
<1> SUFFICES ASSUME TypeOK, [Next]_vars PROVE TypeOK'
  OBVIOUS
<1>1. CASE Elapse
  BY <1>1, ElapseTypes
<1>2. CASE WatchTick
  BY <1>2, WatchTickTypes
<1>3. CASE PostError
  <2>1. bus' \in [fresh : 0..MaxErrors, stale : 0..MaxErrors]
    BY <1>3, TypesSplit, Limits DEF Types, PostError
  <2> QED
    BY <1>3, <2>1 DEF PostError, streamVars, chainVars, TypeOK
<1>4. CASE Settle
  BY <1>4 DEF Settle, streamVars, chainVars, TypeOK
<1>5. CASE BusError \/ Restart
  <2>1. /\ Schedule(policy)
        /\ UNCHANGED <<verifying, window, chainVars, sinceTick, camera>>
    BY <1>5 DEF BusError, Restart
  <2>2. bus' \in [fresh : 0..MaxErrors, stale : 0..MaxErrors]
    BY <1>5, TypesSplit, Limits DEF Types, BusError, Restart
  <2> QED
    BY <2>1, <2>2, SignalTypes, TypesSplit, TypesJoin DEF Types, chainVars, PolicyOK, WindowType, NoFrame
<1>6. CASE StaleBusError
  <2>1. bus' \in [fresh : 0..MaxErrors, stale : 0..MaxErrors]
    BY <1>6, TypesSplit, Limits DEF Types, StaleBusError
  <2> QED
    BY <1>6, <2>1 DEF StaleBusError, IgnoreStaleError, chainVars, TypeOK
<1>7. CASE UNCHANGED vars
  BY <1>7 DEF vars, streamVars, chainVars, TypeOK
<1> QED
  BY <1>1, <1>2, <1>3, <1>4, <1>5, <1>6, <1>7 DEF Next

\* The types, for every timeout and every number of failures allowed: in particular a
\* stream is given up with exactly one failure too many, and no wait before a retry
\* exceeds backoff_max_ms, however often the base is doubled (mark_failure, backoff_ms).
THEOREM TypeCorrect == Spec => []TypeOK
<1>1. Init => TypeOK
  <2> SUFFICES ASSUME Init PROVE TypeOK
    OBVIOUS
  <2>1. policy = [state |-> "CONNECTING", failures |-> 0, attempts |-> 1]
    BY DEF Init, MarkConnect, NewPolicy
  <2>2. PolicyOK(policy)
    BY <2>1, PolicyAssumption DEF PolicyOK, Active
  <2>3. WindowType
    BY Limits DEF Init, NoWindow, WindowType
  <2>4. lastAge \in NoFrame..(DetectionTime + 1)
    BY Limits DEF Init, NoFrame
  <2>5. connectAge \in 0..ConnectLimit /\ deadline \in 0..BackoffMax /\ sinceTick \in 0..MaxLag
    BY Limits DEF Init
  <2>6. bus \in [fresh : 0..MaxErrors, stale : 0..MaxErrors]
    BY Limits DEF Init
  <2>7. Types
    BY <2>2, <2>3, <2>4, <2>5, <2>6 DEF Init, Types
  <2> QED
    BY <2>7, TypesSplit
<1> QED
  BY <1>1, StepTypes, PTL DEF Spec

------------------------------------------------------------------------------
(* The probes of the streams' ends *)

AnyEntry == [pad : Nat \X Nat, set : BOOLEAN]

PadsAreOwn == \A s \in Streams : source[s] = NoPad \/ source[s][1] = s

\* What OwnStreamIsFlushed asks of a stream.
Undisturbed(s) == InPlace(s) /\ (at.step = "clear" => s <= at.stream)

\* Entries only ever move to the front, and those of undisturbed streams not at all.
EntriesAreInPlace ==
  \A i \in DOMAIN entries :
    /\ entries[i].pad[1] \in Streams
    /\ i <= entries[i].pad[1]
    /\ Undisturbed(entries[i].pad[1]) => i = entries[i].pad[1]

InstallIsInStep ==
  /\ at \in [step : {"idle", "rebuild", "clear", "install"}, stream : Nat]
  /\ at.step = "install" =>
       /\ at.stream \in Streams /\ Len(entries) < at.stream
       /\ InPlace(at.stream) => Len(entries) = at.stream - 1

ProbedAreLive == probed \subseteq LivePads

Covered(s) ==
  source[s] # NoPad /\ InPlace(s) =>
    source[s] \in probed /\ s \in DOMAIN entries /\ entries[s].pad = source[s]

\* Which streams need a probe: all of them between reconnects, the others while one is
\* rebuilt, and those that are done while the lists are filled again.
Settled(s) ==
  \/ at.step = "idle"
  \/ at.step = "rebuild" /\ at.stream # s
  \/ at.step = "install" /\ s < at.stream

SettledAreCovered == \A s \in Streams : Settled(s) => Covered(s)

ProbesInv ==
  /\ source \in [Streams -> Nat \X Nat]
  /\ built \in [Streams -> Nat]
  /\ entries \in Seq(AnyEntry)
  /\ PadsAreOwn
  /\ EntriesAreInPlace
  /\ InstallIsInStep
  /\ ProbedAreLive
  /\ SettledAreCovered

LEMMA NoPadIsNobodys ==
  ASSUME NEW s \in Streams PROVE NoPad[1] # s
BY EosAssumption DEF NoPad, Streams

\* The live pad of an undisturbed stream is found at its position or nowhere.
LEMMA FoundAtHome ==
  ASSUME ProbesInv, NEW s \in Streams, source[s] # NoPad, Undisturbed(s)
  PROVE Found(source[s]) \subseteq {s}
<1>1. source[s][1] = s
  BY DEF ProbesInv, PadsAreOwn
<1>2. \A i \in DOMAIN entries : entries[i].pad = source[s] => i = s
  BY <1>1 DEF ProbesInv, EntriesAreInPlace
<1> QED
  BY <1>2 DEF Found

LEMMA ProbesInitHolds == ProbesInit => ProbesInv
<1> SUFFICES ASSUME ProbesInit PROVE ProbesInv
  OBVIOUS
<1>1. source \in [Streams -> Nat \X Nat] /\ built \in [Streams -> Nat]
  BY EosAssumption DEF ProbesInit, Streams
<1>2. entries \in Seq(AnyEntry) /\ DOMAIN entries = Streams
  <2>1. \A s \in Streams : [pad |-> <<s, 0>>, set |-> TRUE] \in AnyEntry
    BY EosAssumption DEF AnyEntry, Streams
  <2> QED
    BY <2>1, EosAssumption DEF ProbesInit, Streams
<1>3. \A s \in Streams : source[s] = <<s, 0>> /\ entries[s].pad = source[s] /\ s <= s
  BY EosAssumption DEF ProbesInit, Streams
<1>4. PadsAreOwn /\ EntriesAreInPlace
  BY <1>2, <1>3 DEF PadsAreOwn, EntriesAreInPlace
<1>5. \A s \in Streams : source[s] # NoPad
  BY <1>3, EosAssumption DEF NoPad, Streams
<1>6. probed = {source[s] : s \in Streams}
  BY <1>3 DEF ProbesInit
<1>7. ProbedAreLive
  BY <1>5, <1>6 DEF ProbedAreLive, LivePads
<1>8. SettledAreCovered
  BY <1>2, <1>3, <1>6 DEF SettledAreCovered, Covered
<1>9. InstallIsInStep
  BY DEF ProbesInit, Idle, InstallIsInStep
<1> QED
  BY <1>1, <1>2, <1>4, <1>7, <1>8, <1>9 DEF ProbesInv

\* The entry at the position of the stream may be another's, but then not one that is
\* in place: those keep their probes.
LEMMA RemoveProbeKeeps ==
  ASSUME ProbesInv, NEW s \in Rtsp, RemoveProbe(s) PROVE ProbesInv'
<1>1. /\ at.step = "idle" /\ at' = [step |-> "rebuild", stream |-> s] /\ s \in Nat
      /\ UNCHANGED <<source, built>> /\ probed' \subseteq probed
  BY EosAssumption DEF RemoveProbe, Idle, At, Streams
<1>2. /\ entries' \in Seq(AnyEntry)
      /\ DOMAIN entries' = DOMAIN entries
      /\ \A i \in DOMAIN entries : entries'[i].pad = entries[i].pad
  <2>1. CASE s \in DOMAIN entries /\ entries[s].set
    <3>1. entries' = [entries EXCEPT ![s] = [entries[s] EXCEPT !.set = FALSE]]
      BY <2>1 DEF RemoveProbe
    <3>2. PICK e \in AnyEntry : e = [entries[s] EXCEPT !.set = FALSE] /\ e.pad = entries[s].pad
      <4>1. entries[s] \in AnyEntry
        BY <2>1 DEF ProbesInv
      <4>2. /\ [entries[s] EXCEPT !.set = FALSE] \in AnyEntry
            /\ [entries[s] EXCEPT !.set = FALSE].pad = entries[s].pad
        BY <4>1 DEF AnyEntry
      <4> QED
        BY <4>2
    <3>3. entries' = [entries EXCEPT ![s] = e]
      BY <3>1, <3>2
    <3> QED
      BY <2>1, <3>2, <3>3 DEF ProbesInv
  <2>2. CASE ~(s \in DOMAIN entries /\ entries[s].set)
    BY <2>2 DEF RemoveProbe, ProbesInv
  <2> QED
    BY <2>1, <2>2
<1>3. \A z : InPlace(z)' <=> InPlace(z)
  BY <1>1 DEF InPlace
<1>4. EntriesAreInPlace'
  <2> SUFFICES ASSUME NEW i \in DOMAIN entries
               PROVE  /\ entries[i].pad[1] \in Streams /\ i <= entries[i].pad[1]
                      /\ InPlace(entries[i].pad[1]) => i = entries[i].pad[1]
    BY <1>1, <1>2, <1>3 DEF EntriesAreInPlace, Undisturbed
  <2> QED
    BY <1>1 DEF ProbesInv, EntriesAreInPlace, Undisturbed
<1>5. ASSUME NEW z \in Streams, z # s PROVE Covered(z)'
  <2> SUFFICES ASSUME source[z] # NoPad, InPlace(z)
               PROVE source[z] \in probed' /\ z \in DOMAIN entries /\ entries[z].pad = source[z]
    BY <1>1, <1>2, <1>3 DEF Covered
  <2>1. source[z] \in probed /\ z \in DOMAIN entries /\ entries[z].pad = source[z]
    BY <1>1 DEF ProbesInv, SettledAreCovered, Settled, Covered
  <2>2. s \in DOMAIN entries => entries[s].pad # source[z]
    <3>1. source[z][1] = z /\ Undisturbed(z)
      BY <1>1 DEF ProbesInv, PadsAreOwn, Undisturbed
    <3> QED
      BY <1>5, <3>1 DEF ProbesInv, EntriesAreInPlace
  <2> QED
    BY <2>1, <2>2 DEF RemoveProbe
<1>6. SettledAreCovered'
  BY <1>1, <1>5 DEF SettledAreCovered, Settled
<1>7. InstallIsInStep' /\ PadsAreOwn' /\ ProbedAreLive'
  BY <1>1 DEF ProbesInv, InstallIsInStep, PadsAreOwn, ProbedAreLive, LivePads
<1> QED
  BY <1>1, <1>2, <1>4, <1>6, <1>7 DEF ProbesInv

\* Where a rebuild succeeds the lists wait to be cleared; where it fails the later
\* streams are out of place.
LEMMA RebuildKeeps ==
  ASSUME ProbesInv, NEW s \in Rtsp, Rebuild(s) PROVE ProbesInv'
<1>1. s \in Streams /\ s \in Nat /\ at.step = "rebuild" /\ at.stream = s
  BY EosAssumption DEF Rebuild, At, Streams
<1>2. probed' = probed \ {source[s]} /\ entries' = entries /\ built' \in [Streams -> Nat]
  BY <1>1 DEF Rebuild, ProbesInv
<1>3. PICK sourcePad \in Nat \X Nat :
        /\ source' = [source EXCEPT ![s] = sourcePad]
        /\ \/ sourcePad = NoPad /\ at' = Idle
           \/ sourcePad # NoPad /\ sourcePad[1] = s /\ at' = [step |-> "clear", stream |-> s]
  <2>1. <<s, built[s] + 1>> \in Nat \X Nat /\ <<s, built[s] + 1>> # NoPad
    BY <1>1, NoPadIsNobodys DEF ProbesInv, NoPad
  <2>2. NoPad \in Nat \X Nat
    BY DEF NoPad
  <2> QED
    BY <2>1, <2>2 DEF Rebuild, At
<1>4. /\ source' \in [Streams -> Nat \X Nat]
      /\ \A z \in Streams : source'[z] = IF z = s THEN sourcePad ELSE source[z]
  BY <1>1, <1>3 DEF ProbesInv
<1>5. PadsAreOwn'
  BY <1>3, <1>4 DEF ProbesInv, PadsAreOwn
<1>6. InstallIsInStep'
  BY <1>1, <1>3 DEF InstallIsInStep, Idle
<1>7. ProbedAreLive'
  <2> SUFFICES ASSUME NEW live \in probed' PROVE live \in LivePads'
    BY DEF ProbedAreLive
  <2>1. PICK z \in Streams : live = source[z] /\ live # NoPad
    BY <1>2 DEF ProbesInv, ProbedAreLive, LivePads
  <2>2. z # s
    BY <1>2, <2>1
  <2> QED
    BY <1>4, <2>1, <2>2 DEF LivePads
<1>8. ASSUME NEW z \in Streams, Undisturbed(z)' PROVE Undisturbed(z)
  <2>1. z \in Nat
    BY <1>8, EosAssumption DEF Streams
  <2>2. InPlace(z)
    <3> SUFFICES ASSUME NEW y \in 1..(z - 1) PROVE source[y] # NoPad
      BY DEF InPlace
    <3>1. y \in Streams /\ source'[y] # NoPad
      BY <1>8, <2>1, EosAssumption DEF Undisturbed, InPlace, Streams
    <3>2. CASE y # s
      BY <1>4, <3>1, <3>2
    <3>3. CASE y = s
      <4>1. at'.step = "clear" /\ at'.stream = s
        BY <1>3, <1>4, <3>1, <3>3
      <4>2. z <= s
        BY <1>8, <4>1 DEF Undisturbed
      <4> QED
        BY <1>1, <2>1, <3>3, <4>2
    <3> QED
      BY <3>2, <3>3
  <2> QED
    BY <1>1, <2>2 DEF Undisturbed
<1>9. EntriesAreInPlace'
  BY <1>2, <1>8 DEF ProbesInv, EntriesAreInPlace
<1>10. SettledAreCovered'
  <2>1. CASE at'.step = "clear"
    BY <2>1 DEF SettledAreCovered, Settled
  <2>2. CASE sourcePad = NoPad /\ at' = Idle
    <3> SUFFICES ASSUME NEW z \in Streams, source'[z] # NoPad, InPlace(z)'
                 PROVE  /\ source'[z] \in probed' /\ z \in DOMAIN entries'
                        /\ entries'[z].pad = source'[z]
      BY DEF SettledAreCovered, Covered
    <3>1. z # s /\ source'[z] = source[z]
      BY <1>4, <2>2
    <3>2. InPlace(z)
      BY <1>8, <2>2 DEF Undisturbed, Idle
    <3>3. source[z] \in probed /\ z \in DOMAIN entries /\ entries[z].pad = source[z]
      BY <1>1, <3>1, <3>2 DEF ProbesInv, SettledAreCovered, Settled, Covered
    <3>4. source[z] # source[s]
      BY <1>1, <3>1 DEF ProbesInv, PadsAreOwn
    <3> QED
      BY <1>2, <3>1, <3>3, <3>4
  <2> QED
    BY <1>3, <2>1, <2>2
<1> QED
  BY <1>2, <1>4, <1>5, <1>6, <1>7, <1>9, <1>10 DEF ProbesInv

LEMMA ClearKeeps ==
  ASSUME ProbesInv, NEW s \in Rtsp, Clear(s) PROVE ProbesInv'
<1>1. /\ at' = [step |-> "install", stream |-> 1] /\ entries' = <<>> /\ 1 \in Streams
      /\ probed' \subseteq probed /\ UNCHANGED <<source, built>>
  BY EosAssumption DEF Clear, At, Streams
<1>2. entries' \in Seq(AnyEntry) /\ EntriesAreInPlace' /\ InstallIsInStep'
  BY <1>1 DEF EntriesAreInPlace, InstallIsInStep
<1>3. \A z \in Streams : ~Settled(z)'
  BY <1>1 DEF Settled, Streams
<1>4. SettledAreCovered' /\ PadsAreOwn' /\ ProbedAreLive'
  BY <1>1, <1>3 DEF ProbesInv, SettledAreCovered, PadsAreOwn, ProbedAreLive, LivePads
<1> QED
  BY <1>1, <1>2, <1>4 DEF ProbesInv

\* A pad that is missing makes the list shorter, and puts later streams out of place.
LEMMA InstallKeeps ==
  ASSUME ProbesInv, NEW s \in Streams, Install(s) PROVE ProbesInv'
<1>1. /\ s \in Nat /\ at.step = "install" /\ at.stream = s /\ s <= StreamCount
      /\ entries \in Seq(AnyEntry) /\ Len(entries) < s
      /\ InPlace(s) => Len(entries) = s - 1
  BY EosAssumption DEF Install, At, ProbesInv, InstallIsInStep, Streams
<1>2. UNCHANGED <<source, built>>
  BY DEF Install
<1>3. \A z : InPlace(z)' <=> InPlace(z)
  BY <1>2 DEF InPlace
<1>4. PICK e \in AnyEntry : e = [pad |-> source[s], set |-> TRUE] /\ e.pad = source[s]
  <2>1. [pad |-> source[s], set |-> TRUE] \in AnyEntry
    BY DEF AnyEntry, ProbesInv
  <2> QED
    BY <2>1
<1>5. \/ source[s] = NoPad /\ entries' = entries /\ probed' = probed
      \/ /\ source[s] # NoPad /\ entries' = Append(entries, e)
         /\ probed' = probed \union {source[s]}
  BY <1>4 DEF Install, Appended
<1>6. /\ entries' \in Seq(AnyEntry) /\ Len(entries') <= s
      /\ source[s] # NoPad => Len(entries') = Len(entries) + 1 /\ entries'[Len(entries) + 1] = e
      /\ \A i \in DOMAIN entries : i \in DOMAIN entries' /\ entries'[i] = entries[i]
      /\ \A i \in DOMAIN entries' : i \in DOMAIN entries \/ (i = Len(entries) + 1 /\ source[s] # NoPad)
  BY <1>1, <1>5
<1>7. \/ at' = [step |-> "install", stream |-> s + 1] /\ s + 1 \in Streams
      \/ at' = [step |-> "idle", stream |-> 0] /\ s = StreamCount
  BY <1>1, EosAssumption DEF Install, After, At, Idle, Streams
<1>8. EntriesAreInPlace'
  <2> SUFFICES ASSUME NEW i \in DOMAIN entries'
               PROVE  /\ entries'[i].pad[1] \in Streams /\ i <= entries'[i].pad[1]
                      /\ InPlace(entries'[i].pad[1]) => i = entries'[i].pad[1]
    BY <1>3 DEF EntriesAreInPlace, Undisturbed
  <2>1. CASE i \in DOMAIN entries
    BY <1>1, <1>6, <2>1 DEF ProbesInv, EntriesAreInPlace, Undisturbed
  <2>2. CASE i = Len(entries) + 1 /\ source[s] # NoPad
    <3>1. entries'[i].pad[1] = s
      BY <1>4, <1>6, <2>2 DEF ProbesInv, PadsAreOwn
    <3> QED
      BY <1>1, <2>2, <3>1
  <2> QED
    BY <1>6, <2>1, <2>2
<1>9. InstallIsInStep'
  <2>1. CASE at' = [step |-> "install", stream |-> s + 1] /\ s + 1 \in Streams
    <3>1. InPlace(s + 1) => Len(entries') = s
      <4> HAVE InPlace(s + 1)
      <4>1. InPlace(s) /\ source[s] # NoPad
        BY <1>1 DEF InPlace, ProbesInv, Streams
      <4> QED
        BY <1>1, <1>6, <4>1
    <3>2. Len(entries') < s + 1
      BY <1>1, <1>6
    <3> QED
      BY <1>1, <1>3, <2>1, <3>1, <3>2 DEF InstallIsInStep
  <2>2. CASE at' = [step |-> "idle", stream |-> 0]
    BY <2>2 DEF InstallIsInStep
  <2> QED
    BY <1>7, <2>1, <2>2
<1>10. ProbedAreLive'
  BY <1>2, <1>5 DEF ProbesInv, ProbedAreLive, LivePads
<1>11. SettledAreCovered'
  <2> SUFFICES ASSUME NEW z \in Streams, Settled(z)', source[z] # NoPad, InPlace(z)
               PROVE  /\ source[z] \in probed' /\ z \in DOMAIN entries'
                      /\ entries'[z].pad = source[z]
    BY <1>2, <1>3 DEF SettledAreCovered, Covered
  <2>1. z \in Nat /\ z <= s
    BY <1>1, <1>7, EosAssumption DEF Settled, Streams
  <2>2. CASE z = s
    <3>1. Len(entries) + 1 = s
      BY <1>1, <2>2
    <3> QED
      BY <1>1, <1>4, <1>5, <1>6, <2>2, <3>1
  <2>3. CASE z # s
    <3>1. Settled(z)
      BY <1>1, <2>1, <2>3 DEF Settled
    <3> QED
      BY <1>5, <1>6, <3>1 DEF ProbesInv, SettledAreCovered, Covered
  <2> QED
    BY <2>2, <2>3
<1>12. PadsAreOwn'
  BY <1>2 DEF ProbesInv, PadsAreOwn
<1> QED
  BY <1>2, <1>6, <1>8, <1>9, <1>10, <1>11, <1>12 DEF ProbesInv

LEMMA StutterKeeps ==
  ASSUME ProbesInv, UNCHANGED <<source, built, entries, probed, at>> PROVE ProbesInv'
BY DEF ProbesInv, PadsAreOwn, EntriesAreInPlace, Undisturbed, InPlace, InstallIsInStep,
       ProbedAreLive, LivePads, SettledAreCovered, Settled, Covered

LEMMA ProbesStepKeeps == ProbesInv /\ [ProbesNext]_probeVars => ProbesInv'
<1> SUFFICES ASSUME ProbesInv, [ProbesNext]_probeVars PROVE ProbesInv'
  OBVIOUS
<1>1. CASE \E s \in Rtsp : RemoveProbe(s) \/ Rebuild(s) \/ Clear(s)
  BY <1>1, RemoveProbeKeeps, RebuildKeeps, ClearKeeps
<1>2. CASE \E s \in Streams : Install(s)
  BY <1>2, InstallKeeps
<1>3. CASE (\E s \in Streams : Eos(s)) \/ UNCHANGED probeVars
  BY <1>3, StutterKeeps DEF Eos, probeVars
<1> QED
  BY <1>1, <1>2, <1>3 DEF ProbesNext

\* Whichever rebuilds fail, an end of stream (on_stream_eos) flushes no other stream's
\* tracks, also in the middle of a reconnect, unless an earlier stream lacks its pad or
\* the lists from that time are still there: only then are positions not the streams'.
THEOREM EosFlushesItsOwnStream == ProbesSpec => OwnStreamIsFlushed
<1>1. ASSUME ProbesInv, NEW s \in Streams, Eos(s), Undisturbed(s)
      PROVE  flushed' \subseteq flushed \union {s}
  BY <1>1, FoundAtHome DEF Eos
<1>2. ProbesInv =>
        \A s \in Streams :
          /\ Eos(s) /\ InPlace(s)
          /\ at.step = "clear" => s <= at.stream
          => flushed' \subseteq flushed \union {s}
  BY <1>1 DEF Undisturbed
<1> QED
  BY <1>2, ProbesInitHolds, ProbesStepKeeps, PTL DEF ProbesSpec, OwnStreamIsFlushed

LEMMA CoveredIsProbed == ProbesInv => EveryPadIsProbed
<1> SUFFICES ASSUME ProbesInv, at = Idle, NEW s \in Streams, source[s] # NoPad, InPlace(s)
             PROVE  source[s] \in probed /\ Found(source[s]) = {s}
  BY DEF ProbesInv, ProbedAreLive, EveryPadIsProbed
<1>1. source[s] \in probed /\ s \in DOMAIN entries /\ entries[s].pad = source[s]
  BY DEF ProbesInv, SettledAreCovered, Settled, Covered, Idle
<1>2. source[s][1] = s /\ Undisturbed(s)
  BY DEF ProbesInv, PadsAreOwn, Undisturbed, Idle
<1>3. \A i \in 1..(s - 1) : entries[i].pad # source[s]
  <2> SUFFICES ASSUME NEW i \in 1..(s - 1), entries[i].pad = source[s] PROVE FALSE
    OBVIOUS
  <2>1. i \in DOMAIN entries /\ i # s
    BY <1>1 DEF ProbesInv, Streams
  <2> QED
    BY <1>2, <2>1 DEF ProbesInv, EntriesAreInPlace
<1>4. Found(source[s]) \subseteq {s}
  BY <1>2, FoundAtHome
<1> QED
  BY <1>1, <1>3, <1>4 DEF Found

\* Whichever rebuilds fail, every stream that comes before the first missing pad has its
\* probe and its position in the lists between reconnects (do_reconnect,
\* install_eos_probes): a shifted entry never costs such a stream its probe, and the
\* first rebuild that succeeds puts the others right too.
THEOREM ReconnectKeepsProbes == ProbesSpec => []EveryPadIsProbed
BY ProbesInitHolds, ProbesStepKeeps, CoveredIsProbed, PTL DEF ProbesSpec

------------------------------------------------------------------------------
(* Types, whichever rebuilds fail *)

\* A stream that is rebuilt has a rebuild left, and the lists are shorter than the
\* position of the stream whose probe comes next.
ProbesShape ==
  /\ source \in [Streams -> Pads \cup {NoPad}]
  /\ built \in [Streams -> 0..MaxRebuilds]
  /\ entries \in Seq(Entries) /\ Len(entries) <= StreamCount
  /\ probed \subseteq Pads
  /\ \/ at = Idle
     \/ /\ at \in [step : {"rebuild", "clear"}, stream : Rtsp]
        /\ at.step = "rebuild" => built[at.stream] < MaxRebuilds
     \/ /\ at \in [step : {"install"}, stream : Streams]
        /\ Len(entries) < at.stream
  /\ ended \subseteq Streams
  /\ flushed \subseteq Streams

LEMMA ShapeIsType == ProbesShape => ProbesTypeOK
<1> SUFFICES ASSUME ProbesShape PROVE entries \in UNION {[1..n -> Entries] : n \in 0..StreamCount}
  BY DEF ProbesShape, ProbesTypeOK
<1>1. Len(entries) \in 0..StreamCount /\ entries \in [1..Len(entries) -> Entries]
  BY EosAssumption DEF ProbesShape
<1> QED
  BY <1>1

LEMMA ShapeAtFirst == ProbesInit => ProbesShape
<1> SUFFICES ASSUME ProbesInit PROVE ProbesShape
  OBVIOUS
<1>1. \A s \in Streams : <<s, 0>> \in Pads
  BY EosAssumption DEF Pads
<1>2. \A s \in Streams : [pad |-> <<s, 0>>, set |-> TRUE] \in Entries
  BY <1>1 DEF Entries
<1>3. entries \in Seq(Entries) /\ Len(entries) = StreamCount
  BY <1>2, EosAssumption DEF ProbesInit, Streams
<1>4. source \in [Streams -> Pads \cup {NoPad}] /\ probed \subseteq Pads
  BY <1>1 DEF ProbesInit
<1>5. built \in [Streams -> 0..MaxRebuilds]
  BY EosAssumption DEF ProbesInit
<1> QED
  BY <1>3, <1>4, <1>5, EosAssumption DEF ProbesInit, ProbesShape

LEMMA RemoveProbeShape ==
  ASSUME ProbesShape, NEW s \in Rtsp, RemoveProbe(s) PROVE ProbesShape'
<1>1. /\ at' = [step |-> "rebuild", stream |-> s] /\ built' = built
      /\ built[s] < MaxRebuilds
  BY DEF RemoveProbe, At
<1>2. /\ at' \in [step : {"rebuild", "clear"}, stream : Rtsp]
      /\ at'.step = "rebuild" => built'[at'.stream] < MaxRebuilds
  BY <1>1
<1>3. entries' \in Seq(Entries) /\ Len(entries') = Len(entries) /\ probed' \subseteq Pads
  <2>1. CASE s \in DOMAIN entries /\ entries[s].set
    <3>1. entries' = [entries EXCEPT ![s] = [entries[s] EXCEPT !.set = FALSE]]
      BY <2>1 DEF RemoveProbe
    <3>2. PICK e \in Entries : e = [entries[s] EXCEPT !.set = FALSE]
      <4>1. entries[s] \in Entries
        BY <2>1 DEF ProbesShape
      <4> QED
        BY <4>1 DEF Entries
    <3>3. entries' = [entries EXCEPT ![s] = e]
      BY <3>1, <3>2
    <3> QED
      BY <2>1, <3>3 DEF ProbesShape, RemoveProbe
  <2>2. CASE ~(s \in DOMAIN entries /\ entries[s].set)
    BY <2>2 DEF RemoveProbe, ProbesShape
  <2> QED
    BY <2>1, <2>2
<1> QED
  BY <1>2, <1>3 DEF RemoveProbe, ProbesShape

LEMMA RebuildShape ==
  ASSUME ProbesShape, NEW s \in Rtsp, Rebuild(s) PROVE ProbesShape'
<1>1. s \in Streams /\ at.step = "rebuild" /\ at.stream = s
  BY EosAssumption DEF Rebuild, At
<1>2. built[s] \in 0..MaxRebuilds /\ built[s] < MaxRebuilds
  BY <1>1 DEF ProbesShape, Idle
<1>3. built[s] + 1 \in 0..MaxRebuilds
  BY <1>2, EosAssumption
<1>4. built' \in [Streams -> 0..MaxRebuilds]
  BY <1>1, <1>3 DEF Rebuild, ProbesShape
<1>5. source' \in [Streams -> Pads \cup {NoPad}]
  <2>1. <<s, built[s] + 1>> \in Pads
    BY <1>1, <1>3 DEF Pads
  <2> QED
    BY <1>1, <2>1 DEF Rebuild, ProbesShape
<1>6. at' = Idle \/ (at' \in [step : {"rebuild", "clear"}, stream : Rtsp] /\ at'.step = "clear")
  BY DEF Rebuild, At
<1> QED
  BY <1>4, <1>5, <1>6 DEF Rebuild, ProbesShape

LEMMA ClearShape ==
  ASSUME ProbesShape, NEW s \in Rtsp, Clear(s) PROVE ProbesShape'
<1>1. entries' = <<>> /\ at' = [step |-> "install", stream |-> 1] /\ 1 \in Streams
  BY EosAssumption DEF Clear, At, Streams
<1>2. entries' \in Seq(Entries) /\ Len(entries') <= StreamCount /\ Len(entries') < at'.stream
  BY <1>1, EosAssumption
<1> QED
  BY <1>1, <1>2 DEF Clear, ProbesShape

LEMMA InstallShape ==
  ASSUME ProbesShape, NEW s \in Streams, Install(s) PROVE ProbesShape'
<1>1. s \in Nat /\ s <= StreamCount /\ entries \in Seq(Entries) /\ Len(entries) < s
  BY EosAssumption DEF Install, At, ProbesShape, Idle, Streams
<1>2. entries' \in Seq(Entries) /\ Len(entries') <= s /\ probed' \subseteq Pads
  <2>1. CASE source[s] = NoPad
    BY <1>1, <2>1 DEF Install, ProbesShape
  <2>2. CASE source[s] # NoPad
    <3>1. source[s] \in Pads
      BY <2>2 DEF ProbesShape
    <3>2. PICK e \in Entries : e = [pad |-> source[s], set |-> TRUE]
      BY <3>1 DEF Entries
    <3>3. entries' = Append(entries, e) /\ probed' = probed \cup {source[s]}
      BY <2>2, <3>2 DEF Install, Appended
    <3> QED
      BY <1>1, <3>1, <3>3 DEF ProbesShape
  <2> QED
    BY <2>1, <2>2
<1>3. \/ at' = Idle
      \/ at' \in [step : {"install"}, stream : Streams] /\ Len(entries') < at'.stream
  <2>1. CASE s = StreamCount
    BY <2>1 DEF Install, After
  <2>2. CASE s # StreamCount
    <3>1. at' = [step |-> "install", stream |-> s + 1] /\ s + 1 \in Streams
      BY <1>1, <2>2, EosAssumption DEF Install, After, At, Streams
    <3> QED
      BY <1>1, <1>2, <3>1
  <2> QED
    BY <2>1, <2>2
<1>4. Len(entries') <= StreamCount
  BY <1>1, <1>2, EosAssumption
<1> QED
  BY <1>2, <1>3, <1>4 DEF Install, ProbesShape

LEMMA EosShape ==
  ASSUME ProbesShape, NEW s \in Streams, Eos(s) PROVE ProbesShape'
<1>1. Found(source[s]) \subseteq Streams
  BY EosAssumption DEF Found, ProbesShape, Streams
<1>2. flushed' \subseteq Streams /\ ended' \subseteq Streams
  BY <1>1 DEF Eos, ProbesShape
<1> QED
  BY <1>2 DEF Eos, ProbesShape

\* Every value is of its type, whichever rebuilds fail: the lists never hold more
\* entries than there are streams (install_eos_probes), so a position found in them
\* is the index of some stream, if not always of the right one.
THEOREM ProbesTypeCorrect == ProbesSpec => []ProbesTypeOK
<1>1. ProbesShape /\ [ProbesNext]_probeVars => ProbesShape'
  <2> SUFFICES ASSUME ProbesShape, [ProbesNext]_probeVars PROVE ProbesShape'
    OBVIOUS
  <2>1. CASE \E s \in Rtsp : RemoveProbe(s) \/ Rebuild(s) \/ Clear(s)
    BY <2>1, RemoveProbeShape, RebuildShape, ClearShape
  <2>2. CASE \E s \in Streams : Install(s) \/ Eos(s)
    BY <2>2, InstallShape, EosShape
  <2>3. CASE UNCHANGED probeVars
    BY <2>3 DEF probeVars, ProbesShape
  <2> QED
    BY <2>1, <2>2, <2>3 DEF ProbesNext
<1> QED
  BY <1>1, ShapeAtFirst, ShapeIsType, PTL DEF ProbesSpec
=============================================================================
