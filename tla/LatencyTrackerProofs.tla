-------------------------- MODULE LatencyTrackerProofs --------------------------
(***************************************************************************)
(* The latency tracking for any capacities, any age and any losses.        *)
(*                                                                         *)
(* Arrays.  The positions of an array used round and round are distinct    *)
(* (Around...), so what on_latency_begin and on_latency_end do to the two  *)
(* arrays of a stream is what LatencyPairs does to its two sequences       *)
(* (EnteredQueue, WithoutQueue, SampledRecent).  The invariant Safe adds   *)
(* that entries wait in the order in which they were begun.                *)
(*                                                                         *)
(* Windows.  The numbers in a ring grow, and those above the mark are of   *)
(* the last samples, as many as were made since the window opened, or all  *)
(* that the ring still holds (WindowOf).                                   *)
(*                                                                         *)
(* Truth.  Every waiting entry whose number was not lost can be given a    *)
(* frame between the probes that it was begun with, no two of them the     *)
(* same one (Matched), and none of those frames began more than the age    *)
(* after an entry that waits (Near).  What on_latency_end takes out is     *)
(* then the frame's own begin, or that of another frame of its number, at  *)
(* most the age too early.                                                 *)
(***************************************************************************)
EXTENDS LatencyTracker, FiniteSetTheorems, SequenceTheorems, WellFoundedInduction, TLAPS

------------------------------------------------------------------------------
(* Positions *)

LEMMA Wraps ==
  ASSUME NEW cap \in Nat \ {0}, NEW n \in 0..(2 * cap - 1)
  PROVE  n % cap = IF n < cap THEN n ELSE n - cap
<1>1. CASE n < cap
  BY <1>1
<1>2. CASE n >= cap
  BY <1>2
<1> QED BY <1>1, <1>2

\* Where position i of an array lies that starts at h.
Around(cap, h, i) == IF h + i < cap THEN h + i ELSE h + i - cap

LEMMA AroundIs ==
  ASSUME NEW cap \in Nat \ {0}, NEW h \in 0..(cap - 1), NEW i \in 0..cap
  PROVE  Around(cap, h, i) \in 0..(cap - 1) /\ (h + i) % cap = Around(cap, h, i)
<1>1. PICK n \in 0..(2 * cap - 1) : n = h + i
  OBVIOUS
<1>2. n % cap = IF n < cap THEN n ELSE n - cap
  BY Wraps
<1> QED BY <1>1, <1>2 DEF Around

LEMMA AroundsDiffer ==
  ASSUME NEW cap \in Nat \ {0}, NEW h \in 0..(cap - 1),
         NEW i \in 0..cap, NEW j \in 0..cap, i < j, j - i < cap
  PROVE  Around(cap, h, i) # Around(cap, h, j)
BY DEF Around

\* A position seen from one that has moved on, and the one before.
LEMMA AroundsMove ==
  ASSUME NEW cap \in Nat \ {0}, NEW h \in 0..(cap - 1), NEW i \in 0..cap, NEW j \in 0..cap,
         i + j <= cap
  PROVE  /\ (Around(cap, h, i) + j) % cap = Around(cap, h, i + j)
         /\ j > 0 => (Around(cap, h, j) + cap - 1) % cap = Around(cap, h, j - 1)
<1>1. PICK a \in 0..(cap - 1) : a = Around(cap, h, i)
  BY AroundIs
<1>2. PICK b \in 0..(cap - 1) : b = Around(cap, h, j)
  BY AroundIs
<1>3. PICK n \in 0..(2 * cap - 1) : n = a + j
  OBVIOUS
<1>4. PICK m \in 0..(2 * cap - 1) : m = b + cap - 1
  OBVIOUS
<1>5. n % cap = IF n < cap THEN n ELSE n - cap
  BY Wraps
<1>6. m % cap = IF m < cap THEN m ELSE m - cap
  BY Wraps
<1>7. n % cap = Around(cap, h, i + j)
  BY <1>1, <1>3, <1>5 DEF Around
<1>8. j > 0 => m % cap = Around(cap, h, j - 1)
  BY <1>2, <1>4, <1>6 DEF Around
<1> QED BY <1>1, <1>2, <1>3, <1>4, <1>7, <1>8

LEMMA SlotIs ==
  ASSUME NEW p, p.pendingHead \in 0..(PendingCap - 1), NEW i \in 0..PendingCap
  PROVE  /\ Slot(p, i) = Around(PendingCap, p.pendingHead, i)
         /\ Slot(p, i) \in 0..(PendingCap - 1)
BY TrackerAssumption, AroundIs DEF Slot

------------------------------------------------------------------------------
(* Sequences *)

LEMMA SliceIs ==
  ASSUME NEW S, NEW seq \in Seq(S), NEW k \in Nat \ {0}, NEW l \in 0..Len(seq)
  PROVE  /\ SubSeq(seq, k, l) \in Seq(S)
         /\ Len(SubSeq(seq, k, l)) = IF k <= l THEN l - k + 1 ELSE 0
         /\ \A i \in 1..(l - k + 1) : SubSeq(seq, k, l)[i] = seq[k + i - 1]
BY SubSeqProperties

LEMMA NewestIs ==
  ASSUME NEW S, NEW seq \in Seq(S), NEW n \in Nat
  PROVE  /\ Pairing!Newest(n, seq) \in Seq(S)
         /\ Len(Pairing!Newest(n, seq)) = IF Len(seq) > n THEN n ELSE Len(seq)
         /\ \A i \in 1..Len(Pairing!Newest(n, seq)) :
              Pairing!Newest(n, seq)[i] = seq[Len(seq) - Len(Pairing!Newest(n, seq)) + i]
<1>0. PICK m \in Nat : m = IF Len(seq) > n THEN n ELSE Len(seq)
  OBVIOUS
<1>1. PICK l \in Nat : l = Len(seq)
  OBVIOUS
<1>2. PICK k \in Nat \ {0} : k = l - m + 1
  <2>1. l - m + 1 \in Nat \ {0}
    BY <1>0, <1>1
  <2> QED BY <2>1
<1>3. m <= l /\ (IF Len(seq) > n THEN Len(seq) - n + 1 ELSE 1) = k
  BY <1>0, <1>1, <1>2
<1>4. Pairing!Newest(n, seq) = SubSeq(seq, k, l)
  BY <1>1, <1>3 DEF Pairing!Newest
<1>6. /\ SubSeq(seq, k, l) \in Seq(S)
      /\ Len(SubSeq(seq, k, l)) = IF k <= l THEN l - k + 1 ELSE 0
      /\ \A i \in 1..(l - k + 1) : SubSeq(seq, k, l)[i] = seq[k + i - 1]
  <2>1. l \in 0..Len(seq)
    BY <1>1
  <2> QED BY <2>1, SliceIs
<1>7. l - k + 1 = m /\ (k <= l \/ m = 0) /\ \A i \in 1..m : k + i - 1 = l - m + i
  BY <1>2, <1>3
<1>8. Len(SubSeq(seq, k, l)) = m
  BY <1>6, <1>7
<1>9. Pairing!Newest(n, seq) \in Seq(S) /\ Len(Pairing!Newest(n, seq)) = m
  BY <1>4, <1>6, <1>8
<1>10. \A i \in 1..m : Pairing!Newest(n, seq)[i] = seq[l - m + i]
  BY <1>4, <1>6, <1>7
<1> QED BY <1>0, <1>1, <1>9, <1>10

LEMMA RemovedIs ==
  ASSUME NEW S, NEW seq \in Seq(S), NEW k \in 1..Len(seq)
  PROVE  /\ RemoveAt(seq, k) \in Seq(S)
         /\ Len(RemoveAt(seq, k)) = Len(seq) - 1
         /\ \A i \in 1..(Len(seq) - 1) :
              RemoveAt(seq, k)[i] = IF i < k THEN seq[i] ELSE seq[i + 1]
<1> DEFINE front == SubSeq(seq, 1, k - 1)
           back == SubSeq(seq, k + 1, Len(seq))
<1>1. PICK l \in Nat : l = Len(seq)
  OBVIOUS
<1>2. /\ front \in Seq(S) /\ Len(front) = k - 1
      /\ \A i \in 1..(k - 1) : front[i] = seq[i]
  BY <1>1, SubSeqProperties
<1>3. /\ back \in Seq(S) /\ Len(back) = l - k
      /\ \A i \in 1..(l - k) : back[i] = seq[k + i]
  BY <1>1, SubSeqProperties
<1>4. RemoveAt(seq, k) = front \o back
  BY DEF RemoveAt
<1> HIDE DEF front, back
<1>5. /\ front \o back \in Seq(S) /\ Len(front \o back) = Len(front) + Len(back)
      /\ \A i \in 1..(Len(front) + Len(back)) :
           (front \o back)[i] = IF i <= Len(front) THEN front[i] ELSE back[i - Len(front)]
  BY <1>2, <1>3, ConcatProperties
<1>6. Len(front) + Len(back) = l - 1
  BY <1>1, <1>2, <1>3
<1>7. ASSUME NEW i \in 1..(l - 1)
      PROVE  (front \o back)[i] = IF i < k THEN seq[i] ELSE seq[i + 1]
  <2>1. (front \o back)[i] = IF i <= k - 1 THEN front[i] ELSE back[i - (k - 1)]
    BY <1>2, <1>5, <1>6
  <2>2. CASE i < k
    BY <1>1, <1>2, <2>1, <2>2
  <2>3. CASE i >= k
    <3>1. i - (k - 1) \in 1..(l - k) /\ k + (i - (k - 1)) = i + 1
      BY <1>1, <2>3
    <3>2. back[i - (k - 1)] = seq[i + 1]
      BY <1>3, <3>1
    <3> QED BY <1>1, <2>1, <2>3, <3>2
  <2>4. i < k \/ i >= k
    BY <1>1
  <2> QED BY <2>2, <2>3, <2>4
<1>8. Len(RemoveAt(seq, k)) = l - 1
  BY <1>4, <1>5, <1>6
<1> QED BY <1>1, <1>4, <1>5, <1>7, <1>8

\* Of some numbers, one is the least.
LEMMA Least ==
  ASSUME NEW U \in SUBSET Nat, U # {}
  PROVE  \E k \in U : \A j \in U : k <= j
<1>1. IsWellFoundedOn(OpToRel(<,Nat), Nat)
  BY NatLessThanWellFounded
<1>2. PICK R : R = OpToRel(<,Nat)
  OBVIOUS
<1>3. \A x, y \in Nat : x < y => <<x, y>> \in R
  BY <1>2 DEF OpToRel
<1>4. PICK k \in U : \A y \in U : ~(<<y, k>> \in R)
  BY <1>1, <1>2, WFMin
<1>5. \A j \in U : ~(j < k)
  BY <1>3, <1>4
<1> QED BY <1>5

------------------------------------------------------------------------------
(* The queue in the array *)

LEMMA Capacities ==
  PendingCap \in Nat \ {0} /\ RingCap \in Nat \ {0} /\ SeqRange \in Nat \ {0}
    /\ MaxAge \in Nat /\ MaxClock \in Nat /\ MaxFrames \in Nat
BY TrackerAssumption

LEMMA QueueTyped ==
  ASSUME NEW p \in PerStream
  PROVE  /\ QueueOf(p) \in Seq(Entries) /\ Len(QueueOf(p)) = p.pendingSize
         /\ p.pendingSize \in 0..PendingCap /\ p.pendingHead \in 0..(PendingCap - 1)
         /\ \A i \in 1..p.pendingSize :
              /\ QueueOf(p)[i] = p.pending[Slot(p, i - 1)]
              /\ Slot(p, i - 1) \in 0..(PendingCap - 1)
<1>1. /\ p.pendingSize \in 0..PendingCap /\ p.pendingHead \in 0..(PendingCap - 1)
      /\ p.pending \in [0..(PendingCap - 1) -> Entries]
  BY DEF PerStream
<1>2. PICK n \in 0..PendingCap : n = p.pendingSize
  BY <1>1
<1>3. ASSUME NEW i \in 1..n
      PROVE  Slot(p, i - 1) \in 0..(PendingCap - 1) /\ Waiting(p, i - 1) \in Entries
  <2>1. i - 1 \in 0..PendingCap
    BY Capacities
  <2>2. Slot(p, i - 1) \in 0..(PendingCap - 1)
    BY <1>1, <2>1, SlotIs
  <2> QED BY <1>1, <2>2 DEF Waiting
<1>4. QueueOf(p) = [i \in 1..n |-> Waiting(p, i - 1)]
  BY <1>2 DEF QueueOf
<1>5. QueueOf(p) \in Seq(Entries) /\ Len(QueueOf(p)) = n
  BY <1>3, <1>4, Capacities
<1>6. \A i \in 1..n : QueueOf(p)[i] = p.pending[Slot(p, i - 1)]
  BY <1>4 DEF Waiting
<1> QED BY <1>1, <1>2, <1>3, <1>5, <1>6

\* The frames at the front that are too old are as many as Aged says.
LEMMA AgedIs ==
  ASSUME NEW p \in PerStream
  PROVE  /\ Aged(p) \in 0..p.pendingSize
         /\ \A i \in 0..(Aged(p) - 1) : TooOld(p, i)
         /\ Aged(p) < p.pendingSize => ~TooOld(p, Aged(p))
<1>1. PICK n \in Nat : n = p.pendingSize
  BY Capacities DEF PerStream
<1> DEFINE U == {k \in 0..n : k = n \/ ~TooOld(p, k)}
<1>2. U \in SUBSET Nat /\ n \in U
  OBVIOUS
<1>3. PICK k \in U : \A j \in U : k <= j
  BY <1>2, Least
<1>4. k \in 0..n /\ (k < n => ~TooOld(p, k))
  OBVIOUS
<1>5. \A i \in 0..(k - 1) : TooOld(p, i)
  <2> SUFFICES ASSUME NEW i \in 0..(k - 1), ~TooOld(p, i) PROVE FALSE
    OBVIOUS
  <2>1. i \in U
    BY <1>4
  <2> QED BY <1>3, <1>4, <2>1
<1> HIDE DEF U
<1>6. \E m \in 0..p.pendingSize :
        /\ \A i \in 0..(m - 1) : TooOld(p, i)
        /\ m < p.pendingSize => ~TooOld(p, m)
  BY <1>1, <1>4, <1>5
<1> QED BY <1>6, Zenon DEF Aged

LEMMA EvictedIs ==
  ASSUME NEW p \in PerStream
  PROVE  /\ Evicted(p) \in 0..p.pendingSize
         /\ p.pendingSize - Evicted(p) < PendingCap
         /\ Evicted(p) = Aged(p) + (IF p.pendingSize - Aged(p) = PendingCap THEN 1 ELSE 0)
<1>1. PICK n \in 0..PendingCap : n = p.pendingSize
  BY DEF PerStream
<1>2. PICK a \in 0..n : a = Aged(p)
  BY <1>1, AgedIs
<1>3. Evicted(p) = a + (IF n - a = PendingCap THEN 1 ELSE 0)
  BY <1>1, <1>2 DEF Evicted
<1> QED BY <1>1, <1>2, <1>3, Capacities

LEMMA EnteredTyped ==
  ASSUME NEW p \in PerStream, NEW frame \in 0..MaxFrames, now \in 0..MaxClock
  PROVE  LET e == Entered(p, frame) v == Evicted(p) IN
         /\ e \in PerStream
         /\ e.pendingHead = Slot(p, v) /\ e.pendingSize = p.pendingSize - v + 1
         /\ Slot(p, p.pendingSize) \in 0..(PendingCap - 1)
         /\ e.pending = [p.pending EXCEPT ![Slot(p, p.pendingSize)] = [num |-> frame, start |-> now]]
         /\ e.ring = p.ring /\ e.ringHead = p.ringHead /\ e.ringCount = p.ringCount
         /\ e.evicted = p.evicted + v /\ e.desync = p.desync
<1>1. PICK n \in 0..PendingCap : n = p.pendingSize
  BY DEF PerStream
<1>2. PICK v \in 0..n : v = Evicted(p) /\ n - v < PendingCap
  BY <1>1, EvictedIs
<1>3. p.pendingHead \in 0..(PendingCap - 1)
  BY DEF PerStream
<1>4. (Slot(p, v) + (n - v)) % PendingCap = Slot(p, n)
  <2>1. PICK h \in 0..(PendingCap - 1) : h = p.pendingHead
    BY <1>3
  <2>2. v \in 0..PendingCap /\ n - v \in 0..PendingCap /\ v + (n - v) = n /\ n <= PendingCap
    BY <1>1, <1>2, Capacities
  <2>3. Slot(p, v) = Around(PendingCap, h, v) /\ Slot(p, n) = Around(PendingCap, h, n)
    BY <2>1, <2>2, <1>3, SlotIs
  <2>4. (Around(PendingCap, h, v) + (n - v)) % PendingCap = Around(PendingCap, h, v + (n - v))
    BY <2>2, Capacities, AroundsMove
  <2> QED BY <2>2, <2>3, <2>4
<1>5. Slot(p, n) \in 0..(PendingCap - 1) /\ Slot(p, v) \in 0..(PendingCap - 1)
  BY <1>1, <1>2, <1>3, SlotIs, Capacities
<1>6. [num |-> frame, start |-> now] \in Entries
  BY DEF Entries
<1>7. Entered(p, frame) =
        [p EXCEPT !.pendingHead = Slot(p, v), !.pendingSize = n - v + 1,
                  !.pending[Slot(p, n)] = [num |-> frame, start |-> now],
                  !.evicted = @ + v]
  BY <1>1, <1>2, <1>4 DEF Entered
<1>8. PICK w \in Nat : w = p.evicted
  BY DEF PerStream
<1>9. n - v + 1 \in 0..PendingCap /\ w + v \in Nat
  BY <1>1, <1>2, Capacities
<1> DEFINE cells == [p.pending EXCEPT ![Slot(p, n)] = [num |-> frame, start |-> now]]
<1>10. cells \in [0..(PendingCap - 1) -> Entries]
  BY <1>5, <1>6 DEF PerStream
<1>11. Entered(p, frame) =
        [p EXCEPT !.pendingHead = Slot(p, v), !.pendingSize = n - v + 1,
                  !.pending = cells, !.evicted = w + v]
  BY <1>7, <1>8 DEF PerStream
<1> HIDE DEF cells
<1>12. /\ Entered(p, frame) \in PerStream
       /\ Entered(p, frame).pendingHead = Slot(p, v)
       /\ Entered(p, frame).pendingSize = n - v + 1
       /\ Entered(p, frame).pending = cells
       /\ Entered(p, frame).evicted = w + v
       /\ Entered(p, frame).desync = p.desync
       /\ Entered(p, frame).ring = p.ring
       /\ Entered(p, frame).ringHead = p.ringHead
       /\ Entered(p, frame).ringCount = p.ringCount
  BY <1>5, <1>9, <1>10, <1>11 DEF PerStream
<1> QED BY <1>1, <1>2, <1>5, <1>8, <1>12 DEF cells

\* What on_latency_begin makes of the queue.
LEMMA EnteredQueue ==
  ASSUME NEW p \in PerStream, NEW frame \in 0..MaxFrames, now \in 0..MaxClock,
         NEW n \in Nat, n = p.pendingSize, NEW v \in Nat, v = Evicted(p)
  PROVE  LET q == QueueOf(p) r == QueueOf(Entered(p, frame)) IN
         /\ v <= n /\ n - v < PendingCap
         /\ Len(r) = n - v + 1
         /\ \A i \in 1..(n - v) : r[i] = q[v + i]
         /\ r[n - v + 1] = [num |-> frame, start |-> now]
<1> DEFINE e == Entered(p, frame)
           new == [num |-> frame, start |-> now]
<1>1. v <= n /\ n - v < PendingCap /\ n <= PendingCap /\ PendingCap \in Nat \ {0}
  BY EvictedIs, Capacities DEF PerStream
<1>2. /\ e \in PerStream /\ e.pendingHead = Slot(p, v) /\ e.pendingSize = n - v + 1
      /\ Slot(p, n) \in 0..(PendingCap - 1)
      /\ e.pending = [p.pending EXCEPT ![Slot(p, n)] = new]
  BY EnteredTyped
<1>3. PICK h \in 0..(PendingCap - 1) : h = p.pendingHead
  BY DEF PerStream
<1>4. /\ p.pending \in [0..(PendingCap - 1) -> Entries]
      /\ p.pendingHead \in 0..(PendingCap - 1)
  BY DEF PerStream
<1> HIDE DEF e
<1>5. /\ Len(QueueOf(e)) = n - v + 1
      /\ \A i \in 1..(n - v + 1) : QueueOf(e)[i] = e.pending[Slot(e, i - 1)]
  BY <1>2, QueueTyped
<1>6. ASSUME NEW i \in 1..(n - v + 1)
      PROVE  Slot(e, i - 1) = Slot(p, v + (i - 1))
  <2>1. v \in 0..PendingCap /\ i - 1 \in 0..PendingCap /\ v + (i - 1) <= PendingCap
    BY <1>1
  <2>2. (Around(PendingCap, h, v) + (i - 1)) % PendingCap = Around(PendingCap, h, v + (i - 1))
    BY <1>1, <2>1, AroundsMove
  <2>3. v + (i - 1) \in 0..PendingCap
    BY <1>1, <2>1
  <2>4. Slot(p, v) = Around(PendingCap, h, v)
        /\ Slot(p, v + (i - 1)) = Around(PendingCap, h, v + (i - 1))
    BY <1>3, <1>4, <2>1, <2>3, SlotIs
  <2> QED BY <1>2, <2>2, <2>4 DEF Slot
<1>7. QueueOf(e)[n - v + 1] = new
  <2>1. n - v + 1 \in 1..(n - v + 1) /\ v + ((n - v + 1) - 1) = n
    BY <1>1
  <2>2. QueueOf(e)[n - v + 1] = e.pending[Slot(p, n)]
    BY <1>5, <1>6, <2>1
  <2> QED BY <1>2, <1>4, <2>2
<1>8. ASSUME NEW i \in 1..(n - v)
      PROVE  QueueOf(e)[i] = QueueOf(p)[v + i]
  <2>1. PICK m \in 0..PendingCap : m = v + (i - 1)
    BY <1>1
  <2>3. Slot(p, m) # Slot(p, n) /\ Slot(p, m) \in 0..(PendingCap - 1)
    <3>1. n \in 0..PendingCap /\ m < n /\ n - m < PendingCap
      BY <1>1, <2>1
    <3>2. Around(PendingCap, h, m) # Around(PendingCap, h, n)
      BY <1>1, <3>1, AroundsDiffer
    <3> QED BY <1>3, <1>4, <3>1, <3>2, SlotIs
  <2>4. i \in 1..(n - v + 1)
    BY <1>1
  <2>5. QueueOf(e)[i] = p.pending[Slot(p, m)]
    <3>1. QueueOf(e)[i] = e.pending[Slot(e, i - 1)] /\ Slot(e, i - 1) = Slot(p, m)
      BY <1>5, <1>6, <2>1, <2>4
    <3> HIDE DEF new
    <3>2. e.pending[Slot(p, m)] = p.pending[Slot(p, m)]
      BY <1>2, <1>4, <2>3
    <3> QED BY <3>1, <3>2
  <2>6. v + i \in 1..p.pendingSize /\ (v + i) - 1 = m
    BY <1>1, <2>1
  <2>7. QueueOf(p)[v + i] = p.pending[Slot(p, (v + i) - 1)]
    BY <2>6, QueueTyped
  <2> QED BY <2>5, <2>6, <2>7
<1> QED BY <1>1, <1>5, <1>7, <1>8 DEF e

LEMMA WithoutTyped ==
  ASSUME NEW p \in PerStream, NEW found \in 0..(p.pendingSize - 1)
  PROVE  LET w == Without(p, found) IN
         /\ w \in PerStream
         /\ w.pendingHead = Slot(p, 1) /\ w.pendingSize = p.pendingSize - 1
         /\ w.pending = [k \in 0..(PendingCap - 1) |->
                           IF \E i \in 1..found : k = Slot(p, i)
                             THEN p.pending[(k + PendingCap - 1) % PendingCap]
                             ELSE p.pending[k]]
         /\ w.ring = p.ring /\ w.ringHead = p.ringHead /\ w.ringCount = p.ringCount
         /\ w.evicted = p.evicted /\ w.desync = p.desync
<1> DEFINE cells == [k \in 0..(PendingCap - 1) |->
                       IF \E i \in 1..found : k = Slot(p, i)
                         THEN p.pending[(k + PendingCap - 1) % PendingCap]
                         ELSE p.pending[k]]
<1>1. /\ p.pending \in [0..(PendingCap - 1) -> Entries] /\ PendingCap \in Nat \ {0}
      /\ p.pendingHead \in 0..(PendingCap - 1)
  BY Capacities DEF PerStream
<1>2. PICK n \in 1..PendingCap : n = p.pendingSize
  BY <1>1 DEF PerStream
<1>3. Slot(p, 1) \in 0..(PendingCap - 1) /\ n - 1 \in 0..PendingCap
  BY <1>1, <1>2, SlotIs
<1>4. cells \in [0..(PendingCap - 1) -> Entries]
  <2>1. \A k \in 0..(PendingCap - 1) : (k + PendingCap - 1) % PendingCap \in 0..(PendingCap - 1)
    BY <1>1
  <2> QED BY <1>1, <2>1
<1>5. Without(p, found) =
        [p EXCEPT !.pending = cells, !.pendingHead = Slot(p, 1), !.pendingSize = n - 1]
  BY <1>1, <1>2 DEF Without
<1> HIDE DEF cells
<1>6. /\ Without(p, found) \in PerStream
      /\ Without(p, found).pendingHead = Slot(p, 1)
      /\ Without(p, found).pendingSize = n - 1
      /\ Without(p, found).pending = cells
      /\ Without(p, found).evicted = p.evicted
      /\ Without(p, found).desync = p.desync
      /\ Without(p, found).ring = p.ring
      /\ Without(p, found).ringHead = p.ringHead
      /\ Without(p, found).ringCount = p.ringCount
  BY <1>3, <1>4, <1>5 DEF PerStream
<1> QED BY <1>2, <1>6 DEF cells

\* What on_latency_end takes out of the queue.
LEMMA WithoutQueue ==
  ASSUME NEW p \in PerStream, NEW found \in 0..(p.pendingSize - 1)
  PROVE  QueueOf(Without(p, found)) = RemoveAt(QueueOf(p), found + 1)
<1> DEFINE w == Without(p, found)
           q == QueueOf(p)
<1>1. /\ w \in PerStream
      /\ w.pendingHead = Slot(p, 1) /\ w.pendingSize = p.pendingSize - 1
      /\ w.pending = [k \in 0..(PendingCap - 1) |->
                        IF \E i \in 1..found : k = Slot(p, i)
                          THEN p.pending[(k + PendingCap - 1) % PendingCap]
                          ELSE p.pending[k]]
  BY WithoutTyped
<1>2. PICK h \in 0..(PendingCap - 1) : h = p.pendingHead
  BY DEF PerStream
<1>3. PICK n \in 1..PendingCap : n = p.pendingSize
  BY Capacities DEF PerStream
<1>4. PendingCap \in Nat \ {0}
  BY Capacities
<1>5. q \in Seq(Entries) /\ Len(q) = n
      /\ \A i \in 1..n : q[i] = p.pending[Slot(p, i - 1)]
  BY <1>3, QueueTyped
<1> HIDE DEF w, q
<1>6. QueueOf(w) \in Seq(Entries) /\ Len(QueueOf(w)) = n - 1
      /\ \A i \in 1..(n - 1) : QueueOf(w)[i] = w.pending[Slot(w, i - 1)]
  BY <1>1, <1>3, QueueTyped
<1>7. /\ RemoveAt(q, found + 1) \in Seq(Entries) /\ Len(RemoveAt(q, found + 1)) = n - 1
      /\ \A i \in 1..(n - 1) :
           RemoveAt(q, found + 1)[i] = IF i < found + 1 THEN q[i] ELSE q[i + 1]
  <2>1. found + 1 \in 1..Len(q)
    BY <1>3, <1>5
  <2> QED BY <1>5, <2>1, RemovedIs
<1>8. ASSUME NEW i \in 1..(n - 1)
      PROVE  QueueOf(w)[i] = IF i < found + 1 THEN q[i] ELSE q[i + 1]
  <2>1. i \in 0..PendingCap /\ i - 1 \in 0..PendingCap /\ 1 + (i - 1) = i /\ 1 \in 0..PendingCap
    BY <1>3, <1>4
  <2>2. /\ Slot(p, i) = Around(PendingCap, h, i) /\ Slot(p, i) \in 0..(PendingCap - 1)
        /\ Slot(p, 1) = Around(PendingCap, h, 1)
        /\ Slot(p, i - 1) = Around(PendingCap, h, i - 1)
    BY <1>2, <2>1, SlotIs
  <2>3. (Around(PendingCap, h, 1) + (i - 1)) % PendingCap = Around(PendingCap, h, 1 + (i - 1))
    BY <1>4, <2>1, AroundsMove
  <2>4. Slot(w, i - 1) = Slot(p, i)
    BY <1>1, <2>1, <2>2, <2>3 DEF Slot
  <2>5. QueueOf(w)[i] = IF \E j \in 1..found : Slot(p, i) = Slot(p, j)
                          THEN p.pending[(Slot(p, i) + PendingCap - 1) % PendingCap]
                          ELSE p.pending[Slot(p, i)]
    BY <1>1, <1>6, <2>2, <2>4
  <2>6. CASE i < found + 1
    <3>1. i \in 1..found
      BY <2>6
    <3>2. (Slot(p, i) + PendingCap - 1) % PendingCap = Slot(p, i - 1)
      <4>1. i > 0 /\ 0 \in 0..PendingCap /\ 0 + i <= PendingCap
        BY <1>3, <1>4
      <4>2. (Around(PendingCap, h, i) + PendingCap - 1) % PendingCap = Around(PendingCap, h, i - 1)
        BY <1>4, <2>1, <4>1, AroundsMove
      <4> QED BY <2>2, <4>2
    <3>3. QueueOf(w)[i] = p.pending[Slot(p, i - 1)]
      BY <2>5, <3>1, <3>2
    <3> QED BY <1>3, <1>5, <2>6, <3>3
  <2>7. CASE ~(i < found + 1)
    <3>1. ASSUME NEW j \in 1..found
          PROVE  Slot(p, i) # Slot(p, j)
      <4>1. j \in 0..PendingCap /\ j < i /\ i - j < PendingCap
        BY <1>3, <1>4, <2>7
      <4>2. Around(PendingCap, h, j) # Around(PendingCap, h, i)
        BY <1>4, <2>1, <4>1, AroundsDiffer
      <4>3. Slot(p, j) = Around(PendingCap, h, j)
        BY <1>2, <4>1, SlotIs
      <4> QED BY <2>2, <4>2, <4>3
    <3>2. QueueOf(w)[i] = p.pending[Slot(p, i)]
      BY <2>5, <3>1
    <3>3. i + 1 \in 1..n /\ (i + 1) - 1 = i
      BY <1>3
    <3>4. q[i + 1] = p.pending[Slot(p, i)]
      BY <1>5, <3>3
    <3> QED BY <2>7, <3>2, <3>4
  <2> QED BY <2>6, <2>7
<1>9. \A i \in 1..(n - 1) : QueueOf(w)[i] = RemoveAt(q, found + 1)[i]
  BY <1>7, <1>8
<1>10. QueueOf(w) = RemoveAt(q, found + 1)
  BY <1>6, <1>7, <1>9, SeqEqual
<1> QED BY <1>10 DEF w, q

------------------------------------------------------------------------------
(* The samples in the ring *)

LEMMA RecentTyped ==
  ASSUME NEW p \in PerStream, NEW c \in Nat, c = p.ringCount
  PROVE  /\ RecentOf(p) \in Seq(Samples) /\ Len(RecentOf(p)) = c
         /\ c <= RingCap /\ p.ringHead \in 0..(RingCap - 1)
         /\ p.ring \in [0..(RingCap - 1) -> Samples]
         /\ \A i \in 1..c :
              RecentOf(p)[i] = p.ring[Around(RingCap, p.ringHead, RingCap - c + (i - 1))]
<1>1. /\ p.ringCount \in 0..RingCap /\ p.ringHead \in 0..(RingCap - 1)
      /\ p.ring \in [0..(RingCap - 1) -> Samples] /\ RingCap \in Nat \ {0}
  BY Capacities DEF PerStream
<1>2. PICK h \in 0..(RingCap - 1) : h = p.ringHead
  BY <1>1
<1>3. ASSUME NEW i \in 1..c
      PROVE  /\ (h + RingCap - c + i - 1) % RingCap = Around(RingCap, h, RingCap - c + (i - 1))
             /\ Around(RingCap, h, RingCap - c + (i - 1)) \in 0..(RingCap - 1)
  <2>1. PICK j \in 0..RingCap : j = RingCap - c + (i - 1)
    BY <1>1
  <2>2. (h + j) % RingCap = Around(RingCap, h, j) /\ Around(RingCap, h, j) \in 0..(RingCap - 1)
    BY <1>1, AroundIs
  <2>3. h + RingCap - c + i - 1 = h + j
    BY <1>1, <2>1
  <2> QED BY <2>1, <2>2, <2>3
<1>4. RecentOf(p) = [i \in 1..c |-> p.ring[(h + RingCap - c + i - 1) % RingCap]]
  BY <1>2 DEF RecentOf
<1>5. RecentOf(p) = [i \in 1..c |-> p.ring[Around(RingCap, h, RingCap - c + (i - 1))]]
  BY <1>3, <1>4
<1>6. \A i \in 1..c : p.ring[Around(RingCap, h, RingCap - c + (i - 1))] \in Samples
  BY <1>1, <1>3
<1>7. RecentOf(p) \in Seq(Samples) /\ Len(RecentOf(p)) = c
  BY <1>5, <1>6
<1> QED BY <1>1, <1>2, <1>5, <1>7

LEMMA SampledTyped ==
  ASSUME NEW p \in PerStream, NEW seq \in Nat, NEW latency \in Nat
  PROVE  LET r == Sampled(p, seq, latency) sample == [seq |-> seq % SeqRange, latency |-> latency] IN
         /\ r \in PerStream /\ sample \in Samples
         /\ r.ringHead = Around(RingCap, p.ringHead, 1)
         /\ r.ringCount = (IF p.ringCount < RingCap THEN p.ringCount + 1 ELSE p.ringCount)
         /\ r.ring = [p.ring EXCEPT ![p.ringHead] = sample]
         /\ r.pending = p.pending /\ r.pendingHead = p.pendingHead
         /\ r.pendingSize = p.pendingSize
         /\ r.evicted = p.evicted /\ r.desync = p.desync
<1> DEFINE sample == [seq |-> seq % SeqRange, latency |-> latency]
           ring == [p.ring EXCEPT ![p.ringHead] = sample]
           r == Sampled(p, seq, latency)
<1>1. RingCap \in Nat \ {0} /\ SeqRange \in Nat \ {0}
  BY Capacities
<1>2. seq % SeqRange \in 0..(SeqRange - 1)
  BY <1>1
<1>3. sample \in Samples
  BY <1>2 DEF Samples
<1>4. PICK h \in 0..(RingCap - 1) : h = p.ringHead
  BY DEF PerStream
<1>5. PICK c \in 0..RingCap : c = p.ringCount
  BY DEF PerStream
<1>6. (h + 1) % RingCap = Around(RingCap, h, 1) /\ Around(RingCap, h, 1) \in 0..(RingCap - 1)
  BY <1>1, AroundIs
<1> HIDE DEF sample
<1>7. ring \in [0..(RingCap - 1) -> Samples]
  BY <1>3, <1>4 DEF PerStream
<1>8. PICK d \in 0..RingCap : d = IF c < RingCap THEN c + 1 ELSE c
  BY <1>1
<1>9. r = [p EXCEPT !.ring = ring, !.ringHead = Around(RingCap, h, 1), !.ringCount = d]
  BY <1>4, <1>5, <1>6, <1>8 DEF Sampled, PerStream, sample
<1> HIDE DEF ring, r
<1>10. /\ r \in PerStream
       /\ r.ring = ring /\ r.ringHead = Around(RingCap, h, 1) /\ r.ringCount = d
       /\ r.pending = p.pending /\ r.pendingHead = p.pendingHead
       /\ r.pendingSize = p.pendingSize
       /\ r.evicted = p.evicted /\ r.desync = p.desync
  BY <1>6, <1>7, <1>9 DEF PerStream
<1> QED BY <1>3, <1>4, <1>5, <1>8, <1>10 DEF r, ring, sample

\* What on_latency_end adds to the ring.
LEMMA SampledRecent ==
  ASSUME NEW p \in PerStream, NEW seq \in Nat, NEW latency \in Nat,
         NEW c \in Nat, c = p.ringCount
  PROVE  LET r == RecentOf(Sampled(p, seq, latency))
             sample == [seq |-> seq % SeqRange, latency |-> latency]
         IN  /\ c < RingCap => /\ Len(r) = c + 1
                               /\ \A i \in 1..c : r[i] = RecentOf(p)[i]
                               /\ r[c + 1] = sample
             /\ c = RingCap => /\ Len(r) = c
                               /\ \A i \in 1..(c - 1) : r[i] = RecentOf(p)[i + 1]
                               /\ r[c] = sample
<1> DEFINE sample == [seq |-> seq % SeqRange, latency |-> latency]
           s == Sampled(p, seq, latency)
           d == IF c < RingCap THEN c + 1 ELSE c
<1>1. RingCap \in Nat \ {0} /\ c <= RingCap /\ d \in 1..RingCap
  BY Capacities, RecentTyped
<1>2. /\ s \in PerStream /\ sample \in Samples
      /\ s.ringHead = Around(RingCap, p.ringHead, 1)
      /\ s.ringCount = d
      /\ s.ring = [p.ring EXCEPT ![p.ringHead] = sample]
  BY SampledTyped
<1>3. /\ p.ringHead \in 0..(RingCap - 1) /\ p.ring \in [0..(RingCap - 1) -> Samples]
      /\ \A i \in 1..c :
           RecentOf(p)[i] = p.ring[Around(RingCap, p.ringHead, RingCap - c + (i - 1))]
  BY RecentTyped
<1>4. PICK h \in 0..(RingCap - 1) : h = p.ringHead
  BY <1>3
<1> HIDE DEF s, d, sample
<1>5. /\ Len(RecentOf(s)) = d
      /\ \A i \in 1..d :
           RecentOf(s)[i] = s.ring[Around(RingCap, s.ringHead, RingCap - d + (i - 1))]
  <2>1. d \in Nat /\ d = s.ringCount /\ s \in PerStream
    BY <1>1, <1>2
  <2> QED BY <2>1, RecentTyped
<1>6. ASSUME NEW i \in 1..d
      PROVE  RecentOf(s)[i] = s.ring[Around(RingCap, h, RingCap - d + i)]
  <2>1. PICK j \in 0..RingCap : j = RingCap - d + (i - 1) /\ 1 + j <= RingCap
    BY <1>1
  <2>2. Around(RingCap, h, 1) \in 0..(RingCap - 1) /\ 1 \in 0..RingCap
    BY <1>1, AroundIs
  <2>3. (Around(RingCap, h, 1) + j) % RingCap = Around(RingCap, h, 1 + j)
    BY <1>1, <2>1, <2>2, AroundsMove
  <2>4. (Around(RingCap, h, 1) + j) % RingCap = Around(RingCap, Around(RingCap, h, 1), j)
    BY <1>1, <2>2, AroundIs
  <2>5. 1 + j = RingCap - d + i
    BY <1>1, <2>1
  <2> QED BY <1>2, <1>4, <1>5, <2>1, <2>3, <2>4, <2>5
<1>7. RecentOf(s)[d] = sample
  <2>1. d \in 1..d /\ RingCap - d + d = RingCap
    BY <1>1
  <2>2. Around(RingCap, h, RingCap) = h
    BY <1>1 DEF Around
  <2>3. s.ring[h] = sample
    BY <1>2, <1>3, <1>4
  <2> QED BY <1>6, <2>1, <2>2, <2>3
<1>8. ASSUME NEW i \in 1..(d - 1)
      PROVE  RecentOf(s)[i] = p.ring[Around(RingCap, h, RingCap - d + i)]
  <2>1. PICK j \in 1..(RingCap - 1) : j = RingCap - d + i
    BY <1>1
  <2>2. Around(RingCap, h, j) \in 0..(RingCap - 1)
    <3>1. j \in 0..RingCap
      BY <1>1
    <3> QED BY <1>1, <3>1, AroundIs
  <2>3. Around(RingCap, h, 0) # Around(RingCap, h, j)
    BY <1>1, <2>1, AroundsDiffer
  <2>4. Around(RingCap, h, 0) = h
    BY <1>1 DEF Around
  <2>5. s.ring[Around(RingCap, h, j)] = p.ring[Around(RingCap, h, j)]
    BY <1>2, <1>3, <1>4, <2>2, <2>3, <2>4
  <2>6. i \in 1..d
    BY <1>1
  <2> QED BY <1>6, <2>1, <2>5, <2>6
<1>9. CASE c < RingCap
  <2>1. d = c + 1
    BY <1>9 DEF d
  <2>2. ASSUME NEW i \in 1..c
        PROVE  RecentOf(s)[i] = RecentOf(p)[i]
    <3>1. i \in 1..(d - 1) /\ RingCap - d + i = RingCap - c + (i - 1)
      BY <1>1, <2>1
    <3> QED BY <1>3, <1>4, <1>8, <3>1
  <2> QED BY <1>5, <1>7, <1>9, <2>1, <2>2 DEF s, sample
<1>10. CASE c = RingCap
  <2>1. d = c
    BY <1>10 DEF d
  <2>2. ASSUME NEW i \in 1..(c - 1)
        PROVE  RecentOf(s)[i] = RecentOf(p)[i + 1]
    <3>1. i \in 1..(d - 1) /\ RingCap - d + i = RingCap - c + ((i + 1) - 1) /\ i + 1 \in 1..c
      BY <1>1, <2>1
    <3> QED BY <1>3, <1>4, <1>8, <3>1
  <2> QED BY <1>5, <1>7, <1>10, <2>1, <2>2 DEF s, sample
<1> QED BY <1>1, <1>9, <1>10 DEF s, sample

------------------------------------------------------------------------------
(* Types *)

WorldType ==
  /\ flying \in [Streams -> Seq(Entries)] /\ lost \in [Streams -> SUBSET Entries]
  /\ nextNum \in [Streams -> Nat] /\ frames \in 0..MaxFrames
  /\ \A s \in Streams : nextNum[s] <= frames
  /\ made \in [Streams -> [total : Nat, opened : Nat]]

\* A queue is in the order of its frames, none of which begins later than now.
InOrder(q) ==
  /\ \A i, j \in DOMAIN q : i <= j => q[i].start <= q[j].start
  /\ \A i \in DOMAIN q : q[i].start <= now

Ordered == \A s \in Streams : InOrder(QueueOf(ps[s]))

Safe == TypeOK /\ WorldType /\ Ordered

LEMMA SameQueue ==
  ASSUME NEW p, NEW r, r.pending = p.pending, r.pendingHead = p.pendingHead,
         r.pendingSize = p.pendingSize
  PROVE  QueueOf(r) = QueueOf(p)
BY DEF QueueOf, Waiting, Slot

LEMMA SameRecent ==
  ASSUME NEW p, NEW r, r.ring = p.ring, r.ringHead = p.ringHead, r.ringCount = p.ringCount
  PROVE  RecentOf(r) = RecentOf(p)
BY DEF RecentOf

\* The step of on_input_probe.
LEMMA BeginStep ==
  ASSUME Safe, NEW s \in Streams, BeginLatency(s)
  PROVE  LET frame == [num |-> nextNum[s], start |-> now] IN
         /\ ps' = [ps EXCEPT ![s] = Entered(ps[s], nextNum[s])]
         /\ ps[s] \in PerStream /\ nextNum[s] \in 0..MaxFrames /\ now \in 0..MaxClock
         /\ frame \in Entries
         /\ flying' = [flying EXCEPT ![s] = Append(flying[s], frame)]
         /\ ps' \in [Streams -> PerStream]
         /\ RecentOf(ps'[s]) = RecentOf(ps[s]) /\ ps'[s].desync = ps[s].desync
         /\ ps'[s].ringCount = ps[s].ringCount
<1>1. /\ ps' = [ps EXCEPT ![s] = Entered(ps[s], nextNum[s])]
      /\ flying' = [flying EXCEPT ![s] = Append(flying[s], [num |-> nextNum[s], start |-> now])]
      /\ frames < MaxFrames
  BY DEF BeginLatency
<1>2. ps \in [Streams -> PerStream] /\ ps[s] \in PerStream /\ now \in 0..MaxClock
  BY DEF Safe, TypeOK
<1>3. nextNum[s] \in 0..MaxFrames
  BY <1>1, Capacities DEF Safe, WorldType
<1>4. [num |-> nextNum[s], start |-> now] \in Entries
  BY <1>2, <1>3 DEF Entries
<1>5. /\ Entered(ps[s], nextNum[s]) \in PerStream
      /\ Entered(ps[s], nextNum[s]).ring = ps[s].ring
      /\ Entered(ps[s], nextNum[s]).ringHead = ps[s].ringHead
      /\ Entered(ps[s], nextNum[s]).ringCount = ps[s].ringCount
      /\ Entered(ps[s], nextNum[s]).desync = ps[s].desync
  BY <1>2, <1>3, EnteredTyped
<1>6. ps' \in [Streams -> PerStream] /\ ps'[s] = Entered(ps[s], nextNum[s])
  BY <1>1, <1>2, <1>5
<1>7. RecentOf(ps'[s]) = RecentOf(ps[s])
  BY <1>5, <1>6, SameRecent
<1> QED BY <1>1, <1>2, <1>3, <1>4, <1>5, <1>6, <1>7

\* The frame that has ended is the oldest of its number in the queue, or in none.
EndMisses(s, frame) ==
  /\ \A i \in DOMAIN QueueOf(ps[s]) : QueueOf(ps[s])[i].num # frame
  /\ ps' = [ps EXCEPT ![s] = [ps[s] EXCEPT !.desync = ps[s].desync + 1]]
  /\ QueueOf(ps'[s]) = QueueOf(ps[s]) /\ RecentOf(ps'[s]) = RecentOf(ps[s])
  /\ ps'[s].evicted = ps[s].evicted /\ ps'[s].ringCount = ps[s].ringCount
  /\ ps'[s].desync = ps[s].desync + 1
  /\ UNCHANGED <<watermark, made>>

EndPairs(s, frame, k) ==
  /\ QueueOf(ps[s])[k].num = frame
  /\ \A j \in 1..(k - 1) : QueueOf(ps[s])[j].num # frame
  /\ watermark' = watermark + 1
  /\ now - QueueOf(ps[s])[k].start \in Nat
  /\ Without(ps[s], k - 1) \in PerStream
  /\ Without(ps[s], k - 1).ringCount = ps[s].ringCount
  /\ RecentOf(Without(ps[s], k - 1)) = RecentOf(ps[s])
  /\ ps' = [ps EXCEPT ![s] = Sampled(Without(ps[s], k - 1), watermark + 1,
                                     now - QueueOf(ps[s])[k].start)]
  /\ QueueOf(ps'[s]) = RemoveAt(QueueOf(ps[s]), k)
  /\ ps'[s].evicted = ps[s].evicted /\ ps'[s].desync = ps[s].desync
  /\ made' = [made EXCEPT ![s] = [made[s] EXCEPT !.total = made[s].total + 1]]

\* The step of on_output_probe.
LEMMA EndStep ==
  ASSUME Safe, NEW s \in Streams, EndLatency(s)
  PROVE  /\ ps' \in [Streams -> PerStream] /\ Head(flying[s]).num \in 0..MaxFrames
         /\ \/ EndMisses(s, Head(flying[s]).num)
            \/ \E k \in 1..Len(QueueOf(ps[s])) : EndPairs(s, Head(flying[s]).num, k)
<1> DEFINE frame == Head(flying[s]).num
           p == ps[s]
           q == QueueOf(p)
<1>1. ps \in [Streams -> PerStream] /\ p \in PerStream /\ watermark \in Nat /\ now \in Nat
  BY Capacities DEF Safe, TypeOK
<1>2. frame \in 0..MaxFrames
  <2>1. flying[s] \in Seq(Entries) /\ flying[s] # <<>>
    BY DEF Safe, WorldType, EndLatency
  <2>2. Head(flying[s]) \in Entries
    BY <2>1
  <2> QED BY <2>2 DEF Entries
<1>3. PICK n \in Nat : n = p.pendingSize
  BY <1>1, QueueTyped, Capacities
<1>4. q \in Seq(Entries) /\ Len(q) = n /\ InOrder(q)
  BY <1>1, <1>3, QueueTyped DEF Safe, Ordered
<1>5. \A i \in 1..n : q[i] = Waiting(p, i - 1)
  BY <1>1, <1>3, QueueTyped DEF Waiting
<1>6. Ended(s, frame)
  BY DEF EndLatency
<1>7. CASE Found(p, frame) = {}
  <2>1. ps' = [ps EXCEPT ![s].desync = @ + 1] /\ UNCHANGED <<watermark, made>>
    BY <1>6, <1>7 DEF Ended
  <2>2. PICK d \in Nat : d = p.desync
    BY <1>1 DEF PerStream
  <2>3. ps' = [ps EXCEPT ![s] = [p EXCEPT !.desync = d + 1]]
    BY <1>1, <2>1, <2>2
  <2>4. [p EXCEPT !.desync = d + 1] \in PerStream
    <3>1. d + 1 \in Nat
      BY <2>2
    <3> QED BY <1>1, <3>1 DEF PerStream
  <2>5. ps' \in [Streams -> PerStream] /\ ps'[s] = [p EXCEPT !.desync = d + 1]
    BY <1>1, <2>3, <2>4
  <2>6. /\ ps'[s].pending = p.pending /\ ps'[s].pendingHead = p.pendingHead
        /\ ps'[s].pendingSize = p.pendingSize /\ ps'[s].ring = p.ring
        /\ ps'[s].ringHead = p.ringHead /\ ps'[s].ringCount = p.ringCount
        /\ ps'[s].evicted = p.evicted /\ ps'[s].desync = d + 1
    BY <1>1, <2>5 DEF PerStream
  <2>7. QueueOf(ps'[s]) = q /\ RecentOf(ps'[s]) = RecentOf(p)
    BY <2>6, SameQueue, SameRecent
  <2>8. \A i \in 1..n : q[i].num # frame
    <3> SUFFICES ASSUME NEW i \in 1..n, q[i].num = frame PROVE FALSE
      OBVIOUS
    <3> DEFINE U == {j \in 1..n : q[j].num = frame}
    <3>1. U \in SUBSET Nat /\ i \in U
      OBVIOUS
    <3>2. PICK k \in U : \A j \in U : k <= j
      BY <3>1, Least
    <3>3. k \in 1..n /\ q[k].num = frame /\ \A j \in 1..(k - 1) : q[j].num # frame
      <4>1. ASSUME NEW j \in 1..(k - 1), q[j].num = frame PROVE FALSE
        <5>1. k \in 1..n
          OBVIOUS
        <5>2. j \in U /\ ~(k <= j)
          BY <4>1, <5>1
        <5> QED BY <3>2, <5>2
      <4> QED BY <4>1
    <3>4. k - 1 \in 0..(n - 1) /\ Waiting(p, k - 1).num = frame
      BY <1>5, <3>3
    <3>5. \A j \in 0..((k - 1) - 1) : Waiting(p, j).num # frame
      <4> SUFFICES ASSUME NEW j \in 0..((k - 1) - 1) PROVE Waiting(p, j).num # frame
        OBVIOUS
      <4>1. j + 1 \in 1..n /\ j + 1 \in 1..(k - 1) /\ (j + 1) - 1 = j
        BY <3>3
      <4> QED BY <1>5, <3>3, <4>1
    <3>6. k - 1 \in Found(p, frame)
      BY <1>3, <3>4, <3>5 DEF Found
    <3> QED BY <1>7, <3>6
  <2> QED BY <1>2, <1>4, <2>1, <2>2, <2>3, <2>5, <2>6, <2>7, <2>8 DEF EndMisses
<1>8. CASE Found(p, frame) # {}
  <2>1. PICK i \in Found(p, frame) :
          /\ watermark' = watermark + 1
          /\ ps' = [ps EXCEPT ![s] = Sampled(Without(@, i), watermark', now - Waiting(@, i).start)]
          /\ made' = [made EXCEPT ![s].total = @ + 1]
    BY <1>6, <1>8 DEF Ended
  <2>2. PICK k \in 1..n : k - 1 = i
    <3>1. i \in 0..(n - 1)
      BY <1>3 DEF Found
    <3>2. i + 1 \in 1..n /\ (i + 1) - 1 = i
      BY <3>1
    <3> QED BY <3>2
  <2>3. q[k].num = frame /\ \A j \in 1..(k - 1) : q[j].num # frame
    <3>1. Waiting(p, i).num = frame /\ \A j \in 0..(i - 1) : Waiting(p, j).num # frame
      BY DEF Found
    <3>2. ASSUME NEW j \in 1..(k - 1) PROVE q[j].num # frame
      <4>1. j \in 1..n /\ j - 1 \in 0..(i - 1)
        BY <2>2
      <4> QED BY <1>5, <3>1, <4>1
    <3> QED BY <1>5, <2>2, <3>1, <3>2
  <2>4. q[k] \in Entries /\ Waiting(p, i) = q[k]
    BY <1>4, <1>5, <2>2
  <2>5. now - q[k].start \in Nat
    <3>1. PICK b \in Nat : b = q[k].start
      BY <2>4, Capacities DEF Entries
    <3>2. b <= now
      BY <1>4, <3>1 DEF InOrder
    <3> QED BY <1>1, <3>1, <3>2
  <2>6. LET w == Without(p, i) IN
        /\ w \in PerStream /\ QueueOf(w) = RemoveAt(q, k)
        /\ w.ring = p.ring /\ w.ringHead = p.ringHead /\ w.ringCount = p.ringCount
        /\ w.evicted = p.evicted /\ w.desync = p.desync
    <3>1. i \in 0..(p.pendingSize - 1) /\ i + 1 = k
      BY <1>3, <2>2
    <3> QED BY <1>1, <3>1, WithoutTyped, WithoutQueue
  <2> DEFINE w == Without(p, i)
             l == now - q[k].start
             r == Sampled(w, watermark + 1, l)
  <2>7. RecentOf(w) = RecentOf(p)
    BY <2>6, SameRecent
  <2> HIDE DEF w, l
  <2>8. /\ r \in PerStream
        /\ r.pending = w.pending /\ r.pendingHead = w.pendingHead
        /\ r.pendingSize = w.pendingSize
        /\ r.evicted = w.evicted /\ r.desync = w.desync
    <3>1. w \in PerStream /\ watermark + 1 \in Nat /\ l \in Nat
      BY <1>1, <2>5, <2>6 DEF w, l
    <3> QED BY <3>1, SampledTyped
  <2> HIDE DEF r
  <2>9. QueueOf(r) = RemoveAt(q, k)
    BY <2>6, <2>8, SameQueue DEF w
  <2>10. ps' = [ps EXCEPT ![s] = r]
    BY <1>1, <2>1, <2>4 DEF w, l, r
  <2>11. ps' \in [Streams -> PerStream] /\ ps'[s] = r
    BY <1>1, <2>8, <2>10
  <2>12. made' = [made EXCEPT ![s] = [made[s] EXCEPT !.total = made[s].total + 1]]
    BY <2>1 DEF Safe, WorldType
  <2>13. EndPairs(s, frame, k)
    BY <2>1, <2>2, <2>3, <2>5, <2>6, <2>7, <2>8, <2>9, <2>10, <2>11, <2>12
       DEF EndPairs, w, l, r
  <2> QED BY <1>2, <1>4, <2>11, <2>13
<1> QED BY <1>7, <1>8


LEMMA TailTyped ==
  ASSUME NEW S, NEW seq \in Seq(S), seq # <<>>
  PROVE  /\ Head(seq) \in S /\ Tail(seq) \in Seq(S)
         /\ Head(seq) = seq[1] /\ Len(seq) \in Nat \ {0}
         /\ Len(Tail(seq)) = Len(seq) - 1
         /\ \A i \in 1..(Len(seq) - 1) : Tail(seq)[i] = seq[i + 1]
BY HeadTailProperties

LEMMA SafeInit == Init => Safe
<1> SUFFICES ASSUME Init PROVE Safe
  OBVIOUS
<1> DEFINE p == [pending |-> [i \in 0..(PendingCap - 1) |-> [num |-> 0, start |-> 0]],
                 pendingHead |-> 0, pendingSize |-> 0,
                 ring |-> [i \in 0..(RingCap - 1) |-> [seq |-> 0, latency |-> 0]],
                 ringHead |-> 0, ringCount |-> 0, evicted |-> 0, desync |-> 0]
<1>1. p \in PerStream
  <2>1. [num |-> 0, start |-> 0] \in Entries
    BY Capacities DEF Entries
  <2>2. [seq |-> 0, latency |-> 0] \in Samples
    BY Capacities DEF Samples
  <2>3. [i \in 0..(PendingCap - 1) |-> [num |-> 0, start |-> 0]] \in [0..(PendingCap - 1) -> Entries]
    BY <2>1
  <2>4. [i \in 0..(RingCap - 1) |-> [seq |-> 0, latency |-> 0]] \in [0..(RingCap - 1) -> Samples]
    BY <2>2
  <2>5. 0 \in 0..(PendingCap - 1) /\ 0 \in 0..(RingCap - 1) /\ 0 \in 0..PendingCap /\ 0 \in 0..RingCap
    BY Capacities
  <2> QED BY <2>3, <2>4, <2>5 DEF PerStream
<1>2. ps = [s \in Streams |-> p]
  BY DEF Init
<1>3. p.pendingSize = 0
  OBVIOUS
<1> HIDE DEF p
<1>4. TypeOK
  <2>1. ps \in [Streams -> PerStream]
    BY <1>1, <1>2
  <2>2. now = 0 /\ watermark = 0 /\ mark = 0
    BY DEF Init
  <2> QED BY <2>1, <2>2, Capacities DEF TypeOK
<1>5. WorldType
  BY Capacities DEF Init, WorldType
<1>6. Ordered
  <2> SUFFICES ASSUME NEW s \in Streams PROVE InOrder(QueueOf(ps[s]))
    BY DEF Ordered
  <2>1. QueueOf(p) \in Seq(Entries) /\ Len(QueueOf(p)) = 0
    BY <1>1, <1>3, QueueTyped
  <2>2. DOMAIN QueueOf(p) = {}
    BY <2>1
  <2> QED BY <1>2, <2>2 DEF InOrder
<1> QED BY <1>4, <1>5, <1>6 DEF Safe

LEMMA SafeBegin ==
  ASSUME Safe, NEW s \in Streams, BeginLatency(s)
  PROVE  Safe'
<1> DEFINE frame == [num |-> nextNum[s], start |-> now]
           p == ps[s]
           q == QueueOf(p)
           e == Entered(p, nextNum[s])
           r == QueueOf(e)
<1>1. /\ ps' = [ps EXCEPT ![s] = e]
      /\ p \in PerStream /\ nextNum[s] \in 0..MaxFrames /\ now \in 0..MaxClock
      /\ frame \in Entries
      /\ flying' = [flying EXCEPT ![s] = Append(flying[s], frame)]
      /\ ps' \in [Streams -> PerStream]
  BY BeginStep
<1>2. /\ UNCHANGED <<now, watermark, mark, made, restarts, lost>>
      /\ frames < MaxFrames /\ frames' = frames + 1
      /\ nextNum' = [nextNum EXCEPT ![s] = @ + 1]
  BY DEF BeginLatency
<1>3. ps \in [Streams -> PerStream]
  BY DEF Safe, TypeOK
<1>4. TypeOK'
  BY <1>1, <1>2 DEF Safe, TypeOK
<1>5. WorldType'
  <2>1. /\ flying \in [Streams -> Seq(Entries)] /\ lost \in [Streams -> SUBSET Entries]
        /\ nextNum \in [Streams -> Nat] /\ frames \in 0..MaxFrames
        /\ \A t \in Streams : nextNum[t] <= frames
        /\ made \in [Streams -> [total : Nat, opened : Nat]]
    BY DEF Safe, WorldType
  <2>2. Append(flying[s], frame) \in Seq(Entries)
    <3> HIDE DEF frame
    <3> QED BY <1>1, <2>1
  <2>3. flying' \in [Streams -> Seq(Entries)]
    BY <1>1, <2>1, <2>2
  <2>4. nextNum' \in [Streams -> Nat] /\ frames' \in 0..MaxFrames
    BY <1>2, <2>1, Capacities
  <2>5. \A t \in Streams : nextNum'[t] <= frames'
    BY <1>2, <2>1, Capacities
  <2> QED BY <1>2, <2>1, <2>3, <2>4, <2>5 DEF WorldType
<1>6. PICK n \in Nat : n = p.pendingSize
  BY <1>1, QueueTyped, Capacities
<1>7. PICK v \in Nat : v = Evicted(p)
  BY <1>1, EvictedIs, QueueTyped, Capacities
<1>8. /\ v <= n /\ Len(r) = n - v + 1
      /\ \A i \in 1..(n - v) : r[i] = q[v + i]
      /\ r[n - v + 1] = frame
  <2>1. PICK num \in 0..MaxFrames : num = nextNum[s]
    BY <1>1
  <2> HIDE DEF p
  <2>2. /\ v <= n /\ Len(QueueOf(Entered(p, num))) = n - v + 1
        /\ \A i \in 1..(n - v) : QueueOf(Entered(p, num))[i] = QueueOf(p)[v + i]
        /\ QueueOf(Entered(p, num))[n - v + 1] = [num |-> num, start |-> now]
    <3>1. p \in PerStream /\ now \in 0..MaxClock /\ n = p.pendingSize /\ v = Evicted(p)
      BY <1>1, <1>6, <1>7
    <3>2. LET q1 == QueueOf(p) r1 == QueueOf(Entered(p, num)) IN
          /\ v <= n /\ n - v < PendingCap
          /\ Len(r1) = n - v + 1
          /\ \A i \in 1..(n - v) : r1[i] = q1[v + i]
          /\ r1[n - v + 1] = [num |-> num, start |-> now]
      BY <3>1, EnteredQueue
    <3> QED BY <3>2
  <2> QED BY <2>1, <2>2
<1>9. e \in PerStream /\ r \in Seq(Entries)
  BY <1>1, EnteredTyped, QueueTyped
<1>10. q \in Seq(Entries) /\ Len(q) = n /\ InOrder(q)
  BY <1>1, <1>6, QueueTyped DEF Safe, Ordered
<1>11. frame.start = now /\ now \in Nat
  BY <1>1, Capacities
<1> HIDE DEF e, frame
<1>12. InOrder(r)
  <2>1. DOMAIN r = 1..(n - v + 1) /\ DOMAIN q = 1..n
    BY <1>9, <1>10, <1>8
  <2>2. ASSUME NEW i \in 1..(n - v + 1)
        PROVE  r[i].start <= now
    <3>1. CASE i = n - v + 1
      BY <1>8, <1>11, <3>1
    <3>2. CASE i \in 1..(n - v)
      <4>1. v + i \in 1..n
        BY <1>8, <3>2
      <4> QED BY <1>8, <1>10, <2>1, <3>2, <4>1 DEF InOrder
    <3> QED BY <1>8, <3>1, <3>2
  <2>3. ASSUME NEW i \in 1..(n - v + 1), NEW j \in 1..(n - v + 1), i <= j
        PROVE  r[i].start <= r[j].start
    <3>1. CASE j = n - v + 1
      BY <1>8, <1>11, <2>2, <3>1
    <3>2. CASE j \in 1..(n - v)
      <4>1. i \in 1..(n - v) /\ v + i \in 1..n /\ v + j \in 1..n /\ v + i <= v + j
        BY <1>8, <2>3, <3>2
      <4> QED BY <1>8, <1>10, <2>1, <3>2, <4>1 DEF InOrder
    <3> QED BY <1>8, <3>1, <3>2
  <2> QED BY <2>1, <2>2, <2>3 DEF InOrder
<1>13. Ordered'
  <2> SUFFICES ASSUME NEW t \in Streams PROVE InOrder(QueueOf(ps[t]))'
    BY DEF Ordered
  <2>1. CASE t = s
    <3>1. QueueOf(ps[t])' = r
      BY <1>1, <1>3, <2>1 DEF QueueOf, Waiting, Slot
    <3> QED BY <1>2, <1>12, <3>1 DEF InOrder
  <2>2. CASE t # s
    <3>1. QueueOf(ps[t])' = QueueOf(ps[t])
      BY <1>1, <1>3, <2>2 DEF QueueOf, Waiting, Slot
    <3> QED BY <1>2, <3>1 DEF InOrder, Safe, Ordered
  <2> QED BY <2>1, <2>2
<1> QED BY <1>4, <1>5, <1>13 DEF Safe

LEMMA SafeEnd ==
  ASSUME Safe, NEW s \in Streams, EndLatency(s)
  PROVE  Safe'
<1> DEFINE p == ps[s]
           q == QueueOf(p)
           frame == Head(flying[s]).num
<1>1. /\ ps' \in [Streams -> PerStream]
      /\ \/ EndMisses(s, frame)
         \/ \E k \in 1..Len(q) : EndPairs(s, frame, k)
  BY EndStep
<1>2. /\ UNCHANGED <<now, nextNum, mark, frames, restarts, lost>>
      /\ flying[s] # <<>> /\ flying' = [flying EXCEPT ![s] = Tail(@)]
  BY DEF EndLatency
<1>3. /\ ps \in [Streams -> PerStream] /\ watermark \in Nat /\ now \in 0..MaxClock /\ mark \in Nat
  BY DEF Safe, TypeOK
<1>4. /\ flying \in [Streams -> Seq(Entries)] /\ lost \in [Streams -> SUBSET Entries]
      /\ nextNum \in [Streams -> Nat] /\ frames \in 0..MaxFrames
      /\ \A t \in Streams : nextNum[t] <= frames
      /\ made \in [Streams -> [total : Nat, opened : Nat]]
  BY DEF Safe, WorldType
<1>5. watermark' \in Nat /\ made' \in [Streams -> [total : Nat, opened : Nat]]
  <2>1. CASE EndMisses(s, frame)
    BY <1>3, <1>4, <2>1 DEF EndMisses
  <2>2. CASE \E k \in 1..Len(q) : EndPairs(s, frame, k)
    <3>1. /\ watermark' = watermark + 1
          /\ made' = [made EXCEPT ![s] = [made[s] EXCEPT !.total = made[s].total + 1]]
      BY <2>2 DEF EndPairs
    <3>2. [made[s] EXCEPT !.total = made[s].total + 1] \in [total : Nat, opened : Nat]
      <4>1. PICK m \in [total : Nat, opened : Nat] : m = made[s]
        BY <1>4
      <4>2. m.total + 1 \in Nat
        OBVIOUS
      <4> QED BY <4>1, <4>2
    <3> QED BY <1>3, <1>4, <3>1, <3>2
  <2> QED BY <1>1, <2>1, <2>2
<1>6. flying' \in [Streams -> Seq(Entries)]
  <2>1. Tail(flying[s]) \in Seq(Entries)
    BY <1>2, <1>4, TailTyped
  <2> QED BY <1>2, <1>4, <2>1
<1>7. TypeOK' /\ WorldType'
  BY <1>1, <1>2, <1>3, <1>4, <1>5, <1>6 DEF TypeOK, WorldType
<1>8. q \in Seq(Entries) /\ InOrder(q)
  BY <1>3, QueueTyped DEF Safe, Ordered
<1>9. InOrder(QueueOf(ps'[s]))
  <2>1. CASE EndMisses(s, frame)
    BY <1>8, <2>1 DEF EndMisses
  <2>2. CASE \E k \in 1..Len(q) : EndPairs(s, frame, k)
    <3>1. PICK k \in 1..Len(q) : QueueOf(ps'[s]) = RemoveAt(q, k)
      BY <2>2 DEF EndPairs
    <3>2. PICK n \in Nat : n = Len(q)
      BY <1>8
    <3>3. /\ RemoveAt(q, k) \in Seq(Entries) /\ Len(RemoveAt(q, k)) = n - 1
          /\ \A i \in 1..(n - 1) : RemoveAt(q, k)[i] = IF i < k THEN q[i] ELSE q[i + 1]
      BY <1>8, <3>2, RemovedIs
    <3>4. DOMAIN RemoveAt(q, k) = 1..(n - 1) /\ DOMAIN q = 1..n /\ k \in 1..n
      BY <1>8, <3>2, <3>3
    <3> DEFINE at(i) == IF i < k THEN i ELSE i + 1
    <3>5. \A i \in 1..(n - 1) : at(i) \in 1..n /\ RemoveAt(q, k)[i] = q[at(i)]
      BY <3>3, <3>4
    <3>6. \A i, j \in 1..(n - 1) : i <= j => at(i) <= at(j)
      BY <3>4
    <3> HIDE DEF at
    <3>7. InOrder(RemoveAt(q, k))
      BY <1>8, <3>4, <3>5, <3>6 DEF InOrder
    <3> QED BY <3>1, <3>7
  <2> QED BY <1>1, <2>1, <2>2
<1>10. \A t \in Streams : t # s => ps'[t] = ps[t]
  <2>1. CASE EndMisses(s, frame)
    BY <1>3, <2>1 DEF EndMisses
  <2>2. CASE \E k \in 1..Len(q) : EndPairs(s, frame, k)
    BY <1>3, <2>2 DEF EndPairs
  <2> QED BY <1>1, <2>1, <2>2
<1>11. Ordered'
  <2> SUFFICES ASSUME NEW t \in Streams PROVE InOrder(QueueOf(ps'[t]))
    BY <1>2 DEF Ordered, InOrder, QueueOf, Waiting, Slot
  <2> QED BY <1>9, <1>10 DEF Safe, Ordered
<1> QED BY <1>7, <1>11 DEF Safe

LEMMA SafeStep ==
  ASSUME Safe, [Next]_vars
  PROVE  Safe'
<1>1. ASSUME UNCHANGED <<now, tracker>>, WorldType', mark' \in Nat PROVE Safe'
  <2>1. ps' = ps /\ now' = now /\ watermark' = watermark
    BY <1>1 DEF tracker
  <2>2. TypeOK'
    BY <1>1, <2>1 DEF Safe, TypeOK
  <2>3. Ordered'
    BY <2>1 DEF Safe, Ordered, InOrder, QueueOf, Waiting, Slot
  <2> QED BY <1>1, <2>2, <2>3 DEF Safe
<1>2. TypeOK /\ WorldType
  BY DEF Safe
<1>3. ASSUME NEW s \in Streams, Lose(s) PROVE Safe'
  <2>1. /\ flying[s] # <<>> /\ flying[s] \in Seq(Entries)
        /\ lost' = [lost EXCEPT ![s] = @ \union {Head(flying[s])}]
        /\ flying' = [flying EXCEPT ![s] = Tail(@)]
        /\ UNCHANGED <<now, tracker, nextNum, mark, made, frames, restarts>>
    BY <1>2, <1>3 DEF Lose, WorldType
  <2>2. Head(flying[s]) \in Entries /\ Tail(flying[s]) \in Seq(Entries)
    BY <2>1, TailTyped
  <2>3. WorldType' /\ mark' \in Nat
    BY <1>2, <2>1, <2>2 DEF WorldType, TypeOK
  <2> QED BY <1>1, <2>1, <2>3
<1>4. ASSUME NEW s \in Streams, StartOver(s) PROVE Safe'
  <2>1. /\ nextNum' = [nextNum EXCEPT ![s] = 0]
        /\ UNCHANGED <<now, tracker, flying, mark, made, frames, lost>>
    BY <1>4 DEF StartOver
  <2>2. WorldType' /\ mark' \in Nat
    BY <1>2, <2>1, Capacities DEF WorldType, TypeOK
  <2> QED BY <1>1, <2>1, <2>2
<1>5. CASE OpenWindow
  <2>1. /\ mark' = watermark
        /\ made' = [s \in Streams |-> [made[s] EXCEPT !.opened = made[s].total]]
        /\ UNCHANGED <<now, tracker, world>>
    BY <1>5 DEF OpenWindow
  <2>2. made' \in [Streams -> [total : Nat, opened : Nat]]
    BY <1>2, <2>1 DEF WorldType
  <2>3. WorldType' /\ mark' \in Nat
    BY <1>2, <2>1, <2>2 DEF WorldType, TypeOK, world
  <2> QED BY <1>1, <2>1, <2>3
<1>6. CASE Tick
  <2>1. now < MaxClock /\ now' = now + 1 /\ UNCHANGED <<ps, watermark, world, mark, made>>
    BY <1>6 DEF Tick, tracker
  <2>2. now \in 0..MaxClock /\ now' \in 0..MaxClock
    BY <1>2, <2>1, Capacities DEF TypeOK
  <2>3. TypeOK' /\ WorldType'
    BY <1>2, <2>1, <2>2 DEF TypeOK, WorldType, world
  <2>4. Ordered'
    <3> SUFFICES ASSUME NEW s \in Streams PROVE InOrder(QueueOf(ps[s]))'
      BY DEF Ordered
    <3>1. QueueOf(ps[s])' = QueueOf(ps[s]) /\ InOrder(QueueOf(ps[s]))
      BY <2>1 DEF Safe, Ordered, QueueOf, Waiting, Slot
    <3>2. QueueOf(ps[s]) \in Seq(Entries)
      BY <1>2, QueueTyped DEF TypeOK
    <3>3. \A i \in DOMAIN QueueOf(ps[s]) : QueueOf(ps[s])[i].start \in Nat
      <4>1. \A i \in DOMAIN QueueOf(ps[s]) : QueueOf(ps[s])[i] \in Entries
        BY <3>2
      <4>2. \A e \in Entries : e.start \in Nat
        BY Capacities DEF Entries
      <4> QED BY <4>1, <4>2
    <3> QED BY <2>1, <2>2, <3>1, <3>3, Capacities DEF InOrder
  <2> QED BY <2>3, <2>4 DEF Safe
<1>7. CASE UNCHANGED vars
  <2>1. UNCHANGED <<now, tracker, world, mark, made>>
    BY <1>7 DEF vars
  <2>2. WorldType' /\ mark' \in Nat
    BY <1>2, <2>1 DEF WorldType, TypeOK, world
  <2> QED BY <1>1, <2>1, <2>2
<1> QED BY <1>3, <1>4, <1>5, <1>6, <1>7, SafeBegin, SafeEnd DEF Next, Probes

\* The positions stay inside their arrays, and every queue stays in the order of its
\* frames: MetricsRegistry's on_latency_begin and on_latency_end never leave their arrays.
THEOREM SafeAlways == Spec => []Safe
<1> QED BY SafeInit, SafeStep, PTL DEF Spec

THEOREM TypeCorrect == Spec => []TypeOK
<1>1. Safe => TypeOK
  BY DEF Safe
<1> QED BY <1>1, SafeAlways, PTL


------------------------------------------------------------------------------
(* The arrays implement the queue *)

\* The oldest make way, and then the queue's end is new.
LEMMA EnteredNewest ==
  ASSUME NEW p \in PerStream, NEW num \in 0..MaxFrames, now \in 0..MaxClock,
         NEW n \in Nat, n = p.pendingSize, NEW a \in Nat, a = Aged(p)
  PROVE  LET young == Pairing!Newest(n - a, QueueOf(p))
             waiting == Pairing!Newest(PendingCap, Append(young, [num |-> num, start |-> now]))
         IN  /\ a <= n /\ QueueOf(Entered(p, num)) = waiting
             /\ Evicted(p) = 1 + n - Len(waiting)
<1> DEFINE q == QueueOf(p)
           new == [num |-> num, start |-> now]
           young == Pairing!Newest(n - a, q)
           all == Append(young, new)
           waiting == Pairing!Newest(PendingCap, all)
           r == QueueOf(Entered(p, num))
<1>1. PICK v \in Nat : v = Evicted(p)
  BY EvictedIs, QueueTyped, Capacities
<1>2. a <= n /\ v = a + (IF n - a = PendingCap THEN 1 ELSE 0) /\ PendingCap \in Nat \ {0}
      /\ n <= PendingCap /\ n - v < PendingCap /\ v <= n
  BY <1>1, EvictedIs, AgedIs, Capacities, QueueTyped
<1>3. /\ Len(r) = n - v + 1
      /\ \A i \in 1..(n - v) : r[i] = q[v + i]
      /\ r[n - v + 1] = new
  BY <1>1, EnteredQueue
<1>4. r \in Seq(Entries) /\ q \in Seq(Entries) /\ Len(q) = n
  <2>1. Entered(p, num) \in PerStream
    BY EnteredTyped
  <2> QED BY <2>1, QueueTyped
<1>5. new \in Entries
  BY DEF Entries
<1> HIDE DEF q, new, r
<1>6. PICK b \in Nat : b = n - a
  BY <1>2
<1>7. /\ young \in Seq(Entries) /\ Len(young) = b
      /\ \A i \in 1..b : young[i] = q[a + i]
  <2>1. (IF Len(q) > b THEN b ELSE Len(q)) = b /\ Len(q) - b = a
    BY <1>2, <1>4, <1>6
  <2>2. Pairing!Newest(b, q) \in Seq(Entries)
    BY <1>4, NewestIs
  <2>3. Len(Pairing!Newest(b, q)) = b
    BY <1>4, <2>1, NewestIs
  <2>4. ASSUME NEW i \in 1..b PROVE Pairing!Newest(b, q)[i] = q[a + i]
    <3>1. i \in 1..Len(Pairing!Newest(b, q)) /\ Len(q) - Len(Pairing!Newest(b, q)) + i = a + i
      BY <2>1, <2>3
    <3>2. Pairing!Newest(b, q)[i] = q[Len(q) - Len(Pairing!Newest(b, q)) + i]
      BY <1>4, <3>1, NewestIs
    <3> QED BY <3>1, <3>2
  <2> QED BY <1>6, <2>2, <2>3, <2>4
<1> HIDE DEF young
<1>8. /\ all \in Seq(Entries) /\ Len(all) = b + 1
      /\ \A i \in 1..b : all[i] = young[i]
      /\ all[b + 1] = new
  BY <1>5, <1>7, AppendProperties
<1> HIDE DEF all
<1>9. PICK m \in Nat : m = n - v + 1
  BY <1>2
<1>10. /\ waiting \in Seq(Entries) /\ Len(waiting) = m
       /\ \A i \in 1..m : waiting[i] = all[b + 1 - m + i]
  <2>1. m = IF b + 1 > PendingCap THEN PendingCap ELSE b + 1
    <3>1. CASE n - a = PendingCap
      BY <1>2, <1>6, <1>9, <3>1
    <3>2. CASE n - a # PendingCap
      BY <1>2, <1>6, <1>9, <3>2
    <3> QED BY <3>1, <3>2
  <2>2. waiting \in Seq(Entries)
    BY <1>2, <1>8, NewestIs
  <2>3. Len(waiting) = m
    BY <1>2, <1>8, <2>1, NewestIs
  <2>4. ASSUME NEW i \in 1..m PROVE waiting[i] = all[b + 1 - m + i]
    <3>1. i \in 1..Len(waiting) /\ Len(all) - Len(waiting) + i = b + 1 - m + i
      BY <1>8, <2>3
    <3>2. waiting[i] = all[Len(all) - Len(waiting) + i]
      BY <1>2, <1>8, <3>1, NewestIs
    <3> QED BY <3>1, <3>2
  <2> QED BY <2>2, <2>3, <2>4
<1> HIDE DEF waiting
<1>11. ASSUME NEW i \in 1..m PROVE r[i] = waiting[i]
  <2>1. CASE i = m
    <3>1. b + 1 - m + i = b + 1
      BY <1>6, <1>9, <2>1
    <3>2. r[i] = new
      BY <1>3, <1>9, <2>1
    <3> QED BY <1>8, <1>10, <3>1, <3>2
  <2>2. CASE i < m
    <3>1. PICK j \in 1..b : j = b + 1 - m + i
      BY <1>2, <1>6, <1>9, <2>2
    <3>2. a + j = v + i /\ i \in 1..(n - v)
      <4>1. j = n - a + 1 - (n - v + 1) + i
        BY <1>6, <1>9, <3>1
      <4>2. i < n - v + 1
        BY <1>9, <2>2
      <4>3. a + j = v + i
        BY <4>1
      <4>4. i \in 1..(n - v)
        BY <4>2
      <4> QED BY <4>3, <4>4
    <3>3. r[i] = q[v + i] /\ waiting[i] = all[j] /\ all[j] = young[j] /\ young[j] = q[a + j]
      BY <1>3, <1>7, <1>8, <1>10, <3>1, <3>2
    <3> QED BY <3>2, <3>3
  <2> QED BY <1>9, <2>1, <2>2
<1>12. r = waiting
  BY <1>3, <1>4, <1>9, <1>10, <1>11, SeqEqual
<1>13. Evicted(p) = 1 + n - Len(waiting)
  <2>1. v = 1 + n - m
    BY <1>2, <1>9
  <2> QED BY <1>1, <1>10, <2>1
<1> QED BY <1>2, <1>12, <1>13 DEF waiting, all, young, new, q, r

\* A new sample goes to the end of the newest ones.
LEMMA SampledNewest ==
  ASSUME NEW p \in PerStream, NEW seq \in 0..(SeqRange - 1), NEW latency \in Nat
  PROVE  RecentOf(Sampled(p, seq, latency)) =
           Pairing!Newest(RingCap, Append(RecentOf(p), [seq |-> seq, latency |-> latency]))
<1> DEFINE new == [seq |-> seq, latency |-> latency]
           s == Sampled(p, seq, latency)
           r == RecentOf(s)
           all == Append(RecentOf(p), new)
           newest == Pairing!Newest(RingCap, all)
<1>1. seq \in Nat /\ seq % SeqRange = seq
  BY Capacities
<1>2. new \in Samples
  BY DEF Samples
<1>3. PICK c \in Nat : c = p.ringCount
  BY Capacities DEF PerStream
<1>4. /\ RecentOf(p) \in Seq(Samples) /\ Len(RecentOf(p)) = c
      /\ c <= RingCap /\ RingCap \in Nat \ {0}
  BY <1>3, RecentTyped, Capacities
<1>5. r \in Seq(Samples)
  <2>1. s \in PerStream
    BY <1>1, SampledTyped
  <2>2. s.ringCount \in Nat
    BY <2>1, Capacities DEF PerStream
  <2> QED BY <2>1, <2>2, RecentTyped
<1>6. /\ c < RingCap => /\ Len(r) = c + 1
                        /\ \A i \in 1..c : r[i] = RecentOf(p)[i]
                        /\ r[c + 1] = new
      /\ c = RingCap => /\ Len(r) = c
                        /\ \A i \in 1..(c - 1) : r[i] = RecentOf(p)[i + 1]
                        /\ r[c] = new
  BY <1>1, <1>3, SampledRecent
<1> HIDE DEF r, new
<1>7. /\ all \in Seq(Samples) /\ Len(all) = c + 1
      /\ \A i \in 1..c : all[i] = RecentOf(p)[i]
      /\ all[c + 1] = new
  BY <1>2, <1>4, AppendProperties
<1> HIDE DEF all
<1>8. PICK m \in Nat : m = IF c < RingCap THEN c + 1 ELSE c
  OBVIOUS
<1>9. /\ newest \in Seq(Samples) /\ Len(newest) = m
      /\ \A i \in 1..m : newest[i] = all[c + 1 - m + i]
  <2>1. m = IF Len(all) > RingCap THEN RingCap ELSE Len(all)
    BY <1>4, <1>7, <1>8
  <2>2. newest \in Seq(Samples)
    BY <1>4, <1>7, NewestIs
  <2>3. Len(newest) = m
    BY <1>4, <1>7, <2>1, NewestIs
  <2>4. \A i \in 1..m : newest[i] = all[c + 1 - m + i]
    BY <1>4, <1>7, <2>3, NewestIs
  <2> QED BY <2>2, <2>3, <2>4
<1> HIDE DEF newest
<1>10. CASE c < RingCap
  <2>1. m = c + 1
    BY <1>8, <1>10
  <2>2. \A i \in 1..m : c + 1 - m + i = i /\ (i \in 1..c \/ i = c + 1)
    BY <2>1
  <2>3. \A i \in 1..m : r[i] = newest[i]
    BY <1>6, <1>7, <1>9, <1>10, <2>2
  <2>4. r = newest
    BY <1>5, <1>6, <1>9, <1>10, <2>1, <2>3, SeqEqual
  <2> QED BY <2>4 DEF r, newest, all, new
<1>11. CASE c = RingCap
  <2>1. m = c
    BY <1>8, <1>11
  <2>2. \A i \in 1..m : c + 1 - m + i = i + 1 /\ ((i \in 1..(c - 1) /\ i + 1 \in 1..c) \/ i = c)
    BY <2>1
  <2>3. ASSUME NEW i \in 1..m PROVE r[i] = newest[i]
    <3>1. newest[i] = all[i + 1]
      BY <1>9, <2>2
    <3>2. CASE i = c
      BY <1>6, <1>7, <1>11, <3>1, <3>2
    <3>3. CASE i \in 1..(c - 1)
      <4>1. i + 1 \in 1..c
        BY <2>2, <3>3
      <4> QED BY <1>6, <1>7, <1>11, <3>1, <3>3, <4>1
    <3> QED BY <2>2, <3>2, <3>3
  <2>4. r = newest
    BY <1>5, <1>6, <1>9, <1>11, <2>1, <2>3, SeqEqual
  <2> QED BY <2>4 DEF r, newest, all, new
<1> QED BY <1>4, <1>10, <1>11

\* What one stream's arrays change to is what its queue and samples change to.
LEMMA OneStream ==
  ASSUME NEW s \in Streams, NEW e, ps' = [ps EXCEPT ![s] = e], ps \in [Streams -> PerStream]
  PROVE  /\ [t \in Streams |-> QueueOf(ps[t])]'
              = [[t \in Streams |-> QueueOf(ps[t])] EXCEPT ![s] = QueueOf(e)]
         /\ [t \in Streams |-> RecentOf(ps[t])]'
              = [[t \in Streams |-> RecentOf(ps[t])] EXCEPT ![s] = RecentOf(e)]
         /\ [t \in Streams |-> ps[t].evicted]'
              = [[t \in Streams |-> ps[t].evicted] EXCEPT ![s] = e.evicted]
         /\ [t \in Streams |-> ps[t].desync]'
              = [[t \in Streams |-> ps[t].desync] EXCEPT ![s] = e.desync]
<1>1. \A t \in Streams : ps'[t] = IF t = s THEN e ELSE ps[t]
  OBVIOUS
<1>2. [t \in Streams |-> QueueOf(ps[t])]' = [t \in Streams |-> QueueOf(ps'[t])]
  BY DEF QueueOf, Waiting, Slot
<1>3. [t \in Streams |-> RecentOf(ps[t])]' = [t \in Streams |-> RecentOf(ps'[t])]
  BY DEF RecentOf
<1>4. [t \in Streams |-> QueueOf(ps'[t])]
        = [[t \in Streams |-> QueueOf(ps[t])] EXCEPT ![s] = QueueOf(e)]
  BY <1>1
<1>5. [t \in Streams |-> RecentOf(ps'[t])]
        = [[t \in Streams |-> RecentOf(ps[t])] EXCEPT ![s] = RecentOf(e)]
  BY <1>1
<1> QED BY <1>1, <1>2, <1>3, <1>4, <1>5

queues == [s \in Streams |-> QueueOf(ps[s])]
recents == [s \in Streams |-> RecentOf(ps[s])]
evictions == [s \in Streams |-> ps[s].evicted]
desyncs == [s \in Streams |-> ps[s].desync]
pairVars == <<now, queues, recents, watermark, evictions, desyncs>>

LEMMA BeginImplements ==
  ASSUME Safe, NEW s \in Streams, BeginLatency(s)
  PROVE  \E num \in 0..MaxFrames : Pairing!Begin(s, num)
<1>0. PICK num \in 0..MaxFrames : num = nextNum[s]
  BY BeginStep
<1> DEFINE p == ps[s]
           e == Entered(p, num)
           q == QueueOf(p)
<1>1. /\ ps' = [ps EXCEPT ![s] = e]
      /\ p \in PerStream /\ now \in 0..MaxClock
      /\ RecentOf(e) = RecentOf(p)
      /\ UNCHANGED <<now, watermark>> /\ ps \in [Streams -> PerStream]
  <2>1. /\ ps' = [ps EXCEPT ![s] = e]
        /\ p \in PerStream /\ now \in 0..MaxClock
        /\ RecentOf(ps'[s]) = RecentOf(p)
    BY <1>0, BeginStep
  <2>2. UNCHANGED <<now, watermark>> /\ ps \in [Streams -> PerStream]
    BY DEF BeginLatency, Safe, TypeOK
  <2> QED BY <2>1, <2>2
<1>2. PICK n \in Nat : n = p.pendingSize
  BY <1>1, QueueTyped, Capacities
<1>3. PICK a \in Nat : a = Aged(p)
  BY <1>1, AgedIs, QueueTyped, Capacities
<1>4. q \in Seq(Entries) /\ Len(q) = n /\ DOMAIN q = 1..n /\ InOrder(q)
  BY <1>1, <1>2, QueueTyped DEF Safe, Ordered
<1>5. /\ a \in 0..n /\ \A i \in 0..(a - 1) : TooOld(p, i)
      /\ a < n => ~TooOld(p, a)
  BY <1>1, <1>2, <1>3, AgedIs
<1>6. \A i \in DOMAIN q : i <= a <=> now - q[i].start > MaxAge
  <2> SUFFICES ASSUME NEW i \in 1..n PROVE i <= a <=> now - q[i].start > MaxAge
    BY <1>4
  <2>1. \A j \in 1..n : q[j] = Waiting(p, j - 1) /\ q[j].start \in Nat
    <3>1. \A j \in 1..n : q[j] = Waiting(p, j - 1)
      BY <1>1, <1>2, QueueTyped DEF Waiting
    <3>2. \A j \in 1..n : q[j] \in Entries
      BY <1>4
    <3>3. \A x \in Entries : x.start \in Nat
      BY Capacities DEF Entries
    <3> QED BY <3>1, <3>2, <3>3
  <2>2. CASE i <= a
    <3>1. i - 1 \in 0..(a - 1)
      BY <2>2
    <3>2. TooOld(p, i - 1)
      BY <1>5, <3>1
    <3> QED BY <2>1, <2>2, <3>2 DEF TooOld
  <2>3. CASE i > a
    <3>1. a + 1 \in 1..n /\ (a + 1) - 1 = a /\ a < n /\ a + 1 <= i
      BY <1>5, <2>3
    <3>2. ~(now - q[a + 1].start > MaxAge)
      BY <1>5, <2>1, <3>1 DEF TooOld
    <3>3. q[a + 1].start <= q[i].start
      BY <1>4, <3>1 DEF InOrder
    <3>4. q[a + 1].start \in Nat /\ q[i].start \in Nat /\ now \in Nat /\ MaxAge \in Nat
      BY <1>1, <2>1, <3>1, Capacities
    <3> QED BY <2>3, <3>2, <3>3, <3>4
  <2> QED BY <1>5, <2>2, <2>3
<1> DEFINE waiting == Pairing!Newest(PendingCap,
                        Append(Pairing!Newest(n - a, q), [num |-> num, start |-> now]))
<1>7. QueueOf(e) = waiting /\ Evicted(p) = 1 + n - Len(waiting)
  BY <1>1, <1>2, <1>3, EnteredNewest
<1>8. e.evicted = p.evicted + Evicted(p) /\ e.desync = p.desync
  BY <1>1, EnteredTyped
<1> HIDE DEF e, waiting
<1>9. /\ queues' = [queues EXCEPT ![s] = QueueOf(e)]
      /\ recents' = [recents EXCEPT ![s] = RecentOf(e)]
      /\ evictions' = [evictions EXCEPT ![s] = e.evicted]
      /\ desyncs' = [desyncs EXCEPT ![s] = e.desync]
  BY <1>1, OneStream DEF queues, recents, evictions, desyncs
<1>10. /\ queues[s] = q /\ recents[s] = RecentOf(p)
       /\ evictions[s] = p.evicted /\ desyncs[s] = p.desync
  BY DEF queues, recents, evictions, desyncs
<1>11. recents' = recents /\ desyncs' = desyncs
  <2>1. [recents EXCEPT ![s] = recents[s]] = recents /\ [desyncs EXCEPT ![s] = desyncs[s]] = desyncs
    BY DEF recents, desyncs
  <2> QED BY <1>1, <1>8, <1>9, <1>10, <2>1
<1>12. evictions' = [evictions EXCEPT ![s] = evictions[s] + 1 + n - Len(waiting)]
  <2>1. PICK w \in Nat : w = p.evicted
    BY <1>1 DEF PerStream
  <2>2. PICK v \in Nat : v = Evicted(p)
    BY <1>1, EvictedIs, QueueTyped, Capacities
  <2>3. PICK m \in Int : m = Len(waiting)
    <3>1. QueueOf(e) \in Seq(Entries)
      <4>1. e \in PerStream
        BY <1>1, EnteredTyped DEF e
      <4> QED BY <4>1, QueueTyped
    <3> QED BY <1>7, <3>1
  <2>4. w + v = w + 1 + n - m
    BY <1>7, <2>2, <2>3
  <2> QED BY <1>8, <1>9, <1>10, <2>1, <2>2, <2>3, <2>4
<1>13. a \in 0..Len(queues[s]) /\ Len(queues[s]) = n
  BY <1>4, <1>5, <1>10
<1>14. /\ \A i \in DOMAIN queues[s] : i <= a <=> now - queues[s][i].start > MaxAge
       /\ queues' = [queues EXCEPT ![s] = waiting]
       /\ waiting = Pairing!Newest(PendingCap, Append(Pairing!Newest(Len(queues[s]) - a, queues[s]),
                                                      [num |-> num, start |-> now]))
  BY <1>6, <1>7, <1>9, <1>10, <1>13 DEF waiting
<1>15. evictions' = [evictions EXCEPT ![s] = @ + 1 + Len(queues[s]) - Len(waiting)]
  BY <1>12, <1>13
<1>16. Pairing!Begin(s, num)
  BY <1>1, <1>11, <1>13, <1>14, <1>15 DEF Pairing!Begin, queues, recents, evictions, desyncs
<1> QED BY <1>16


LEMMA EndImplements ==
  ASSUME Safe, watermark' < SeqRange, NEW s \in Streams, EndLatency(s)
  PROVE  \E num \in 0..MaxFrames : Pairing!Misses(s, num) \/ Pairing!Pairs(s, num)
<1>0. PICK frame \in 0..MaxFrames : frame = Head(flying[s]).num
  BY EndStep
<1> DEFINE p == ps[s]
           q == QueueOf(p)
<1>1. \/ EndMisses(s, frame)
      \/ \E k \in 1..Len(q) : EndPairs(s, frame, k)
  BY <1>0, EndStep
<1>2. /\ ps \in [Streams -> PerStream] /\ p \in PerStream /\ watermark \in Nat
      /\ now' = now
  BY DEF EndLatency, Safe, TypeOK
<1>3. q \in Seq(Entries) /\ DOMAIN q = 1..Len(q)
  BY <1>2, QueueTyped
<1>4. /\ queues[s] = q /\ recents[s] = RecentOf(p)
      /\ evictions[s] = p.evicted /\ desyncs[s] = p.desync
  BY DEF queues, recents, evictions, desyncs
<1>5. /\ [queues EXCEPT ![s] = queues[s]] = queues /\ [recents EXCEPT ![s] = recents[s]] = recents
      /\ [evictions EXCEPT ![s] = evictions[s]] = evictions
      /\ [desyncs EXCEPT ![s] = desyncs[s]] = desyncs
  BY DEF queues, recents, evictions, desyncs
<1>6. CASE EndMisses(s, frame)
  <2> DEFINE e == [p EXCEPT !.desync = p.desync + 1]
  <2>1. /\ \A i \in DOMAIN q : q[i].num # frame
        /\ ps' = [ps EXCEPT ![s] = e]
        /\ QueueOf(ps'[s]) = q /\ RecentOf(ps'[s]) = RecentOf(p)
        /\ ps'[s].evicted = p.evicted /\ ps'[s].desync = p.desync + 1
        /\ watermark' = watermark
    BY <1>6 DEF EndMisses
  <2>2. ps'[s] = e
    BY <1>2, <2>1
  <2> HIDE DEF e
  <2>3. /\ queues' = [queues EXCEPT ![s] = QueueOf(e)]
        /\ recents' = [recents EXCEPT ![s] = RecentOf(e)]
        /\ evictions' = [evictions EXCEPT ![s] = e.evicted]
        /\ desyncs' = [desyncs EXCEPT ![s] = e.desync]
    BY <1>2, <2>1, OneStream DEF queues, recents, evictions, desyncs
  <2>4. /\ queues' = queues /\ recents' = recents /\ evictions' = evictions
        /\ desyncs' = [desyncs EXCEPT ![s] = @ + 1]
    BY <1>4, <1>5, <2>1, <2>2, <2>3
  <2>5. \A i \in DOMAIN queues[s] : queues[s][i].num # frame
    BY <1>4, <2>1
  <2>6. Pairing!Misses(s, frame)
    BY <1>2, <2>1, <2>4, <2>5 DEF Pairing!Misses, queues, recents, evictions, desyncs
  <2> QED BY <2>6
<1>7. CASE \E k \in 1..Len(q) : EndPairs(s, frame, k)
  <2>1. PICK k \in 1..Len(q) : EndPairs(s, frame, k)
    BY <1>7
  <2> DEFINE w == Without(p, k - 1)
             l == now - q[k].start
             e == Sampled(w, watermark + 1, l)
  <2>2. /\ q[k].num = frame /\ \A j \in 1..(k - 1) : q[j].num # frame
        /\ watermark' = watermark + 1 /\ l \in Nat
        /\ w \in PerStream /\ RecentOf(w) = RecentOf(p)
        /\ ps' = [ps EXCEPT ![s] = e]
        /\ QueueOf(ps'[s]) = RemoveAt(q, k)
        /\ ps'[s].evicted = p.evicted /\ ps'[s].desync = p.desync
    BY <2>1 DEF EndPairs
  <2>3. ps'[s] = e
    BY <1>2, <2>2
  <2> HIDE DEF w, l
  <2>4. RecentOf(e) = Pairing!Newest(RingCap, Append(RecentOf(p), [seq |-> watermark', latency |-> l]))
    <3>1. watermark + 1 \in 0..(SeqRange - 1) /\ l \in Nat /\ w \in PerStream
      BY <1>2, <2>2, Capacities
    <3>2. RecentOf(e) = Pairing!Newest(RingCap,
                          Append(RecentOf(w), [seq |-> watermark + 1, latency |-> l]))
      BY <3>1, SampledNewest
    <3> QED BY <2>2, <3>2
  <2> HIDE DEF e
  <2>5. /\ queues' = [queues EXCEPT ![s] = QueueOf(e)]
        /\ recents' = [recents EXCEPT ![s] = RecentOf(e)]
        /\ evictions' = [evictions EXCEPT ![s] = e.evicted]
        /\ desyncs' = [desyncs EXCEPT ![s] = e.desync]
    BY <1>2, <2>2, OneStream DEF queues, recents, evictions, desyncs
  <2>6. evictions' = evictions /\ desyncs' = desyncs
    BY <1>4, <1>5, <2>2, <2>3, <2>5
  <2>7. queues' = [queues EXCEPT ![s] = RemoveAt(@, k)]
    BY <1>4, <2>2, <2>3, <2>5
  <2>8. LET sample == [seq |-> watermark', latency |-> now - queues[s][k].start]
        IN  recents' = [recents EXCEPT ![s] = Pairing!Newest(RingCap, Append(@, sample))]
    BY <1>4, <2>4, <2>5 DEF l
  <2>9. k \in DOMAIN queues[s] /\ queues[s][k].num = frame
        /\ \A j \in 1..(k - 1) : queues[s][j].num # frame
    BY <1>3, <1>4, <2>2
  <2> HIDE DEF q
  <2>10. queues' = [queues EXCEPT ![s] = Pairing!RemoveAt(@, k)]
    BY <2>7 DEF RemoveAt, Pairing!RemoveAt
  <2>11. Pairing!Pairs(s, frame)
    <3>1. \E i \in DOMAIN queues[s] :
            /\ queues[s][i].num = frame /\ \A j \in 1..(i - 1) : queues[s][j].num # frame
            /\ queues' = [queues EXCEPT ![s] = Pairing!RemoveAt(@, i)]
            /\ watermark' = watermark + 1
            /\ LET sample == [seq |-> watermark', latency |-> now - queues[s][i].start]
               IN  recents' = [recents EXCEPT ![s] = Pairing!Newest(RingCap, Append(@, sample))]
            /\ UNCHANGED <<now, evictions, desyncs>>
      BY <1>2, <2>2, <2>6, <2>8, <2>9, <2>10, Zenon
    <3> QED BY <3>1 DEF Pairing!Pairs, queues, recents, evictions, desyncs
  <2> QED BY <2>11
<1> QED BY <1>1, <1>6, <1>7

LEMMA InitImplements == Init => Pairing!Init
<1> SUFFICES ASSUME Init PROVE Pairing!Init
  OBVIOUS
<1>1. Safe
  BY SafeInit
<1>2. ASSUME NEW s \in Streams
      PROVE  /\ QueueOf(ps[s]) = <<>> /\ RecentOf(ps[s]) = <<>>
             /\ ps[s].evicted = 0 /\ ps[s].desync = 0
  <2>1. /\ ps[s] \in PerStream /\ ps[s].pendingSize = 0 /\ ps[s].ringCount = 0
        /\ ps[s].evicted = 0 /\ ps[s].desync = 0
    BY <1>1 DEF Init, Safe, TypeOK
  <2>2. QueueOf(ps[s]) \in Seq(Entries) /\ Len(QueueOf(ps[s])) = 0
    BY <2>1, QueueTyped
  <2>3. RecentOf(ps[s]) \in Seq(Samples) /\ Len(RecentOf(ps[s])) = 0
    BY <2>1, RecentTyped
  <2> QED BY <2>1, <2>2, <2>3
<1> QED BY <1>2 DEF Init, Pairing!Init

LEMMA NextImplements ==
  ASSUME Safe, watermark' < SeqRange, [Next]_vars
  PROVE  [Pairing!Next]_pairVars
<1>1. ASSUME UNCHANGED <<now, tracker>> PROVE UNCHANGED pairVars
  <2>1. ps' = ps /\ watermark' = watermark /\ now' = now
    BY <1>1 DEF tracker
  <2> QED BY <2>1
      DEF pairVars, queues, recents, evictions, desyncs, QueueOf, RecentOf, Waiting, Slot
<1>2. ASSUME NEW s \in Streams, BeginLatency(s) PROVE Pairing!Next
  BY <1>2, BeginImplements DEF Pairing!Next
<1>3. ASSUME NEW s \in Streams, EndLatency(s) PROVE Pairing!Next
  BY <1>3, EndImplements DEF Pairing!Next
<1>4. ASSUME NEW s \in Streams, Lose(s) \/ StartOver(s) PROVE UNCHANGED pairVars
  BY <1>1, <1>4 DEF Lose, StartOver
<1>5. CASE OpenWindow
  BY <1>1, <1>5 DEF OpenWindow
<1>6. CASE Tick
  <2>1. now' = now + 1 /\ ps' = ps /\ watermark' = watermark
    BY <1>6 DEF Tick, tracker
  <2>2. Pairing!Tick
    BY <2>1 DEF Pairing!Tick, QueueOf, RecentOf, Waiting, Slot
  <2> QED BY <2>2 DEF Pairing!Next
<1>7. CASE UNCHANGED vars
  BY <1>1, <1>7 DEF vars
<1> QED BY <1>2, <1>3, <1>4, <1>5, <1>6, <1>7 DEF Next, Probes

\* For any capacities and ages, and until a sample's number no longer fits its 32 bits:
\* the arrays of on_latency_begin and on_latency_end, wrapping round and taking out of
\* the middle, are the queue and the newest samples LatencyPairs describes.
THEOREM Implements == Spec /\ [](watermark < SeqRange) => ImplementsPairs
<1>1. Safe /\ [Next]_vars /\ (watermark < SeqRange)'
        => [Pairing!Next]_<<now, [s \in Streams |-> QueueOf(ps[s])],
                           [s \in Streams |-> RecentOf(ps[s])], watermark,
                           [s \in Streams |-> ps[s].evicted], [s \in Streams |-> ps[s].desync]>>
  BY NextImplements DEF pairVars, queues, recents, evictions, desyncs
<1> QED BY <1>1, InitImplements, SafeAlways, PTL DEF Spec, ImplementsPairs, Pairing!Spec


------------------------------------------------------------------------------
(* The benchmark's window *)

\* The samples of a stream that are newer than the watermark noted are the last ones in
\* its ring, as many as it made since.
WindowOf(s) ==
  /\ ps[s].ringCount = Fewer(RingCap, made[s].total) /\ made[s].opened <= made[s].total
  /\ \A i \in 1..ps[s].ringCount :
       /\ RecentOf(ps[s])[i].seq <= watermark
       /\ RecentOf(ps[s])[i].seq > mark <=> ps[s].ringCount - i < made[s].total - made[s].opened

Windows == mark <= watermark /\ (watermark < SeqRange => \A s \in Streams : WindowOf(s))

LEMMA WindowsSuffice ==
  ASSUME Safe, Windows, watermark < SeqRange
  PROVE  WindowIsExact
<1> SUFFICES ASSUME NEW s \in Streams
             PROVE  Cardinality(SamplesSince(ps[s], mark))
                      = Fewer(RingCap, made[s].total - made[s].opened)
  BY DEF WindowIsExact
<1>1. ps[s] \in PerStream /\ made[s] \in [total : Nat, opened : Nat]
  BY DEF Safe, TypeOK, WorldType
<1>2. PICK c \in 0..RingCap : c = ps[s].ringCount
  BY <1>1 DEF PerStream
<1>3. PICK t \in Nat : t = made[s].total
  BY <1>1
<1>4. PICK o \in Nat : o = made[s].opened
  BY <1>1
<1>5. /\ c = Fewer(RingCap, t) /\ o <= t /\ RingCap \in Nat \ {0}
      /\ \A i \in 1..c : RecentOf(ps[s])[i].seq > mark <=> c - i < t - o
  BY <1>2, <1>3, <1>4, Capacities DEF Windows, WindowOf
<1>6. PICK m \in 0..c : m = Fewer(RingCap, t - o)
  BY <1>5 DEF Fewer
<1>7. \A i \in 1..c : c - i < t - o <=> i >= c - m + 1
  BY <1>5, <1>6 DEF Fewer
<1>8. SamplesSince(ps[s], mark) = {i \in 1..c : c - i < t - o}
  BY <1>2, <1>5 DEF SamplesSince
<1>9. {i \in 1..c : c - i < t - o} = (c - m + 1)..c
  BY <1>6, <1>7
<1>10. Cardinality((c - m + 1)..c) = m
  <2>1. c - m + 1 \in Int /\ c \in Int
    OBVIOUS
  <2>2. Cardinality((c - m + 1)..c) = IF c - m + 1 > c THEN 0 ELSE c - (c - m + 1) + 1
    BY <2>1, FS_Interval
  <2> QED BY <2>2
<1> QED BY <1>3, <1>4, <1>6, <1>8, <1>9, <1>10

LEMMA WindowsInit == Init => Windows
<1> SUFFICES ASSUME Init PROVE Windows
  OBVIOUS
<1>1. Safe
  BY SafeInit
<1>2. \A s \in Streams : ps[s].ringCount = 0 /\ made[s].total = 0 /\ made[s].opened = 0
  BY DEF Init
<1>3. Fewer(RingCap, 0) = 0
  BY Capacities DEF Fewer
<1> QED BY <1>2, <1>3 DEF Init, Windows, WindowOf

LEMMA WindowsEnd ==
  ASSUME Safe, Windows, NEW s \in Streams, EndLatency(s)
  PROVE  Windows'
<1> DEFINE p == ps[s]
           frame == Head(flying[s]).num
<1>1. \/ EndMisses(s, frame)
      \/ \E k \in 1..Len(QueueOf(p)) : EndPairs(s, frame, k)
  BY EndStep
<1>2. /\ ps \in [Streams -> PerStream] /\ p \in PerStream /\ watermark \in Nat
      /\ mark \in Nat /\ mark' = mark /\ made \in [Streams -> [total : Nat, opened : Nat]]
  BY DEF EndLatency, Safe, TypeOK, WorldType
<1> HIDE DEF frame
<1>3. CASE EndMisses(s, frame)
  <2>1. UNCHANGED <<watermark, made>> /\ mark' = mark
    BY <1>2, <1>3 DEF EndMisses
  <2>2. \A u \in Streams : RecentOf(ps'[u]) = RecentOf(ps[u]) /\ ps'[u].ringCount = ps[u].ringCount
    BY <1>2, <1>3 DEF EndMisses
  <2>3. \A u \in Streams : RecentOf(ps[u])' = RecentOf(ps'[u])
    BY DEF RecentOf
  <2> QED BY <2>1, <2>2, <2>3 DEF Windows, WindowOf
<1>4. CASE \E k \in 1..Len(QueueOf(p)) : EndPairs(s, frame, k)
  <2>1. PICK k \in 1..Len(QueueOf(p)) : EndPairs(s, frame, k)
    BY <1>4
  <2> DEFINE w == Without(p, k - 1)
             l == now - QueueOf(p)[k].start
             e == Sampled(w, watermark + 1, l)
  <2>2. /\ watermark' = watermark + 1 /\ l \in Nat
        /\ w \in PerStream /\ RecentOf(w) = RecentOf(p) /\ w.ringCount = p.ringCount
        /\ ps' = [ps EXCEPT ![s] = e]
        /\ made' = [made EXCEPT ![s] = [made[s] EXCEPT !.total = made[s].total + 1]]
    BY <2>1 DEF EndPairs
  <2> HIDE DEF w, l
  <2>3. mark' <= watermark'
    BY <1>2, <2>2 DEF Windows
  <2>4. ASSUME watermark' < SeqRange, NEW u \in Streams PROVE WindowOf(u)'
    <3>1. watermark < SeqRange /\ WindowOf(u)
      BY <1>2, <2>2, <2>4, Capacities DEF Windows
    <3>2. RecentOf(ps[u])' = RecentOf(ps'[u])
      BY DEF RecentOf
    <3>3. CASE u # s
      <4>1. ps'[u] = ps[u] /\ made'[u] = made[u]
        BY <1>2, <2>2, <3>3
      <4>2. PICK c \in Nat : c = ps[u].ringCount
        BY <1>2, Capacities DEF PerStream
      <4>3. RecentOf(ps[u]) \in Seq(Samples) /\ Len(RecentOf(ps[u])) = c
        BY <1>2, <4>2, RecentTyped
      <4>4. \A i \in 1..c : RecentOf(ps[u])[i].seq \in Nat
        <5>1. \A i \in 1..c : RecentOf(ps[u])[i] \in Samples
          BY <4>3
        <5>2. \A x \in Samples : x.seq \in Nat
          BY Capacities DEF Samples
        <5> QED BY <5>1, <5>2
      <4>5. \A i \in 1..c : RecentOf(ps[u])[i].seq <= watermark'
        BY <1>2, <2>2, <3>1, <4>2, <4>4 DEF WindowOf
      <4> QED BY <1>2, <3>1, <3>2, <4>1, <4>2, <4>5 DEF WindowOf
    <3>4. CASE u = s
      <4>1. PICK c \in Nat : c = p.ringCount
        BY <1>2, Capacities DEF PerStream
      <4>2. PICK t \in Nat : t = made[s].total
        BY <1>2
      <4>3. PICK o \in Nat : o = made[s].opened
        BY <1>2
      <4>4. made'[s].total = t + 1 /\ made'[s].opened = o
        BY <1>2, <2>2, <4>2, <4>3
      <4> DEFINE R == RecentOf(p)
                 r == RecentOf(e)
                 new == [seq |-> (watermark + 1) % SeqRange, latency |-> l]
      <4>5. ps'[s] = e
        BY <1>2, <2>2
      <4>6. /\ c = Fewer(RingCap, t) /\ o <= t /\ RingCap \in Nat \ {0}
            /\ \A i \in 1..c : /\ R[i].seq <= watermark
                               /\ R[i].seq > mark <=> c - i < t - o
        BY <3>1, <3>4, <4>1, <4>2, <4>3, Capacities DEF WindowOf
      <4>7. new.seq = watermark + 1
        <5>1. PICK n \in 0..(SeqRange - 1) : n = watermark + 1
          <6>1. watermark + 1 < SeqRange /\ watermark \in Nat
            BY <1>2, <2>2, <2>4
          <6>2. SeqRange \in Nat
            BY Capacities
          <6> QED BY <6>1, <6>2
        <5>2. n % SeqRange = n
          BY Capacities
        <5> QED BY <5>1, <5>2
      <4>8. /\ c < RingCap => /\ \A i \in 1..c : r[i] = R[i]
                              /\ r[c + 1] = new
            /\ c = RingCap => /\ \A i \in 1..(c - 1) : r[i] = R[i + 1]
                              /\ r[c] = new
        <5>1. watermark + 1 \in Nat /\ l \in Nat /\ c = w.ringCount /\ w \in PerStream
          BY <1>2, <2>2, <4>1
        <5> QED BY <2>2, <5>1, SampledRecent
      <4>9. e.ringCount = IF c < RingCap THEN c + 1 ELSE c
        <5>1. watermark + 1 \in Nat /\ l \in Nat /\ w \in PerStream
          BY <1>2, <2>2
        <5>2. Sampled(w, watermark + 1, l).ringCount
                = (IF w.ringCount < RingCap THEN w.ringCount + 1 ELSE w.ringCount)
          BY <5>1, SampledTyped
        <5> QED BY <2>2, <4>1, <5>2
      <4>10. \A i \in 1..c : R[i].seq \in Nat
        <5>1. R \in Seq(Samples) /\ Len(R) = c
          BY <1>2, <4>1, RecentTyped
        <5>2. \A i \in 1..c : R[i] \in Samples
          BY <5>1
        <5>3. \A x \in Samples : x.seq \in Nat
          BY Capacities DEF Samples
        <5> QED BY <5>2, <5>3
      <4> HIDE DEF e, R, r, new
      <4>11. PICK d \in Nat : d = e.ringCount
        BY <4>6, <4>9
      <4>12. d = Fewer(RingCap, t + 1)
        BY <4>6, <4>9, <4>11 DEF Fewer
      <4>13. ASSUME NEW i \in 1..d
             PROVE  /\ r[i].seq <= watermark + 1
                    /\ r[i].seq > mark <=> d - i < (t + 1) - o
        <5>1. mark <= watermark /\ watermark \in Nat /\ mark \in Nat
          BY <1>2 DEF Windows
        <5>2. CASE i = d
          <6>1. r[i].seq = watermark + 1
            BY <4>6, <4>7, <4>8, <4>9, <4>11, <5>2 DEF Fewer
          <6> QED BY <4>6, <5>1, <5>2, <6>1
        <5>3. CASE i < d /\ c < RingCap
          <6>1. d = c + 1 /\ i \in 1..c
            BY <4>9, <4>11, <5>3
          <6>2. r[i].seq = R[i].seq
            BY <4>8, <5>3, <6>1
          <6>3. d - i < (t + 1) - o <=> c - i < t - o
            BY <6>1
          <6>4. /\ R[i].seq <= watermark /\ R[i].seq \in Nat
                /\ R[i].seq > mark <=> c - i < t - o
            BY <4>6, <4>10, <6>1
          <6> QED BY <5>1, <6>2, <6>3, <6>4
        <5>4. CASE i < d /\ ~(c < RingCap)
          <6>1. d = c /\ c = RingCap /\ i \in 1..(c - 1) /\ i + 1 \in 1..c
            BY <4>6, <4>9, <4>11, <5>4 DEF Fewer
          <6>2. r[i].seq = R[i + 1].seq
            BY <4>8, <6>1
          <6>3. d - i < (t + 1) - o <=> c - (i + 1) < t - o
            BY <6>1
          <6>4. /\ R[i + 1].seq <= watermark /\ R[i + 1].seq \in Nat
                /\ R[i + 1].seq > mark <=> c - (i + 1) < t - o
            BY <4>6, <4>10, <6>1
          <6> QED BY <5>1, <6>2, <6>3, <6>4
        <5> QED BY <4>11, <5>2, <5>3, <5>4
      <4>14. o <= t + 1
        BY <4>6
      <4> QED BY <1>2, <2>2, <3>2, <3>4, <4>4, <4>5, <4>11, <4>12, <4>13, <4>14 DEF WindowOf, r
    <3> QED BY <3>3, <3>4
  <2> QED BY <2>3, <2>4 DEF Windows
<1> QED BY <1>1, <1>3, <1>4

LEMMA WindowsStep ==
  ASSUME Safe, Windows, [Next]_vars
  PROVE  Windows'
<1>1. ASSUME UNCHANGED <<watermark, mark, made>>,
             \A s \in Streams : /\ RecentOf(ps[s])' = RecentOf(ps[s])
                                /\ ps'[s].ringCount = ps[s].ringCount
      PROVE  Windows'
  BY <1>1 DEF Windows, WindowOf
<1>2. ASSUME UNCHANGED ps
      PROVE  \A s \in Streams : /\ RecentOf(ps[s])' = RecentOf(ps[s])
                                /\ ps'[s].ringCount = ps[s].ringCount
  BY <1>2 DEF RecentOf
<1>3. ASSUME NEW s \in Streams, BeginLatency(s) PROVE Windows'
  <2>1. UNCHANGED <<watermark, mark, made>> /\ ps \in [Streams -> PerStream]
    BY <1>3 DEF BeginLatency, Safe, TypeOK
  <2>2. /\ ps' = [ps EXCEPT ![s] = Entered(ps[s], nextNum[s])]
        /\ RecentOf(ps'[s]) = RecentOf(ps[s]) /\ ps'[s].ringCount = ps[s].ringCount
    BY <1>3, BeginStep
  <2>3. \A u \in Streams : RecentOf(ps'[u]) = RecentOf(ps[u]) /\ ps'[u].ringCount = ps[u].ringCount
    BY <2>1, <2>2
  <2>4. \A u \in Streams : RecentOf(ps[u])' = RecentOf(ps'[u])
    BY DEF RecentOf
  <2> QED BY <1>1, <2>1, <2>3, <2>4
<1>4. ASSUME NEW s \in Streams, Lose(s) \/ StartOver(s) PROVE Windows'
  BY <1>1, <1>2, <1>4 DEF Lose, StartOver, tracker
<1>5. CASE OpenWindow
  <2>1. /\ mark' = watermark /\ ps' = ps /\ watermark' = watermark
        /\ made' = [s \in Streams |-> [made[s] EXCEPT !.opened = made[s].total]]
    BY <1>5 DEF OpenWindow, tracker
  <2>2. watermark \in Nat /\ ps \in [Streams -> PerStream]
        /\ made \in [Streams -> [total : Nat, opened : Nat]]
    BY DEF Safe, TypeOK, WorldType
  <2>3. ASSUME watermark < SeqRange, NEW s \in Streams PROVE WindowOf(s)'
    <3>1. WindowOf(s)
      BY <2>3 DEF Windows
    <3>2. PICK t \in Nat : t = made[s].total
      BY <2>2
    <3>3. made'[s].total = t /\ made'[s].opened = t
      BY <2>1, <2>2, <3>2
    <3>4. PICK c \in Nat : c = ps[s].ringCount
      BY <2>2, Capacities DEF PerStream
    <3>5. RecentOf(ps[s])' = RecentOf(ps[s])
      BY <2>1 DEF RecentOf
    <3>6. \A i \in 1..c : RecentOf(ps[s])[i].seq \in Nat
      <4>1. RecentOf(ps[s]) \in Seq(Samples) /\ Len(RecentOf(ps[s])) = c
        BY <2>2, <3>4, RecentTyped
      <4>2. \A i \in 1..c : RecentOf(ps[s])[i] \in Samples
        BY <4>1
      <4>3. \A x \in Samples : x.seq \in Nat
        BY Capacities DEF Samples
      <4> QED BY <4>2, <4>3
    <3>7. /\ c = Fewer(RingCap, t) /\ \A i \in 1..c : RecentOf(ps[s])[i].seq <= watermark
      BY <3>1, <3>2, <3>4 DEF WindowOf
    <3>8. \A i \in 1..c : ~(c - i < t - t) /\ ~(RecentOf(ps[s])[i].seq > watermark)
      BY <2>2, <3>6, <3>7
    <3> QED BY <2>1, <3>3, <3>4, <3>5, <3>7, <3>8 DEF WindowOf
  <2> QED BY <2>1, <2>2, <2>3 DEF Windows
<1>6. CASE Tick
  BY <1>1, <1>2, <1>6 DEF Tick, tracker
<1>7. CASE UNCHANGED vars
  BY <1>1, <1>2, <1>7 DEF vars, tracker
<1> QED BY <1>3, <1>4, <1>5, <1>6, <1>7, WindowsEnd DEF Next, Probes

\* However many samples a ring keeps, and whenever the window is opened and read: what
\* handle_benchmark reads of a stream's ring, by latency_samples_since and
\* latency_stats_since, is all it made in the window as far as the ring reaches back,
\* until a sample's number no longer fits its 32 bits.
THEOREM WindowsAreExact == Spec => [](watermark < SeqRange => WindowIsExact)
<1>1. Safe /\ Windows => (watermark < SeqRange => WindowIsExact)
  BY WindowsSuffice
<1> QED BY <1>1, SafeAlways, WindowsInit, WindowsStep, PTL DEF Spec


------------------------------------------------------------------------------
(* Whose time a sample is *)

Lost(s, num) == \E x \in lost[s] : x.num = num

\* Each waiting entry is one of its own of the frames under way; only of a number that
\* was lost there may be more.
MatchedBy(s, h) ==
  LET q == QueueOf(ps[s]) IN
  \A i \in DOMAIN q : ~Lost(s, q[i].num) =>
    /\ h[i] \in DOMAIN flying[s] /\ flying[s][h[i]] = q[i]
    /\ \A j \in DOMAIN q : ~Lost(s, q[j].num) /\ h[j] = h[i] => j = i

Matched(s) == \E h \in [DOMAIN QueueOf(ps[s]) -> Int] : MatchedBy(s, h)

\* No frame under way began longer after an entry than an entry may grow old.
Near(s) ==
  \A i \in DOMAIN flying[s] : \A j \in DOMAIN QueueOf(ps[s]) :
    flying[s][i].start - QueueOf(ps[s])[j].start <= MaxAge

Honest == \A s \in Streams : InOrder(flying[s]) /\ Near(s) /\ Matched(s)

\* What Safe says of one stream.
LEMMA StreamTyped ==
  ASSUME Safe, NEW s \in Streams
  PROVE  /\ ps \in [Streams -> PerStream] /\ flying \in [Streams -> Seq(Entries)]
         /\ lost \in [Streams -> SUBSET Entries] /\ ps[s] \in PerStream
         /\ QueueOf(ps[s]) \in Seq(Entries) /\ flying[s] \in Seq(Entries)
         /\ InOrder(QueueOf(ps[s])) /\ now \in Nat
         /\ \A i \in DOMAIN QueueOf(ps[s]) : QueueOf(ps[s])[i].start \in Nat
         /\ \A i \in DOMAIN flying[s] : flying[s][i].start \in Nat
<1>1. /\ ps \in [Streams -> PerStream] /\ flying \in [Streams -> Seq(Entries)]
      /\ lost \in [Streams -> SUBSET Entries] /\ now \in Nat
      /\ InOrder(QueueOf(ps[s]))
  BY Capacities DEF Safe, TypeOK, WorldType, Ordered
<1>2. ps[s] \in PerStream /\ QueueOf(ps[s]) \in Seq(Entries) /\ flying[s] \in Seq(Entries)
  BY <1>1, QueueTyped
<1>3. \A e \in Entries : e.start \in Nat
  BY Capacities DEF Entries
<1>4. \A i \in DOMAIN QueueOf(ps[s]) : QueueOf(ps[s])[i] \in Entries
  BY <1>2
<1>5. \A i \in DOMAIN flying[s] : flying[s][i] \in Entries
  BY <1>2
<1> QED BY <1>1, <1>2, <1>3, <1>4, <1>5

\* The sample just taken is the newest in the ring.
LEMMA NewSampleIs ==
  ASSUME NEW p \in PerStream, NEW seq \in Nat, NEW latency \in Nat
  PROVE  NewSample(Sampled(p, seq, latency)).latency = latency
<1> DEFINE sample == [seq |-> seq % SeqRange, latency |-> latency]
           r == Sampled(p, seq, latency)
<1>1. /\ r.ringHead = Around(RingCap, p.ringHead, 1)
      /\ r.ring = [p.ring EXCEPT ![p.ringHead] = sample]
  BY SampledTyped
<1>2. PICK h \in 0..(RingCap - 1) : h = p.ringHead
  BY DEF PerStream
<1>3. p.ring \in [0..(RingCap - 1) -> Samples]
  BY DEF PerStream
<1>4. (Around(RingCap, h, 1) + RingCap - 1) % RingCap = Around(RingCap, h, 1 - 1)
  <2>1. RingCap \in Nat \ {0} /\ 0 \in 0..RingCap /\ 1 \in 0..RingCap /\ 0 + 1 <= RingCap
    BY Capacities
  <2> QED BY <2>1, AroundsMove
<1>5. Around(RingCap, h, 0) = h
  BY Capacities DEF Around
<1> HIDE DEF r, sample
<1>6. r.ring[h] = sample
  BY <1>1, <1>2, <1>3
<1>7. NewSample(r) = sample
  BY <1>1, <1>2, <1>4, <1>5, <1>6 DEF NewSample
<1> QED BY <1>7 DEF r, sample

LEMMA HonestInit == Init => Honest
<1> SUFFICES ASSUME Init, NEW s \in Streams PROVE InOrder(flying[s]) /\ Near(s) /\ Matched(s)
  BY DEF Honest
<1>1. flying[s] = <<>>
  BY DEF Init
<1>2. QueueOf(ps[s]) \in Seq(Entries) /\ Len(QueueOf(ps[s])) = 0
  <2>1. Safe
    BY SafeInit
  <2>2. ps[s] \in PerStream /\ ps[s].pendingSize = 0
    BY <2>1 DEF Init, Safe, TypeOK
  <2> QED BY <2>2, QueueTyped
<1>3. DOMAIN QueueOf(ps[s]) = {} /\ DOMAIN flying[s] = {}
  BY <1>1, <1>2
<1>4. InOrder(flying[s]) /\ Near(s)
  BY <1>3 DEF InOrder, Near
<1>5. Matched(s)
  <2>1. PICK h \in [DOMAIN QueueOf(ps[s]) -> Int] : TRUE
    <3>1. [i \in DOMAIN QueueOf(ps[s]) |-> 0] \in [DOMAIN QueueOf(ps[s]) -> Int]
      OBVIOUS
    <3> QED BY <3>1
  <2>2. MatchedBy(s, h)
    BY <1>3 DEF MatchedBy
  <2> QED BY <2>2 DEF Matched
<1> QED BY <1>4, <1>5

LEMMA HonestBegin ==
  ASSUME Safe, Honest, NEW s \in Streams, BeginLatency(s)
  PROVE  InOrder(flying[s])' /\ Near(s)' /\ Matched(s)'
<1>0. PICK num \in 0..MaxFrames : num = nextNum[s]
  BY BeginStep
<1> DEFINE p == ps[s]
           q == QueueOf(p)
           r == QueueOf(ps'[s])
           f == flying[s]
           g == flying'[s]
           frame == [num |-> num, start |-> now]
<1>1. /\ ps' = [ps EXCEPT ![s] = Entered(p, num)]
      /\ p \in PerStream /\ now \in 0..MaxClock /\ frame \in Entries
      /\ flying' = [flying EXCEPT ![s] = Append(f, frame)]
      /\ ps' \in [Streams -> PerStream]
  BY <1>0, BeginStep
<1>2. now' = now /\ lost' = lost
  BY DEF BeginLatency
<1>3. /\ ps \in [Streams -> PerStream] /\ flying \in [Streams -> Seq(Entries)]
      /\ q \in Seq(Entries) /\ f \in Seq(Entries) /\ InOrder(q) /\ now \in Nat
      /\ \A i \in DOMAIN q : q[i].start \in Nat
      /\ \A i \in DOMAIN f : f[i].start \in Nat
  BY StreamTyped
<1>4. InOrder(f) /\ Near(s) /\ Matched(s)
  BY DEF Honest
<1>5. ps'[s] = Entered(p, num) /\ g = Append(f, frame)
  BY <1>1, <1>3
<1>6. PICK n \in Nat : n = p.pendingSize
  BY <1>1, QueueTyped, Capacities
<1>7. PICK v \in Nat : v = Evicted(p)
  BY <1>1, EvictedIs, QueueTyped, Capacities
<1>8. PICK l \in Nat : l = Len(f)
  BY <1>3
<1>9. /\ v <= n /\ Len(r) = n - v + 1
      /\ \A i \in 1..(n - v) : r[i] = q[v + i]
      /\ r[n - v + 1] = frame
  <2>1. /\ v <= n /\ Len(QueueOf(Entered(p, num))) = n - v + 1
        /\ \A i \in 1..(n - v) : QueueOf(Entered(p, num))[i] = q[v + i]
        /\ QueueOf(Entered(p, num))[n - v + 1] = frame
    <3>1. p \in PerStream /\ now \in 0..MaxClock /\ n = p.pendingSize /\ v = Evicted(p)
      BY <1>1, <1>6, <1>7
    <3>2. LET q1 == QueueOf(p) r1 == QueueOf(Entered(p, num)) IN
          /\ v <= n /\ n - v < PendingCap
          /\ Len(r1) = n - v + 1
          /\ \A i \in 1..(n - v) : r1[i] = q1[v + i]
          /\ r1[n - v + 1] = [num |-> num, start |-> now]
      BY <3>1, EnteredQueue
    <3> QED BY <3>2
  <2> QED BY <1>5, <2>1
<1>10. r \in Seq(Entries)
  <2>1. ps'[s] \in PerStream
    BY <1>1
  <2> QED BY <2>1, QueueTyped
<1>11. DOMAIN q = 1..n /\ DOMAIN r = 1..(n - v + 1) /\ DOMAIN f = 1..l
  <2>1. Len(q) = n
    BY <1>1, <1>6, QueueTyped
  <2> QED BY <1>3, <1>8, <1>9, <1>10, <2>1
<1>12. frame.start = now
  OBVIOUS
<1> HIDE DEF frame
<1>13. /\ DOMAIN g = 1..(l + 1) /\ g[l + 1] = frame
       /\ \A i \in 1..l : g[i] = f[i]
  BY <1>1, <1>3, <1>5, <1>8, AppendProperties
<1> HIDE DEF p, q, r, f, g
<1>14. \A i \in 1..(n - v) : v + i \in 1..n
  BY <1>9
<1>15. \A i \in 1..(n - v + 1) : i \in 1..(n - v) \/ i = n - v + 1
  BY <1>9
<1>16. \A i \in 1..(l + 1) : i \in 1..l \/ i = l + 1
  BY <1>8
<1>17. InOrder(g)
  <2>1. \A i \in DOMAIN g : g[i].start <= now
    BY <1>3, <1>4, <1>11, <1>12, <1>13, <1>16 DEF InOrder
  <2>2. ASSUME NEW i \in DOMAIN g, NEW j \in DOMAIN g, i <= j
        PROVE  g[i].start <= g[j].start
    <3>1. CASE j = l + 1
      BY <1>12, <1>13, <2>1, <3>1
    <3>2. CASE j \in 1..l
      <4>1. i \in 1..l
        BY <1>13, <2>2, <3>2
      <4> QED BY <1>4, <1>11, <1>13, <2>2, <3>2, <4>1 DEF InOrder
    <3> QED BY <1>13, <1>16, <3>1, <3>2
  <2> QED BY <2>1, <2>2 DEF InOrder
\* What is left is not too old, for a frame that begins now.
<1>18. ASSUME NEW i \in DOMAIN g, NEW j \in DOMAIN r
       PROVE  g[i].start - r[j].start <= MaxAge
  <2>1. MaxAge \in Nat
    BY Capacities
  <2>2. CASE j = n - v + 1
    <3>1. r[j].start = now /\ g[i].start <= now
      BY <1>9, <1>12, <1>17, <2>2 DEF InOrder
    <3>2. g[i].start \in Nat
      BY <1>3, <1>11, <1>12, <1>13, <1>16
    <3> QED BY <1>3, <2>1, <3>1, <3>2
  <2>3. CASE j \in 1..(n - v) /\ i \in 1..l
    <3>1. r[j] = q[v + j] /\ v + j \in DOMAIN q /\ g[i] = f[i] /\ i \in DOMAIN f
      BY <1>9, <1>11, <1>13, <1>14, <2>3
    <3> QED BY <1>4, <3>1 DEF Near, f, q, p
  <2>4. CASE j \in 1..(n - v) /\ i = l + 1
    <3>1. r[j] = q[v + j] /\ v + j \in 1..n /\ g[i].start = now
      BY <1>9, <1>12, <1>13, <1>14, <2>4
    <3>2. PICK a \in Nat : a = Aged(p)
      BY <1>1, AgedIs, QueueTyped, Capacities
    <3>3. a <= v /\ a < n /\ ~TooOld(p, a)
      <4>1. a \in 0..n /\ (a < n => ~TooOld(p, a))
        BY <1>1, <1>6, <3>2, AgedIs
      <4>2. v = a + (IF n - a = PendingCap THEN 1 ELSE 0)
        BY <1>1, <1>6, <1>7, <3>2, EvictedIs
      <4>3. a <= v
        BY <4>2
      <4>4. v < n
        BY <2>4
      <4> QED BY <4>1, <4>3, <4>4
    <3>4. a + 1 \in 1..n /\ a + 1 <= v + j
      BY <2>4, <3>3
    <3>5. q[a + 1] = Waiting(p, a)
      <4>1. q[a + 1] = p.pending[Slot(p, (a + 1) - 1)]
        BY <1>1, <1>6, <3>4, QueueTyped DEF q
      <4>2. (a + 1) - 1 = a
        OBVIOUS
      <4> QED BY <4>1, <4>2 DEF Waiting
    <3>6. ~(now - q[a + 1].start > MaxAge)
      BY <3>3, <3>5 DEF TooOld
    <3>7. q[a + 1].start <= q[v + j].start
      BY <1>3, <1>11, <3>1, <3>4 DEF InOrder
    <3>8. q[a + 1].start \in Nat /\ q[v + j].start \in Nat
      BY <1>3, <1>11, <3>1, <3>4
    <3>9. PICK x \in Nat, y \in Nat : x = q[a + 1].start /\ y = q[v + j].start
      BY <3>8
    <3>10. now - y <= MaxAge
      <4>1. ~(now - x > MaxAge) /\ x <= y
        BY <3>6, <3>7, <3>9
      <4>2. now \in Nat
        BY <1>3
      <4> QED BY <2>1, <4>1, <4>2
    <3> QED BY <3>1, <3>9, <3>10
  <2> QED BY <1>11, <1>13, <1>15, <1>16, <2>2, <2>3, <2>4
<1>19. \E h \in [DOMAIN r -> Int] :
         \A i \in DOMAIN r : ~Lost(s, r[i].num) =>
           /\ h[i] \in DOMAIN g /\ g[h[i]] = r[i]
           /\ \A j \in DOMAIN r : ~Lost(s, r[j].num) /\ h[j] = h[i] => j = i
  <2>1. PICK h \in [DOMAIN q -> Int] : MatchedBy(s, h)
    BY <1>4 DEF Matched, q, p
  <2>2. \A i \in 1..n : ~Lost(s, q[i].num) =>
          /\ h[i] \in 1..l /\ f[h[i]] = q[i]
          /\ \A j \in 1..n : ~Lost(s, q[j].num) /\ h[j] = h[i] => j = i
    BY <1>11, <2>1 DEF MatchedBy, q, p, f
  <2> DEFINE k == [i \in DOMAIN r |-> IF i = n - v + 1 THEN l + 1 ELSE h[v + i]]
  <2>3. k \in [DOMAIN r -> Int]
    BY <1>11, <1>14, <1>15
  <2>4. k[n - v + 1] = l + 1 /\ n - v + 1 \in DOMAIN r
    BY <1>9, <1>11
  <2>5. \A i \in 1..(n - v) : k[i] = h[v + i] /\ i # n - v + 1
    BY <1>9, <1>11
  <2> HIDE DEF k
  <2>6. ASSUME NEW i \in DOMAIN r, ~Lost(s, r[i].num)
        PROVE  k[i] \in DOMAIN g /\ g[k[i]] = r[i]
    <3>1. CASE i = n - v + 1
      BY <1>9, <1>13, <2>4, <3>1
    <3>2. CASE i \in 1..(n - v)
      <4>1. r[i] = q[v + i] /\ v + i \in 1..n
        BY <1>9, <1>14, <3>2
      <4>2. k[i] \in 1..l /\ f[k[i]] = r[i]
        BY <2>2, <2>5, <2>6, <3>2, <4>1
      <4> QED BY <1>13, <1>8, <4>2
    <3> QED BY <1>11, <1>15, <3>1, <3>2
  <2>7. ASSUME NEW i \in DOMAIN r, ~Lost(s, r[i].num), NEW j \in DOMAIN r, ~Lost(s, r[j].num),
               k[j] = k[i]
        PROVE  j = i
    <3>0. ASSUME NEW x \in 1..(n - v), ~Lost(s, r[x].num) PROVE k[x] \in 1..l /\ k[x] # l + 1
      <4>1. r[x] = q[v + x] /\ v + x \in 1..n
        BY <1>9, <1>14
      <4>2. k[x] \in 1..l
        BY <2>2, <2>5, <3>0, <4>1
      <4> QED BY <1>8, <4>2
    <3>1. CASE i \in 1..(n - v) /\ j \in 1..(n - v)
      <4>1. /\ r[i] = q[v + i] /\ v + i \in 1..n /\ r[j] = q[v + j] /\ v + j \in 1..n
            /\ h[v + j] = h[v + i]
        BY <1>9, <1>14, <2>5, <2>7, <3>1
      <4>2. v + j = v + i
        BY <2>2, <2>7, <4>1
      <4> QED BY <3>1, <4>2
    <3>2. CASE i = n - v + 1
      BY <1>11, <1>15, <2>4, <2>7, <3>0, <3>2
    <3>3. CASE j = n - v + 1
      BY <1>11, <1>15, <2>4, <2>7, <3>0, <3>3
    <3> QED BY <1>11, <1>15, <3>1, <3>2, <3>3
  <2> QED BY <2>3, <2>6, <2>7
<1>20. QueueOf(ps[s])' = r
  BY DEF r, QueueOf, Waiting, Slot
<1>21. InOrder(flying[s])' /\ Near(s)'
  BY <1>2, <1>17, <1>18, <1>20 DEF InOrder, Near, g
<1>22. Matched(s)'
  BY <1>2, <1>19, <1>20 DEF Matched, MatchedBy, Lost, g
<1> QED BY <1>21, <1>22


\* The frames behind the first, when that has left.
LEMMA FlyingOn ==
  ASSUME Safe, Honest, NEW s \in Streams, flying[s] # <<>>,
         flying' = [flying EXCEPT ![s] = Tail(flying[s])], now' = now,
         NEW l \in Nat, l = Len(flying[s])
  PROVE  /\ DOMAIN flying[s] = 1..l /\ l > 0 /\ flying[s][1] = Head(flying[s])
         /\ DOMAIN flying'[s] = 1..(l - 1) /\ flying'[s] = Tail(flying[s])
         /\ \A i \in 1..(l - 1) : i + 1 \in 1..l /\ flying'[s][i] = flying[s][i + 1]
         /\ InOrder(flying[s])'
<1> DEFINE f == flying[s]
           g == flying'[s]
<1>1. f \in Seq(Entries) /\ flying \in [Streams -> Seq(Entries)] /\ InOrder(f)
  BY StreamTyped DEF Honest
<1>2. g = Tail(f)
  BY <1>1
<1>3. /\ g \in Seq(Entries) /\ Len(g) = l - 1 /\ Head(f) = f[1] /\ l > 0
      /\ \A i \in 1..(l - 1) : g[i] = f[i + 1]
  BY <1>1, <1>2, TailTyped
<1>4. DOMAIN f = 1..l /\ DOMAIN g = 1..(l - 1)
  BY <1>1, <1>3
<1>5. \A i \in 1..(l - 1) : i + 1 \in 1..l
  OBVIOUS
<1>6. \A i, j \in 1..(l - 1) : i <= j => i + 1 <= j + 1
  OBVIOUS
<1> HIDE DEF f, g
<1>7. InOrder(g)
  BY <1>1, <1>3, <1>4, <1>5, <1>6 DEF InOrder
<1>8. InOrder(flying[s])'
  BY <1>7 DEF g, InOrder
<1> QED BY <1>2, <1>3, <1>4, <1>5, <1>8 DEF f, g

LEMMA HonestLose ==
  ASSUME Safe, Honest, NEW s \in Streams, Lose(s)
  PROVE  InOrder(flying[s])' /\ Near(s)' /\ Matched(s)'
<1> DEFINE q == QueueOf(ps[s])
           Gone(num) == \E x \in lost'[s] : x.num = num
<1>1. /\ flying[s] # <<>> /\ lost' = [lost EXCEPT ![s] = lost[s] \union {Head(flying[s])}]
      /\ flying' = [flying EXCEPT ![s] = Tail(flying[s])] /\ now' = now /\ ps' = ps
  BY DEF Lose, tracker
<1>2. PICK l \in Nat : l = Len(flying[s])
  <2>1. flying[s] \in Seq(Entries)
    BY StreamTyped
  <2> QED BY <2>1
<1>3. /\ DOMAIN flying[s] = 1..l /\ flying[s][1] = Head(flying[s])
      /\ DOMAIN flying'[s] = 1..(l - 1)
      /\ \A i \in 1..(l - 1) : i + 1 \in 1..l /\ flying'[s][i] = flying[s][i + 1]
      /\ InOrder(flying[s])'
  BY <1>1, <1>2, FlyingOn
<1>4. QueueOf(ps[s])' = q
  BY <1>1 DEF QueueOf, Waiting, Slot
<1>5. lost'[s] = lost[s] \union {Head(flying[s])}
  BY <1>1, StreamTyped
<1>6. \A num : ~Gone(num) => ~Lost(s, num) /\ Head(flying[s]).num # num
  BY <1>5 DEF Lost
<1> HIDE DEF q, Gone
<1>7. Near(s)'
  <2>1. Near(s)
    BY DEF Honest
  <2> QED BY <1>3, <1>4, <2>1 DEF Near, q
<1>8. PICK h \in [DOMAIN q -> Int] : MatchedBy(s, h)
  BY DEF Honest, Matched, q
<1> DEFINE k == [i \in DOMAIN q |-> h[i] - 1]
<1>9. k \in [DOMAIN q -> Int]
  OBVIOUS
<1>10. ASSUME NEW i \in DOMAIN q, ~Gone(q[i].num)
       PROVE  k[i] \in DOMAIN flying'[s] /\ flying'[s][k[i]] = q[i]
  <2>1. ~Lost(s, q[i].num) /\ Head(flying[s]).num # q[i].num
    BY <1>6, <1>10
  <2>2. h[i] \in 1..l /\ flying[s][h[i]] = q[i]
    BY <1>3, <1>8, <2>1 DEF MatchedBy, q
  <2>3. h[i] # 1
    BY <1>3, <2>1, <2>2
  <2>4. k[i] \in 1..(l - 1) /\ k[i] + 1 = h[i]
    BY <2>2, <2>3
  <2> QED BY <1>3, <2>2, <2>4
<1>11. ASSUME NEW i \in DOMAIN q, ~Gone(q[i].num), NEW j \in DOMAIN q, ~Gone(q[j].num),
              k[j] = k[i]
       PROVE  j = i
  <2>1. ~Lost(s, q[i].num) /\ ~Lost(s, q[j].num)
    BY <1>6, <1>11
  <2>2. h[j] = h[i]
    BY <1>11
  <2> QED BY <1>8, <2>1, <2>2 DEF MatchedBy, q
<1> HIDE DEF k
<1>12. Matched(s)'
  <2>1. \E z \in [DOMAIN q -> Int] : \A i \in DOMAIN q : ~Gone(q[i].num) =>
          /\ z[i] \in DOMAIN flying'[s] /\ flying'[s][z[i]] = q[i]
          /\ \A j \in DOMAIN q : ~Gone(q[j].num) /\ z[j] = z[i] => j = i
    BY <1>9, <1>10, <1>11
  <2> QED BY <1>4, <2>1 DEF Matched, MatchedBy, Lost, Gone
<1> QED BY <1>3, <1>7, <1>12

LEMMA HonestEnd ==
  ASSUME Safe, Honest, NEW s \in Streams, EndLatency(s)
  PROVE  InOrder(flying[s])' /\ Near(s)' /\ Matched(s)'
<1> DEFINE q == QueueOf(ps[s])
           r == QueueOf(ps'[s])
           frame == Head(flying[s])
<1>1. /\ flying[s] # <<>> /\ flying' = [flying EXCEPT ![s] = Tail(flying[s])]
      /\ now' = now /\ lost' = lost
  BY DEF EndLatency
<1>2. PICK l \in Nat : l = Len(flying[s])
  <2>1. flying[s] \in Seq(Entries)
    BY StreamTyped
  <2> QED BY <2>1
<1>3. /\ DOMAIN flying[s] = 1..l /\ l > 0 /\ flying[s][1] = frame
      /\ DOMAIN flying'[s] = 1..(l - 1)
      /\ \A i \in 1..(l - 1) : i + 1 \in 1..l /\ flying'[s][i] = flying[s][i + 1]
      /\ InOrder(flying[s])'
  BY <1>1, <1>2, FlyingOn
<1>4. QueueOf(ps[s])' = r
  BY DEF QueueOf, Waiting, Slot
<1>5. /\ q \in Seq(Entries) /\ InOrder(q) /\ InOrder(flying[s]) /\ Near(s)
      /\ \A i \in DOMAIN q : q[i].start \in Nat
      /\ \A i \in DOMAIN flying[s] : flying[s][i] \in Entries /\ flying[s][i].start \in Nat
  <2>1. flying[s] \in Seq(Entries)
    BY StreamTyped
  <2>2. \A i \in DOMAIN flying[s] : flying[s][i] \in Entries
    BY <2>1
  <2>3. InOrder(flying[s]) /\ Near(s)
    BY DEF Honest
  <2> QED BY <2>2, <2>3, StreamTyped
<1>6. PICK n \in Nat : n = Len(q)
  BY <1>5
<1>7. PICK h \in [DOMAIN q -> Int] : MatchedBy(s, h)
  BY DEF Honest, Matched
<1>8. DOMAIN q = 1..n
  BY <1>5, <1>6
<1>9. \A i \in 1..n : ~Lost(s, q[i].num) =>
        /\ h[i] \in 1..l /\ flying[s][h[i]] = q[i]
        /\ \A j \in 1..n : ~Lost(s, q[j].num) /\ h[j] = h[i] => j = i
  BY <1>3, <1>7, <1>8 DEF MatchedBy
<1>10. \/ EndMisses(s, frame.num)
       \/ \E k \in 1..n : EndPairs(s, frame.num, k)
  BY <1>6, EndStep
<1> HIDE DEF q, r, frame
\* What is left of the queue, and what it is matched by.
<1>11. \E m \in Nat : \E at \in [1..m -> 1..n], d \in [1..m -> 1..n] :
         /\ DOMAIN r = 1..m
         /\ \A i \in 1..m : /\ r[i] = q[at[i]]
                            /\ ~Lost(s, r[i].num) =>
                                 h[d[i]] # 1 /\ q[d[i]] = r[i]
         /\ \A i, j \in 1..m : d[i] = d[j] /\ ~Lost(s, r[i].num) /\ ~Lost(s, r[j].num) => i = j
  <2>1. CASE EndMisses(s, frame.num)
    <3>1. r = q /\ \A i \in 1..n : q[i].num # frame.num
      BY <1>8, <2>1 DEF EndMisses, q, r
    <3> DEFINE id == [i \in 1..n |-> i]
    <3>2. id \in [1..n -> 1..n] /\ \A i \in 1..n : id[i] = i
      OBVIOUS
    <3> HIDE DEF id
    <3>3. \A i \in 1..n : ~Lost(s, q[i].num) => h[i] # 1
      BY <1>3, <1>9, <3>1
    <3> id \in [1..n -> 1..n]
      BY <3>2
    <3> WITNESS n \in Nat
    <3> WITNESS id \in [1..n -> 1..n], id \in [1..n -> 1..n]
    <3> QED BY <1>8, <3>1, <3>2, <3>3
  <2>2. CASE \E k \in 1..n : EndPairs(s, frame.num, k)
    <3>1. PICK k \in 1..n : EndPairs(s, frame.num, k)
      BY <2>2
    <3>2. /\ q[k].num = frame.num /\ \A j \in 1..(k - 1) : q[j].num # frame.num
          /\ r = RemoveAt(q, k)
      BY <3>1 DEF EndPairs, q, r
    <3>3. /\ r \in Seq(Entries) /\ Len(r) = n - 1
          /\ \A i \in 1..(n - 1) : r[i] = IF i < k THEN q[i] ELSE q[i + 1]
      BY <1>5, <1>6, <3>2, RemovedIs
    <3>4. n - 1 \in Nat /\ DOMAIN r = 1..(n - 1)
      BY <3>3
    <3> DEFINE at == [i \in 1..(n - 1) |-> IF i < k THEN i ELSE i + 1]
               d == [i \in 1..(n - 1) |-> IF h[at[i]] = 1 THEN k ELSE at[i]]
    <3>5. /\ at \in [1..(n - 1) -> 1..n]
          /\ \A i \in 1..(n - 1) : at[i] = IF i < k THEN i ELSE i + 1
      OBVIOUS
    <3>6. \A i \in 1..(n - 1) : r[i] = q[at[i]] /\ at[i] # k
      BY <3>3, <3>5
    <3>7. \A i, j \in 1..(n - 1) : at[i] = at[j] => i = j
      BY <3>5
    <3> HIDE DEF at
    <3>8. d \in [1..(n - 1) -> 1..n] /\ \A i \in 1..(n - 1) : d[i] = IF h[at[i]] = 1 THEN k ELSE at[i]
      BY <3>5
    <3> HIDE DEF d
    \* Where the frame that has left was another entry's match, that entry and the one
    \* taken out are the same, and its match is free.
    <3>9. ASSUME NEW i \in 1..(n - 1), ~Lost(s, r[i].num), h[at[i]] = 1
          PROVE  q[k] = r[i] /\ h[k] # 1
      <4>1. PICK a \in 1..n : a = at[i]
        BY <3>5
      <4>2. r[i] = q[a] /\ a # k /\ h[a] = 1 /\ ~Lost(s, q[a].num)
        BY <3>6, <3>9, <4>1
      <4>3. q[a] = frame
        BY <1>3, <1>9, <4>2
      <4>4. q[k].num = q[a].num /\ ~Lost(s, q[k].num)
        BY <3>2, <4>2, <4>3
      <4>5. h[k] \in 1..l /\ flying[s][h[k]] = q[k] /\ h[k] # 1
        BY <1>9, <4>2, <4>4
      <4>6. k < a
        <5>1. ~(a \in 1..(k - 1))
          BY <3>2, <4>3
        <5> QED BY <4>2, <5>1
      <4>7. q[k].start <= q[a].start
        BY <1>5, <1>8, <4>6 DEF InOrder
      <4>8. flying[s][1].start <= flying[s][h[k]].start
        <5>1. 1 \in 1..l /\ 1 <= h[k]
          BY <4>5
        <5> QED BY <1>3, <1>5, <4>5, <5>1 DEF InOrder
      <4>9. q[k].start = q[a].start
        <5>1. q[k].start \in Nat /\ q[a].start \in Nat
          BY <1>5, <1>8
        <5>2. q[a].start <= q[k].start
          BY <1>3, <4>3, <4>5, <4>8
        <5> QED BY <4>7, <5>1, <5>2
      <4>10. q[k] \in Entries /\ q[a] \in Entries
        BY <1>5, <1>8
      <4>11. q[k] = q[a]
        BY <4>4, <4>9, <4>10 DEF Entries
      <4> QED BY <4>2, <4>5, <4>11
    <3>10. ASSUME NEW i \in 1..(n - 1), ~Lost(s, r[i].num)
           PROVE  h[d[i]] # 1 /\ q[d[i]] = r[i]
      BY <3>6, <3>8, <3>9, <3>10
    <3>11. ASSUME NEW i \in 1..(n - 1), NEW j \in 1..(n - 1), d[i] = d[j],
                  ~Lost(s, r[i].num), ~Lost(s, r[j].num)
           PROVE  i = j
      <4>1. CASE h[at[i]] = 1 /\ h[at[j]] = 1
        <5>1. /\ at[i] \in 1..n /\ at[j] \in 1..n
              /\ ~Lost(s, q[at[i]].num) /\ ~Lost(s, q[at[j]].num)
          BY <3>5, <3>6, <3>11
        <5>2. at[j] = at[i]
          BY <1>9, <4>1, <5>1
        <5> QED BY <3>7, <5>2
      <4>2. CASE h[at[i]] # 1 /\ h[at[j]] # 1
        BY <3>7, <3>8, <3>11, <4>2
      <4>3. CASE (h[at[i]] = 1) # (h[at[j]] = 1)
        BY <3>6, <3>8, <3>11, <4>3
      <4> QED BY <4>1, <4>2, <4>3
    <3>12. \A i \in 1..(n - 1) : ~Lost(s, r[i].num) => h[d[i]] # 1 /\ q[d[i]] = r[i]
      BY <3>10
    <3>13. \A i, j \in 1..(n - 1) :
             d[i] = d[j] /\ ~Lost(s, r[i].num) /\ ~Lost(s, r[j].num) => i = j
      BY <3>11
    <3> n - 1 \in Nat /\ at \in [1..(n - 1) -> 1..n] /\ d \in [1..(n - 1) -> 1..n]
      BY <3>4, <3>5, <3>8
    <3> WITNESS n - 1 \in Nat
    <3> WITNESS at \in [1..(n - 1) -> 1..n], d \in [1..(n - 1) -> 1..n]
    <3> QED BY <3>4, <3>6, <3>12, <3>13
  <2> QED BY <1>10, <2>1, <2>2
<1>0. PICK m \in Nat : \E at \in [1..m -> 1..n], d \in [1..m -> 1..n] :
         /\ DOMAIN r = 1..m
         /\ \A i \in 1..m : /\ r[i] = q[at[i]]
                            /\ ~Lost(s, r[i].num) =>
                                 h[d[i]] # 1 /\ q[d[i]] = r[i]
         /\ \A i, j \in 1..m : d[i] = d[j] /\ ~Lost(s, r[i].num) /\ ~Lost(s, r[j].num) => i = j
  BY <1>11
<1>12. PICK at \in [1..m -> 1..n], d \in [1..m -> 1..n] :
         /\ DOMAIN r = 1..m
         /\ \A i \in 1..m : /\ r[i] = q[at[i]]
                            /\ ~Lost(s, r[i].num) =>
                                 h[d[i]] # 1 /\ q[d[i]] = r[i]
         /\ \A i, j \in 1..m : d[i] = d[j] /\ ~Lost(s, r[i].num) /\ ~Lost(s, r[j].num) => i = j
  BY <1>0
<1>13. Near(s)'
  <2>1. \A i \in 1..l, j \in 1..n : flying[s][i].start - q[j].start <= MaxAge
    BY <1>3, <1>5, <1>8 DEF Near, q
  <2>2. ASSUME NEW i \in 1..(l - 1), NEW j \in 1..m
        PROVE  flying'[s][i].start - r[j].start <= MaxAge
    <3>1. i + 1 \in 1..l /\ flying'[s][i] = flying[s][i + 1]
      BY <1>3
    <3>2. at[j] \in 1..n /\ r[j] = q[at[j]]
      BY <1>12
    <3> QED BY <2>1, <3>1, <3>2
  <2> QED BY <1>3, <1>4, <1>12, <2>2 DEF Near
<1>14. Matched(s)'
  <2> DEFINE k == [i \in 1..m |-> h[d[i]] - 1]
  <2>1. ASSUME NEW i \in 1..m, ~Lost(s, r[i].num)
        PROVE  k[i] \in 1..(l - 1) /\ flying'[s][k[i]] = r[i]
    <3>1. d[i] \in 1..n /\ q[d[i]] = r[i] /\ h[d[i]] # 1
      BY <1>12, <2>1
    <3>2. h[d[i]] \in 1..l /\ flying[s][h[d[i]]] = r[i]
      BY <1>9, <2>1, <3>1
    <3>3. k[i] \in 1..(l - 1) /\ k[i] + 1 = h[d[i]]
      BY <3>1, <3>2
    <3> QED BY <1>3, <3>2, <3>3
  <2>2. ASSUME NEW i \in 1..m, ~Lost(s, r[i].num), NEW j \in 1..m, ~Lost(s, r[j].num),
               k[j] = k[i]
        PROVE  j = i
    <3>1. /\ d[i] \in 1..n /\ q[d[i]] = r[i] /\ d[j] \in 1..n /\ q[d[j]] = r[j]
      BY <1>12, <2>2
    <3>2. h[d[j]] = h[d[i]]
      <4>1. h[d[i]] \in Int /\ h[d[j]] \in Int
        BY <1>8, <3>1
      <4> QED BY <2>2, <4>1
    <3>3. d[j] = d[i]
      BY <1>9, <2>2, <3>1, <3>2
    <3> QED BY <1>12, <2>2, <3>3
  <2>3. k \in [1..m -> Int]
    <3>1. \A i \in 1..m : h[d[i]] \in Int
      BY <1>8
    <3> QED BY <3>1
  <2> HIDE DEF k
  <2>4. \E z \in [DOMAIN r -> Int] : \A i \in DOMAIN r : ~Lost(s, r[i].num) =>
          /\ z[i] \in DOMAIN flying'[s] /\ flying'[s][z[i]] = r[i]
          /\ \A j \in DOMAIN r : ~Lost(s, r[j].num) /\ z[j] = z[i] => j = i
    <3>1. DOMAIN r = 1..m /\ DOMAIN flying'[s] = 1..(l - 1)
      BY <1>3, <1>12
    <3> k \in [DOMAIN r -> Int]
      BY <2>3, <3>1
    <3> WITNESS k \in [DOMAIN r -> Int]
    <3> QED BY <2>1, <2>2, <3>1
  <2>5. lost' = lost
    BY <1>1
  <2> QED BY <1>4, <2>4, <2>5 DEF Matched, MatchedBy, Lost
<1> QED BY <1>3, <1>13, <1>14


LEMMA HonestStep ==
  ASSUME Safe, Honest, [Next]_vars
  PROVE  Honest'
<1>1. ASSUME NEW u \in Streams, ps'[u] = ps[u], flying'[u] = flying[u], lost'[u] = lost[u],
             now' = now \/ now' = now + 1
      PROVE  InOrder(flying[u])' /\ Near(u)' /\ Matched(u)'
  <2>1. InOrder(flying[u]) /\ Near(u) /\ Matched(u)
    BY DEF Honest
  <2>2. QueueOf(ps[u])' = QueueOf(ps[u])
    BY <1>1 DEF QueueOf, Waiting, Slot
  <2>3. now \in Nat /\ \A i \in DOMAIN flying[u] : flying[u][i].start \in Nat
    BY StreamTyped
  <2>4. InOrder(flying[u])'
    BY <1>1, <2>1, <2>3 DEF InOrder
  <2>5. Near(u)'
    BY <1>1, <2>1, <2>2 DEF Near
  <2>6. Matched(u)'
    BY <1>1, <2>1, <2>2 DEF Matched, MatchedBy, Lost
  <2> QED BY <2>4, <2>5, <2>6
<1>2. /\ ps \in [Streams -> PerStream] /\ flying \in [Streams -> Seq(Entries)]
      /\ lost \in [Streams -> SUBSET Entries]
  BY DEF Safe, TypeOK, WorldType
<1>3. ASSUME NEW s \in Streams, BeginLatency(s) PROVE Honest'
  <2>1. /\ ps' = [ps EXCEPT ![s] = Entered(ps[s], nextNum[s])]
        /\ flying' = [flying EXCEPT ![s] = Append(flying[s], [num |-> nextNum[s], start |-> now])]
        /\ now' = now /\ lost' = lost
    BY <1>3 DEF BeginLatency
  <2>2. \A u \in Streams \ {s} : ps'[u] = ps[u] /\ flying'[u] = flying[u] /\ lost'[u] = lost[u]
    BY <1>2, <2>1
  <2> QED BY <1>1, <1>3, <2>1, <2>2, HonestBegin DEF Honest
<1>4. ASSUME NEW s \in Streams, EndLatency(s) PROVE Honest'
  <2>1. flying' = [flying EXCEPT ![s] = Tail(@)] /\ now' = now /\ lost' = lost
    BY <1>4 DEF EndLatency
  <2>2. \A u \in Streams \ {s} : ps'[u] = ps[u]
    <3>1. CASE EndMisses(s, Head(flying[s]).num)
      BY <1>2, <3>1 DEF EndMisses
    <3>2. CASE \E k \in 1..Len(QueueOf(ps[s])) : EndPairs(s, Head(flying[s]).num, k)
      BY <1>2, <3>2 DEF EndPairs
    <3> QED BY <1>4, <3>1, <3>2, EndStep
  <2>3. \A u \in Streams \ {s} : flying'[u] = flying[u]
    BY <1>2, <2>1
  <2> QED BY <1>1, <1>4, <2>1, <2>2, <2>3, HonestEnd DEF Honest
<1>5. ASSUME NEW s \in Streams, Lose(s) PROVE Honest'
  <2>1. /\ lost' = [lost EXCEPT ![s] = @ \union {Head(flying[s])}]
        /\ flying' = [flying EXCEPT ![s] = Tail(@)] /\ now' = now /\ ps' = ps
    BY <1>5 DEF Lose, tracker
  <2>2. \A u \in Streams \ {s} : ps'[u] = ps[u] /\ flying'[u] = flying[u] /\ lost'[u] = lost[u]
    BY <1>2, <2>1
  <2> QED BY <1>1, <1>5, <2>1, <2>2, HonestLose DEF Honest
<1>6. ASSUME ps' = ps, flying' = flying, lost' = lost, now' = now \/ now' = now + 1 PROVE Honest'
  BY <1>1, <1>6 DEF Honest
<1>7. ASSUME NEW s \in Streams, StartOver(s) PROVE Honest'
  BY <1>6, <1>7 DEF StartOver, tracker
<1>8. CASE OpenWindow
  BY <1>6, <1>8 DEF OpenWindow, tracker, world
<1>9. CASE Tick
  BY <1>6, <1>9 DEF Tick, tracker, world
<1>10. CASE UNCHANGED vars
  BY <1>6, <1>10 DEF vars, tracker, world
<1> QED BY <1>3, <1>4, <1>5, <1>7, <1>8, <1>9, <1>10 DEF Next, Probes

LEMMA SampleIsTrue ==
  ASSUME Safe, Honest, NEW s \in Streams, EndLatency(s), watermark' # watermark
  PROVE  LET frame == Head(flying[s])
             begin == now - NewSample(ps'[s]).latency
         IN  \/ begin = frame.start
             \/ /\ frame.start - begin <= MaxAge
                /\ \E other \in lost[s] \union ToSet(Tail(flying[s])) : other.num = frame.num
<1> DEFINE q == QueueOf(ps[s])
           f == flying[s]
           frame == Head(f)
<1>1. /\ f # <<>> /\ f \in Seq(Entries) /\ Near(s) /\ Matched(s)
      /\ ps \in [Streams -> PerStream] /\ ps[s] \in PerStream /\ now \in Nat
      /\ q \in Seq(Entries)
  BY StreamTyped DEF EndLatency, Honest
<1>2. watermark \in Nat
  BY DEF Safe, TypeOK
<1>3. PICK k \in 1..Len(q) : EndPairs(s, frame.num, k)
  <2>1. ~EndMisses(s, frame.num)
    BY DEF EndMisses
  <2> QED BY <2>1, EndStep
<1>4. k \in DOMAIN q
  BY <1>1
<1>5. /\ q[k].num = frame.num
      /\ now - q[k].start \in Nat /\ Without(ps[s], k - 1) \in PerStream
      /\ ps' = [ps EXCEPT ![s] = Sampled(Without(ps[s], k - 1), watermark + 1, now - q[k].start)]
  BY <1>3 DEF EndPairs
<1>6. NewSample(ps'[s]).latency = now - q[k].start
  <2>1. ps'[s] = Sampled(Without(ps[s], k - 1), watermark + 1, now - q[k].start)
    BY <1>1, <1>5
  <2>2. watermark + 1 \in Nat
    BY <1>2
  <2> QED BY <1>5, <2>1, <2>2, NewSampleIs
<1>7. PICK b \in Nat : b = q[k].start
  BY <1>4, StreamTyped
<1>8. now - NewSample(ps'[s]).latency = b
  BY <1>1, <1>6, <1>7
<1>9. /\ frame = f[1] /\ Len(f) \in Nat \ {0} /\ Len(Tail(f)) = Len(f) - 1
      /\ Tail(f) \in Seq(Entries)
      /\ \A i \in 1..(Len(f) - 1) : Tail(f)[i] = f[i + 1]
  BY <1>1, TailTyped
<1>10. frame.start - b <= MaxAge
  <2>1. 1 \in DOMAIN f
    BY <1>1, <1>9
  <2> QED BY <1>1, <1>4, <1>7, <1>9, <2>1 DEF Near
<1>11. CASE Lost(s, frame.num)
  BY <1>8, <1>10, <1>11 DEF Lost
<1>12. CASE ~Lost(s, frame.num)
  <2>1. PICK h \in [DOMAIN q -> Int] : MatchedBy(s, h)
    BY <1>1 DEF Matched
  <2>2. h[k] \in DOMAIN f /\ f[h[k]] = q[k]
    BY <1>4, <1>5, <1>12, <2>1 DEF MatchedBy
  <2>3. PICK i \in 1..Len(f) : i = h[k]
    BY <1>1, <2>2
  <2>4. CASE i = 1
    BY <1>7, <1>8, <1>9, <2>2, <2>3, <2>4
  <2>5. CASE i # 1
    <3>1. i - 1 \in 1..(Len(f) - 1) /\ (i - 1) + 1 = i
      BY <1>9, <2>5
    <3>2. Tail(f)[i - 1] = q[k] /\ i - 1 \in DOMAIN Tail(f)
      BY <1>9, <2>2, <2>3, <3>1
    <3>3. q[k] \in ToSet(Tail(f))
      BY <3>2 DEF ToSet
    <3> QED BY <1>5, <1>8, <1>10, <3>3
  <2> QED BY <2>4, <2>5
<1> QED BY <1>11, <1>12

\* However frames are lost, and however often the numbers of a stream start over: what
\* on_latency_end records is the time the frame itself took, or, where a frame of its
\* number was lost or is still under way, no more than the allowed age too much.
THEOREM SamplesTellTheTruth == Spec => SamplesAreTrue
<1>1. Safe /\ Honest =>
        \A s \in Streams :
          EndLatency(s) /\ watermark' # watermark =>
            LET frame == Head(flying[s])
                begin == now - NewSample(ps'[s]).latency
            IN  \/ begin = frame.start
                \/ /\ frame.start - begin <= MaxAge
                   /\ \E other \in lost[s] \union ToSet(Tail(flying[s])) : other.num = frame.num
  BY SampleIsTrue
<1> QED BY <1>1, SafeAlways, HonestInit, HonestStep, PTL DEF Spec, SamplesAreTrue
=============================================================================
