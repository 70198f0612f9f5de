----------------------------- MODULE LatencyTracker -----------------------------
(***************************************************************************)
(* The latency tracking of MetricsRegistry and the benchmark that reads it.*)
(*                                                                         *)
(* The probe in front of the inference enters a frame into an array of the *)
(* frames under way, the probe behind the tracker takes it out again and   *)
(* adds a sample to a ring; both arrays are used round and round.  A       *)
(* benchmark notes the number of the newest sample when its window opens   *)
(* and reads the later ones when it has closed, one stream after another.  *)
(* Every call takes the registry's one lock.                               *)
(*                                                                         *)
(* Between the probes frames keep their order; the elements there may lose *)
(* a frame, and the numbers of a stream's frames start over when its chain *)
(* is rebuilt.  Left out: the counters of frames and the rates derived     *)
(* from them, calls with an invalid stream, and a clock that runs back,    *)
(* which the monotonic clock does not.                                     *)
(***************************************************************************)
EXTENDS Integers, SequencesExt

CONSTANTS
  Streams,    \* indices of the streams
  PendingCap, \* kPendingCap
  RingCap,    \* kLatencyRingCap
  MaxAge,     \* kPendingMaxAgeNs
  SeqRange,   \* 2^32: a sample's number is kept in 32 bits
  MaxClock, MaxFrames, MaxLost, MaxRestarts  \* bounds

ASSUME TrackerAssumption ==
  /\ Streams \subseteq Nat
  /\ {PendingCap, RingCap, SeqRange} \subseteq Nat \ {0}
  /\ {MaxAge, MaxClock, MaxFrames, MaxLost, MaxRestarts} \subseteq Nat

VARIABLES
  now,       \* the clock
  ps,        \* PerStream: the two arrays and their positions
  watermark, \* latency_watermark_
  flying,    \* frames between the two probes, oldest first: number and true start
  nextNum,   \* number of the stream's next frame
  mark,      \* the watermark the benchmark noted when its window opened
  frames,    \* frames begun, for the bound
  restarts,  \* restarts of the numbering, for the bound
  lost,      \* history: frames lost between the probes
  made       \* history: samples of each stream so far, and when the window opened

tracker == <<ps, watermark>>
world == <<flying, nextNum, frames, restarts, lost>>
vars == <<now, tracker, world, mark, made>>

------------------------------------------------------------------------------
(* The frames under way *)

Slot(p, i) == (p.pendingHead + i) % PendingCap
Waiting(p, i) == p.pending[Slot(p, i)]
TooOld(p, i) == now - Waiting(p, i).start > MaxAge

\* Faulty: no frame is given up for its age.
AgedNever(p) == 0

\* How many frames at the front are too old.
Aged(p) ==
  CHOOSE k \in 0..p.pendingSize :
    /\ \A i \in 0..(k - 1) : TooOld(p, i)
    /\ k < p.pendingSize => ~TooOld(p, k)

Evicted(p) == Aged(p) + (IF p.pendingSize - Aged(p) = PendingCap THEN 1 ELSE 0)

\* Faulty: the new entry goes where it would have gone before the old ones went.
EnteredAtOldTail(p, frame) ==
  LET size == p.pendingSize - Evicted(p)
  IN  [p EXCEPT !.pendingHead = Slot(p, Evicted(p)), !.pendingSize = size + 1,
                !.pending[Slot(p, size)] = [num |-> frame, start |-> now],
                !.evicted = @ + Evicted(p)]

\* on_latency_begin
Entered(p, frame) ==
  LET head == Slot(p, Evicted(p))
      size == p.pendingSize - Evicted(p)
  IN  [p EXCEPT !.pendingHead = head, !.pendingSize = size + 1,
                !.pending[(head + size) % PendingCap] = [num |-> frame, start |-> now],
                !.evicted = @ + Evicted(p)]

\* The entries in front of the one found move up by one slot.
Without(p, found) ==
  [p EXCEPT !.pending = [k \in DOMAIN p.pending |->
                           IF \E i \in 1..found : k = Slot(p, i)
                             THEN p.pending[(k + PendingCap - 1) % PendingCap]
                             ELSE p.pending[k]],
            !.pendingHead = Slot(p, 1), !.pendingSize = @ - 1]

\* Faulty: the ring's samples are counted on when it is full.
SampledUncapped(p, seq, latency) ==
  [p EXCEPT !.ring[p.ringHead] = [seq |-> seq % SeqRange, latency |-> latency],
            !.ringHead = (@ + 1) % RingCap, !.ringCount = @ + 1]

Sampled(p, seq, latency) ==
  [p EXCEPT !.ring[p.ringHead] = [seq |-> seq % SeqRange, latency |-> latency],
            !.ringHead = (@ + 1) % RingCap,
            !.ringCount = IF @ < RingCap THEN @ + 1 ELSE @]

\* The oldest entry of that number, if there is one.
Found(p, frame) ==
  {i \in 0..(p.pendingSize - 1) :
     /\ Waiting(p, i).num = frame
     /\ \A j \in 0..(i - 1) : Waiting(p, j).num # frame}

\* on_latency_end
Ended(s, frame) ==
  IF Found(ps[s], frame) = {}
    THEN /\ ps' = [ps EXCEPT ![s].desync = @ + 1]
         /\ UNCHANGED <<watermark, made>>
    ELSE \E i \in Found(ps[s], frame) :
           /\ watermark' = watermark + 1
           /\ ps' = [ps EXCEPT ![s] =
                Sampled(Without(@, i), watermark', now - Waiting(@, i).start)]
           /\ made' = [made EXCEPT ![s].total = @ + 1]

------------------------------------------------------------------------------
(* The probes and the world between them *)

\* on_input_probe
BeginLatency(s) ==
  /\ frames < MaxFrames /\ frames' = frames + 1
  /\ ps' = [ps EXCEPT ![s] = Entered(@, nextNum[s])]
  /\ flying' = [flying EXCEPT ![s] = Append(@, [num |-> nextNum[s], start |-> now])]
  /\ nextNum' = [nextNum EXCEPT ![s] = @ + 1]
  /\ UNCHANGED <<now, watermark, mark, made, restarts, lost>>

\* on_output_probe
EndLatency(s) ==
  /\ flying[s] # <<>>
  /\ flying' = [flying EXCEPT ![s] = Tail(@)]
  /\ Ended(s, Head(flying[s]).num)
  /\ UNCHANGED <<now, nextNum, mark, frames, restarts, lost>>

Lose(s) ==
  /\ flying[s] # <<>> /\ Cardinality(lost[s]) < MaxLost
  /\ lost' = [lost EXCEPT ![s] = @ \union {Head(flying[s])}]
  /\ flying' = [flying EXCEPT ![s] = Tail(@)]
  /\ UNCHANGED <<now, tracker, nextNum, mark, made, frames, restarts>>

StartOver(s) ==
  /\ restarts < MaxRestarts /\ restarts' = restarts + 1
  /\ nextNum[s] > 0
  /\ nextNum' = [nextNum EXCEPT ![s] = 0]
  /\ UNCHANGED <<now, tracker, flying, mark, made, frames, lost>>

Tick ==
  /\ now < MaxClock /\ now' = now + 1
  /\ UNCHANGED <<tracker, world, mark, made>>

------------------------------------------------------------------------------
(* The benchmark *)

\* The samples in the ring, oldest first.
RecentOf(p) ==
  [i \in 1..p.ringCount |-> p.ring[(p.ringHead + RingCap - p.ringCount + i - 1) % RingCap]]

\* Faulty: the newest sample from before the window counts as well.
SamplesFrom(p, since) == {i \in 1..p.ringCount : RecentOf(p)[i].seq >= since}

\* latency_samples_since, and the samples of latency_stats_since: which of the recent
\* ones are read.
SamplesSince(p, since) == {i \in 1..p.ringCount : RecentOf(p)[i].seq > since}

\* handle_benchmark notes the watermark; while it sleeps and reads, frames go on ending.
OpenWindow ==
  /\ mark' = watermark
  /\ made' = [s \in Streams |-> [made[s] EXCEPT !.opened = made[s].total]]
  /\ UNCHANGED <<now, tracker, world>>

------------------------------------------------------------------------------
Init ==
  /\ now = 0 /\ watermark = 0
  /\ ps = [s \in Streams |->
       [pending |-> [i \in 0..(PendingCap - 1) |-> [num |-> 0, start |-> 0]],
        pendingHead |-> 0, pendingSize |-> 0,
        ring |-> [i \in 0..(RingCap - 1) |-> [seq |-> 0, latency |-> 0]],
        ringHead |-> 0, ringCount |-> 0, evicted |-> 0, desync |-> 0]]
  /\ flying = [s \in Streams |-> <<>>] /\ lost = [s \in Streams |-> {}]
  /\ nextNum = [s \in Streams |-> 0]
  /\ mark = 0
  /\ made = [s \in Streams |-> [total |-> 0, opened |-> 0]]
  /\ frames = 0 /\ restarts = 0

Probes == \E s \in Streams : BeginLatency(s) \/ EndLatency(s) \/ Lose(s) \/ StartOver(s)

Next == Probes \/ OpenWindow \/ Tick

Spec == Init /\ [][Next]_vars

------------------------------------------------------------------------------
(* Properties *)

Entries == [num : 0..MaxFrames, start : 0..MaxClock]
Samples == [seq : 0..(SeqRange - 1), latency : Nat]
PerStream ==
  [pending : [0..(PendingCap - 1) -> Entries],
   pendingHead : 0..(PendingCap - 1), pendingSize : 0..PendingCap,
   ring : [0..(RingCap - 1) -> Samples],
   ringHead : 0..(RingCap - 1), ringCount : 0..RingCap, evicted : Nat, desync : Nat]

\* Types; the positions stay inside their arrays, whatever is begun, ended and lost.
TypeOK ==
  /\ now \in 0..MaxClock /\ watermark \in Nat
  /\ ps \in [Streams -> PerStream]
  /\ mark \in Nat

NewSample(p) == p.ring[(p.ringHead + RingCap - 1) % RingCap]

\* A sample is the time its own frame took.  Only where a frame was lost, or the numbers
\* started over, may it be counted from another's begin, and then no more than the
\* allowed age too much.
SamplesAreTrue ==
  [][\A s \in Streams :
       EndLatency(s) /\ watermark' # watermark =>
         LET frame == Head(flying[s])
             begin == now - NewSample(ps'[s]).latency
         IN  \/ begin = frame.start
             \/ /\ frame.start - begin <= MaxAge
                /\ \E other \in lost[s] \union ToSet(Tail(flying[s])) : other.num = frame.num]_vars

Fewer(a, b) == IF a < b THEN a ELSE b

\* Whenever a window is read, its samples of a stream are all those since it opened, as
\* far as the ring reaches back, and none from before; though the streams share one
\* numbering, and statistics and pool come from two looks at the ring.
WindowIsExact ==
  \A s \in Streams :
    Cardinality(SamplesSince(ps[s], mark)) = Fewer(RingCap, made[s].total - made[s].opened)

QueueOf(p) == [i \in 1..p.pendingSize |-> Waiting(p, i - 1)]

Pairing == INSTANCE LatencyPairs WITH
  Frames <- 0..MaxFrames,
  queue <- [s \in Streams |-> QueueOf(ps[s])],
  recent <- [s \in Streams |-> RecentOf(ps[s])],
  evicted <- [s \in Streams |-> ps[s].evicted],
  desync <- [s \in Streams |-> ps[s].desync]

\* The arrays are a queue of the frames under way and the newest samples: wrapping
\* round, giving up and taking out of the middle change neither order nor contents.
ImplementsPairs == Pairing!Spec
=============================================================================
