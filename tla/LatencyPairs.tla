------------------------------ MODULE LatencyPairs ------------------------------
(***************************************************************************)
(* What the latency tracking of MetricsRegistry promises, without its      *)
(* arrays: frames wait in a queue for their end, a frame too old or one    *)
(* too many is given up, and the newest samples of a stream are kept, each *)
(* with a number of its own.  LatencyTracker implements this.              *)
(***************************************************************************)
EXTENDS Naturals, SequencesExt

CONSTANTS
  Streams,
  Frames,     \* numbers of frames
  PendingCap, \* frames that may wait
  RingCap,    \* samples kept
  MaxAge      \* age at which a frame is given up

VARIABLES
  now,
  queue,     \* frames that have begun, oldest first: number and time
  recent,    \* samples, oldest first: number and latency
  watermark, \* samples recorded, over all streams
  evicted, desync

Newest(n, seq) == SubSeq(seq, IF Len(seq) > n THEN Len(seq) - n + 1 ELSE 1, Len(seq))

\* The frames that are too old make way, and one more if the others are too many.
Begin(s, frame) ==
  \E old \in 0..Len(queue[s]) :
    LET young == Newest(Len(queue[s]) - old, queue[s])
        waiting == Newest(PendingCap, Append(young, [num |-> frame, start |-> now]))
    IN  /\ \A i \in DOMAIN queue[s] : i <= old <=> now - queue[s][i].start > MaxAge
        /\ queue' = [queue EXCEPT ![s] = waiting]
        /\ evicted' = [evicted EXCEPT ![s] = @ + 1 + Len(queue[s]) - Len(waiting)]
        /\ UNCHANGED <<now, recent, watermark, desync>>

Misses(s, frame) ==
  /\ \A i \in DOMAIN queue[s] : queue[s][i].num # frame
  /\ desync' = [desync EXCEPT ![s] = @ + 1]
  /\ UNCHANGED <<now, queue, recent, watermark, evicted>>

\* The oldest waiting frame of that number is the one that ended.
Pairs(s, frame) ==
  \E i \in DOMAIN queue[s] :
    /\ queue[s][i].num = frame /\ \A j \in 1..(i - 1) : queue[s][j].num # frame
    /\ queue' = [queue EXCEPT ![s] = RemoveAt(@, i)]
    /\ watermark' = watermark + 1
    /\ LET sample == [seq |-> watermark', latency |-> now - queue[s][i].start]
       IN  recent' = [recent EXCEPT ![s] = Newest(RingCap, Append(@, sample))]
    /\ UNCHANGED <<now, evicted, desync>>

Tick == now' = now + 1 /\ UNCHANGED <<queue, recent, watermark, evicted, desync>>

Init ==
  /\ now = 0 /\ watermark = 0
  /\ queue = [s \in Streams |-> <<>>] /\ recent = [s \in Streams |-> <<>>]
  /\ evicted = [s \in Streams |-> 0] /\ desync = [s \in Streams |-> 0]

Next ==
  \/ Tick
  \/ \E s \in Streams, frame \in Frames : Begin(s, frame) \/ Misses(s, frame) \/ Pairs(s, frame)

Spec == Init /\ [][Next]_<<now, queue, recent, watermark, evicted, desync>>
=============================================================================
