------------------------------ MODULE EventEngine ------------------------------
(***************************************************************************)
(* EventEngine's methods on the state of one stream; streams share nothing *)
(* but the mutex that makes each call atomic.                              *)
(*                                                                         *)
(* A frame maps the track ids seen in it to their class and to the zones   *)
(* that their box's centre is in.  The tracker gives every object of a     *)
(* frame an id of its own.  What a record repeats of its object (box,      *)
(* confidence, time) is left out.                                          *)
(***************************************************************************)
EXTENDS Integers, FiniteSets

CONSTANTS
  Tracks, Classes, Zones,
  Watched,    \* watched classes; none means all
  Grace,      \* disappear_grace_frames
  Threshold,  \* count_threshold
  Hysteresis  \* count_hysteresis

ASSUME EngineAssumption ==
  /\ IsFiniteSet(Tracks)
  /\ Watched \subseteq Classes
  /\ Grace \in Nat
  /\ Threshold \in Nat \ {0}
  /\ Hysteresis \in 0..Threshold  \* equal: a threshold of 1, and the default of 1

Objects == [class : Classes, zones : SUBSET Zones]
Frames == UNION {[ids -> Objects] : ids \in SUBSET Tracks}

\* unseen: frame_num - last_seen_frame, which matters up to Grace only.
TrackStates == [unseen : 0..Grace, gone : BOOLEAN, zones : SUBSET Zones]
TrackMaps == UNION {[ids -> TrackStates] : ids \in SUBSET Tracks}

Events == [type : {"appearance", "disappearance"}, of : Tracks]
            \union [type : {"zone_entry"}, of : Tracks \X Zones]
            \union [type : {"count_high", "count_exit"}, of : Classes]

\* One event of each subject.
Fired(type, subjects) == {[type |-> type, of |-> s] : s \in subjects}

Present(tracks) == {t \in DOMAIN tracks : ~tracks[t].gone}

WatchesClass(c) == Watched = {} \/ c \in Watched
WatchedIds(frame) == {t \in DOMAIN frame : WatchesClass(frame[t].class)}

------------------------------------------------------------------------------
(* process_frame *)

Unseen(tracks, t, gap) ==
  IF tracks[t].unseen + gap >= Grace THEN Grace ELSE tracks[t].unseen + gap

\* Faulty: a frame without objects is skipped.
OverdueIfAnySeen(tracks, frame, gap) ==
  {t \in Present(tracks) \ DOMAIN frame :
     Unseen(tracks, t, gap) >= Grace /\ DOMAIN frame # {}}

\* 1. Known tracks not seen for the grace period.
Overdue(tracks, frame, gap) ==
  {t \in Present(tracks) \ DOMAIN frame : Unseen(tracks, t, gap) >= Grace}

\* Faulty: an id that is present appears again.
AppearingEachFrame(tracks, frame) == WatchedIds(frame)

\* 2. Ids that appear, again or for the first time, and the zones entered.
Appearing(tracks, frame) == WatchedIds(frame) \ Present(tracks)

ZonesFired(tracks, frame, t) ==
  IF t \in Appearing(tracks, frame) THEN {} ELSE tracks[t].zones

Entries(tracks, frame) ==
  {e \in WatchedIds(frame) \X Zones :
     e[2] \in frame[e[1]].zones \ ZonesFired(tracks, frame, e[1])}

TracksAfter(tracks, frame, gap) ==
  [t \in DOMAIN tracks \union WatchedIds(frame) |->
     IF t \in WatchedIds(frame)
       THEN [unseen |-> 0, gone |-> FALSE,
             zones |-> ZonesFired(tracks, frame, t) \union frame[t].zones]
       ELSE [unseen |-> Unseen(tracks, t, gap),
             gone |-> tracks[t].gone \/ t \in Overdue(tracks, frame, gap),
             zones |-> tracks[t].zones]]

\* 3. The latch of each class that is counted: those with an object in the frame.
Count(frame, c) == Cardinality({t \in WatchedIds(frame) : frame[t].class = c})
Counted(frame) == {c \in Classes : Count(frame, c) > 0}

Highs(latched, frame) == {c \in Counted(frame) \ latched : Count(frame, c) >= Threshold}

Exits(latched, frame) ==
  {c \in Counted(frame) \intersect latched : Count(frame, c) <= Threshold - Hysteresis}

LatchedAfter(latched, frame) ==
  (latched \union Highs(latched, frame)) \ Exits(latched, frame)

FrameEvents(tracks, latched, frame, gap) ==
  Fired("disappearance", Overdue(tracks, frame, gap))
    \union Fired("appearance", Appearing(tracks, frame))
    \union Fired("zone_entry", Entries(tracks, frame))
    \union Fired("count_high", Highs(latched, frame))
    \union Fired("count_exit", Exits(latched, frame))

------------------------------------------------------------------------------
(* flush_stream *)

\* Faulty: what was flushed is not marked as gone.
FlushedButKept(tracks) == tracks

Flushed(tracks) == [t \in DOMAIN tracks |-> [tracks[t] EXCEPT !.gone = TRUE]]

FlushEvents(tracks) == Fired("disappearance", Present(tracks))
=============================================================================
