----------------------------- MODULE EventLogProofs -----------------------------
(***************************************************************************)
(* For every set of tracks, classes and zones, every grace period and      *)
(* threshold: the log agrees with the engine whenever nothing is left to   *)
(* write, and never strays further from it than TypeOK says.               *)
(*                                                                         *)
(* The invariant is a ledger: what the log says, and what the threads      *)
(* still owe it, is what the engine knows.                                 *)
(***************************************************************************)
EXTENDS EventLog, TLAPS

Bit(b) == IF b THEN 1 ELSE 0
Owed(events, type, s) == Bit([type |-> type, of |-> s] \in events)

Types ==
  /\ tracks \in TrackMaps
  /\ latched \subseteq Classes
  /\ probe \subseteq Events /\ eos \subseteq Events /\ main \subseteq Events
  /\ log \in [Tracks -> Int]
  /\ high \in [Classes -> Int]
  /\ phase \in {"running", "stopped", "flushed"}
  /\ frame \in Frames
  /\ odd \in BOOLEAN

\* The flushing threads write disappearances only.
Flushes == \A e \in eos \union main : e.type = "disappearance"

TrackLedger ==
  \A t \in Tracks :
    log[t] = Bit(t \in Present(tracks))
               - Owed(probe, "appearance", t) + Owed(probe, "disappearance", t)
               + Owed(eos, "disappearance", t) + Owed(main, "disappearance", t)

ClassLedger ==
  \A c \in Classes :
    high[c] = Bit(c \in latched) - Owed(probe, "count_high", c) + Owed(probe, "count_exit", c)

\* The probe's pending events are of its last call.
OneCall ==
  /\ \A t \in Tracks :
       [type |-> "disappearance", of |-> t] \in probe =>
         t \notin Present(tracks) /\ [type |-> "appearance", of |-> t] \notin probe
  /\ \A c \in Classes :
       /\ [type |-> "count_high", of |-> c] \in probe => c \in latched
       /\ [type |-> "count_exit", of |-> c] \in probe => c \notin latched

Stopping ==
  /\ phase # "running" => probe = {} /\ eos = {}
  /\ phase # "flushed" => main = {}
  /\ phase = "flushed" => Present(tracks) = {}

Inv == Types /\ Flushes /\ TrackLedger /\ ClassLedger /\ OneCall /\ Stopping

------------------------------------------------------------------------------
(* The engine's operators *)

\* Membership in a batch of events.
LEMMA FiredMembers ==
  ASSUME NEW type, NEW other, NEW S, NEW s
  PROVE  [type |-> type, of |-> s] \in Fired(other, S) <=> type = other /\ s \in S
  <1>1. ASSUME type = other, s \in S
        PROVE  [type |-> type, of |-> s] \in Fired(other, S)
    BY <1>1 DEF Fired
  <1>2. ASSUME [type |-> type, of |-> s] \in Fired(other, S)
        PROVE  type = other /\ s \in S
    <2>1. PICK x \in S : [type |-> type, of |-> s] = [type |-> other, of |-> x]
      BY <1>2 DEF Fired
    <2> DEFINE r == [type |-> type, of |-> s]
    <2>2. r.type = type /\ r.of = s /\ r.type = other /\ r.of = x
      BY <2>1
    <2> QED
      BY <2>2
  <1> QED
    BY <1>1, <1>2

\* A map of track states is a function on some of the tracks.
LEMMA TrackMapsAre ==
  \A f : f \in TrackMaps <=> DOMAIN f \subseteq Tracks /\ f \in [DOMAIN f -> TrackStates]
  <1> SUFFICES ASSUME NEW f
               PROVE  f \in TrackMaps <=> DOMAIN f \subseteq Tracks /\ f \in [DOMAIN f -> TrackStates]
    OBVIOUS
  <1>1. ASSUME f \in TrackMaps
        PROVE  DOMAIN f \subseteq Tracks /\ f \in [DOMAIN f -> TrackStates]
    <2>1. PICK ids \in SUBSET Tracks : f \in [ids -> TrackStates]
      BY <1>1 DEF TrackMaps
    <2> QED
      BY <2>1
  <1>2. ASSUME DOMAIN f \subseteq Tracks, f \in [DOMAIN f -> TrackStates]
        PROVE  f \in TrackMaps
    BY <1>2 DEF TrackMaps
  <1> QED
    BY <1>1, <1>2

\* A frame is a function on some of the tracks.
LEMMA FramesAre ==
  ASSUME NEW f \in Frames
  PROVE  DOMAIN f \subseteq Tracks /\ f \in [DOMAIN f -> Objects]
  <1>1. PICK ids \in SUBSET Tracks : f \in [ids -> Objects]
    BY DEF Frames
  <1> QED
    BY <1>1

LEMMA TrackStateOf ==
  ASSUME NEW u \in 0..Grace, NEW g \in BOOLEAN, NEW z \in SUBSET Zones
  PROVE  [unseen |-> u, gone |-> g, zones |-> z] \in TrackStates
  BY DEF TrackStates

\* What a frame does to the tracks: those of its watched objects are present, those
\* overdue are gone, and the others stay as they were.
LEMMA FrameMovesTracks ==
  ASSUME NEW old \in TrackMaps, NEW seen \in Frames, NEW gap \in Nat
  PROVE  /\ TracksAfter(old, seen, gap) \in TrackMaps
         /\ Present(TracksAfter(old, seen, gap)) =
              (Present(old) \ Overdue(old, seen, gap)) \union WatchedIds(seen)
         /\ Overdue(old, seen, gap) \subseteq Present(old) \ WatchedIds(seen)
         /\ Present(old) \subseteq Tracks /\ WatchedIds(seen) \subseteq Tracks
  <1> DEFINE new == TracksAfter(old, seen, gap)
  <1>1. DOMAIN old \subseteq Tracks /\ old \in [DOMAIN old -> TrackStates]
    BY TrackMapsAre
  <1>2. DOMAIN seen \subseteq Tracks /\ seen \in [DOMAIN seen -> Objects]
    BY FramesAre
  <1>3. WatchedIds(seen) \subseteq DOMAIN seen
    BY DEF WatchedIds
  <1>4. DOMAIN new = DOMAIN old \union WatchedIds(seen)
    BY DEF TracksAfter
  <1>5. ASSUME NEW t \in WatchedIds(seen)
        PROVE  new[t] \in TrackStates /\ ~new[t].gone
    <2>1. new[t] = [unseen |-> 0, gone |-> FALSE,
                    zones |-> ZonesFired(old, seen, t) \union seen[t].zones]
      BY DEF TracksAfter
    <2>2. seen[t].zones \subseteq Zones
      BY <1>2, <1>3 DEF Objects
    <2>3. ZonesFired(old, seen, t) \subseteq Zones
      BY <1>1 DEF ZonesFired, Appearing, Present, TrackStates
    <2>4. 0 \in 0..Grace
      BY EngineAssumption
    <2> QED
      BY <2>1, <2>2, <2>3, <2>4 DEF TrackStates
  <1>6. ASSUME NEW t \in DOMAIN old \ WatchedIds(seen)
        PROVE  /\ new[t] \in TrackStates
               /\ new[t].gone <=> old[t].gone \/ t \in Overdue(old, seen, gap)
    <2>1. new[t] = [unseen |-> Unseen(old, t, gap),
                    gone |-> old[t].gone \/ t \in Overdue(old, seen, gap),
                    zones |-> old[t].zones]
      BY DEF TracksAfter
    <2>2. old[t] \in TrackStates
      BY <1>1
    <2>3. Unseen(old, t, gap) \in 0..Grace
      BY <2>2, EngineAssumption DEF Unseen, TrackStates
    <2>4. old[t].zones \in SUBSET Zones
      BY <2>2 DEF TrackStates
    <2>5. (old[t].gone \/ t \in Overdue(old, seen, gap)) \in BOOLEAN
      BY Zenon
    <2>6. new[t] \in TrackStates
      BY <2>1, <2>3, <2>4, <2>5, TrackStateOf, Zenon
    <2>7. new[t].gone = (old[t].gone \/ t \in Overdue(old, seen, gap))
      BY <2>1, <2>5
    <2> QED
      BY <2>6, <2>7, Zenon
  <1>7. new \in TrackMaps
    <2>1. new \in [DOMAIN new -> TrackStates]
      BY <1>4, <1>5, <1>6 DEF TracksAfter
    <2> QED
      BY <2>1, <1>1, <1>2, <1>3, <1>4, TrackMapsAre
  <1>8. Overdue(old, seen, gap) \subseteq Present(old) \ WatchedIds(seen)
    BY <1>3 DEF Overdue
  <1>9. Present(new) = (Present(old) \ Overdue(old, seen, gap)) \union WatchedIds(seen)
    BY <1>4, <1>5, <1>6, <1>8 DEF Present
  <1> QED
    BY <1>1, <1>2, <1>3, <1>7, <1>8, <1>9 DEF Present

\* A flush leaves no track present.
LEMMA FlushEmpties ==
  ASSUME NEW old \in TrackMaps
  PROVE  /\ Flushed(old) \in TrackMaps
         /\ Present(Flushed(old)) = {}
         /\ Present(old) \subseteq Tracks
  <1>1. DOMAIN old \subseteq Tracks /\ old \in [DOMAIN old -> TrackStates]
    BY TrackMapsAre
  <1>2. DOMAIN Flushed(old) = DOMAIN old
    BY DEF Flushed
  <1>3. ASSUME NEW t \in DOMAIN old
        PROVE  Flushed(old)[t] \in TrackStates /\ Flushed(old)[t].gone
    BY <1>1, <1>3 DEF Flushed, TrackStates
  <1>4. Flushed(old) \in [DOMAIN old -> TrackStates]
    BY <1>3 DEF Flushed
  <1> QED
    BY <1>1, <1>2, <1>3, <1>4, TrackMapsAre DEF Present

\* The events of a frame are events, and which of them there are.
LEMMA FrameEventsAre ==
  ASSUME NEW old \in TrackMaps, NEW lat \in SUBSET Classes, NEW seen \in Frames, NEW gap \in Nat
  PROVE  LET evs == FrameEvents(old, lat, seen, gap)
         IN  /\ evs \subseteq Events
             /\ \A s : [type |-> "appearance", of |-> s] \in evs <=> s \in Appearing(old, seen)
             /\ \A s : [type |-> "disappearance", of |-> s] \in evs <=> s \in Overdue(old, seen, gap)
             /\ \A s : [type |-> "count_high", of |-> s] \in evs <=> s \in Highs(lat, seen)
             /\ \A s : [type |-> "count_exit", of |-> s] \in evs <=> s \in Exits(lat, seen)
  <1> DEFINE evs == FrameEvents(old, lat, seen, gap)
  <1>1. /\ Overdue(old, seen, gap) \subseteq Tracks
        /\ Appearing(old, seen) \subseteq Tracks
        /\ Entries(old, seen) \subseteq Tracks \X Zones
    BY FrameMovesTracks DEF Appearing, Entries
  <1>2. Highs(lat, seen) \subseteq Classes /\ Exits(lat, seen) \subseteq Classes
    BY DEF Highs, Exits, Counted
  <1>3. evs \subseteq Events
    <2>1. Fired("disappearance", Overdue(old, seen, gap)) \subseteq Events
      BY <1>1 DEF Fired, Events
    <2>2. Fired("appearance", Appearing(old, seen)) \subseteq Events
      BY <1>1 DEF Fired, Events
    <2>3. Fired("zone_entry", Entries(old, seen)) \subseteq Events
      BY <1>1 DEF Fired, Events
    <2>4. Fired("count_high", Highs(lat, seen)) \subseteq Events
      BY <1>2 DEF Fired, Events
    <2>5. Fired("count_exit", Exits(lat, seen)) \subseteq Events
      BY <1>2 DEF Fired, Events
    <2> QED
      BY <2>1, <2>2, <2>3, <2>4, <2>5 DEF FrameEvents
  <1>4. ASSUME NEW type, NEW s
        PROVE  [type |-> type, of |-> s] \in evs <=>
                 \/ type = "disappearance" /\ s \in Overdue(old, seen, gap)
                 \/ type = "appearance" /\ s \in Appearing(old, seen)
                 \/ type = "zone_entry" /\ s \in Entries(old, seen)
                 \/ type = "count_high" /\ s \in Highs(lat, seen)
                 \/ type = "count_exit" /\ s \in Exits(lat, seen)
    <2> DEFINE e == [type |-> type, of |-> s]
    <2>1. e \in evs <=>
            \/ e \in Fired("disappearance", Overdue(old, seen, gap))
            \/ e \in Fired("appearance", Appearing(old, seen))
            \/ e \in Fired("zone_entry", Entries(old, seen))
            \/ e \in Fired("count_high", Highs(lat, seen))
            \/ e \in Fired("count_exit", Exits(lat, seen))
      BY Zenon DEF FrameEvents
    <2>2. \A other, S : e \in Fired(other, S) <=> type = other /\ s \in S
      BY FiredMembers
    <2> HIDE DEF e, evs
    <2>3. e \in evs <=>
            \/ type = "disappearance" /\ s \in Overdue(old, seen, gap)
            \/ type = "appearance" /\ s \in Appearing(old, seen)
            \/ type = "zone_entry" /\ s \in Entries(old, seen)
            \/ type = "count_high" /\ s \in Highs(lat, seen)
            \/ type = "count_exit" /\ s \in Exits(lat, seen)
      BY <2>1, <2>2, Zenon
    <2> QED
      BY <2>3 DEF e
  <1> QED
    BY <1>3, <1>4

\* The events of a flush are disappearances of what was present.
LEMMA FlushEventsAre ==
  ASSUME NEW old \in TrackMaps
  PROVE  /\ FlushEvents(old) \subseteq Events
         /\ \A s : [type |-> "disappearance", of |-> s] \in FlushEvents(old) <=> s \in Present(old)
         /\ \A e \in FlushEvents(old) : e.type = "disappearance"
  <1>1. Present(old) \subseteq Tracks
    BY FlushEmpties
  <1>2. FlushEvents(old) \subseteq Events
    BY <1>1 DEF FlushEvents, Fired, Events
  <1>3. \A s : [type |-> "disappearance", of |-> s] \in FlushEvents(old) <=> s \in Present(old)
    BY FiredMembers DEF FlushEvents
  <1>4. \A e \in FlushEvents(old) : e.type = "disappearance"
    BY DEF FlushEvents, Fired
  <1> QED
    BY <1>2, <1>3, <1>4

------------------------------------------------------------------------------
(* Writing *)

\* A record changes the balance of its own subject by one.
LEMMA WriteCounts ==
  ASSUME Types, NEW e \in Events, Write(e)
  PROVE  /\ log' \in [Tracks -> Int] /\ high' \in [Classes -> Int]
         /\ \A t \in Tracks :
              log'[t] = log[t] + Bit(e = [type |-> "appearance", of |-> t])
                               - Bit(e = [type |-> "disappearance", of |-> t])
         /\ \A c \in Classes :
              high'[c] = high[c] + Bit(e = [type |-> "count_high", of |-> c])
                                 - Bit(e = [type |-> "count_exit", of |-> c])
  <1>1. \/ \E t \in Tracks : e = [type |-> "appearance", of |-> t]
        \/ \E t \in Tracks : e = [type |-> "disappearance", of |-> t]
        \/ \E z \in Tracks \X Zones : e = [type |-> "zone_entry", of |-> z]
        \/ \E c \in Classes : e = [type |-> "count_high", of |-> c]
        \/ \E c \in Classes : e = [type |-> "count_exit", of |-> c]
    BY DEF Events
  <1>2. CASE \E t \in Tracks : e = [type |-> "appearance", of |-> t]
    BY <1>2 DEF Write, Types, Bit
  <1>3. CASE \E t \in Tracks : e = [type |-> "disappearance", of |-> t]
    BY <1>3 DEF Write, Types, Bit
  <1>4. CASE \E z \in Tracks \X Zones : e = [type |-> "zone_entry", of |-> z]
    BY <1>4 DEF Write, Types, Bit
  <1>5. CASE \E c \in Classes : e = [type |-> "count_high", of |-> c]
    BY <1>5 DEF Write, Types, Bit
  <1>6. CASE \E c \in Classes : e = [type |-> "count_exit", of |-> c]
    BY <1>6 DEF Write, Types, Bit
  <1> QED
    BY <1>1, <1>2, <1>3, <1>4, <1>5, <1>6

\* What is written is no longer owed.
LEMMA WrittenIsPaid ==
  ASSUME NEW events, NEW e \in events, NEW type, NEW s
  PROVE  Owed(events \ {e}, type, s) = Owed(events, type, s) - Bit(e = [type |-> type, of |-> s])
  BY DEF Owed, Bit

LEMMA OwedIsOneAtMost ==
  ASSUME NEW events, NEW type, NEW s
  PROVE  Owed(events, type, s) \in {0, 1} /\ Owed({}, type, s) = 0
  BY DEF Owed, Bit

\* Threads that flush owe no appearance and no count.
LEMMA FlushersOweDisappearances ==
  ASSUME Flushes, NEW e \in eos \union main, NEW s
  PROVE  /\ Bit(e = [type |-> "appearance", of |-> s]) = 0
         /\ Bit(e = [type |-> "count_high", of |-> s]) = 0
         /\ Bit(e = [type |-> "count_exit", of |-> s]) = 0
  BY DEF Flushes, Bit

------------------------------------------------------------------------------
(* The invariant *)

LEMMA InvInitially == Init => Inv
  <1> SUFFICES ASSUME Init PROVE Inv
    OBVIOUS
  <1>1. tracks \in TrackMaps /\ Present(tracks) = {}
    <2>1. DOMAIN tracks = {}
      BY DEF Init
    <2>2. tracks \in [DOMAIN tracks -> TrackStates]
      BY DEF Init
    <2> QED
      BY <2>1, <2>2, TrackMapsAre DEF Present
  <1>2. frame \in Frames
    <2>1. frame \in [{} -> Objects]
      BY DEF Init, NoObjects
    <2> QED
      BY <2>1 DEF Frames
  <1>3. Types
    <2>1. log \in [Tracks -> Int] /\ high \in [Classes -> Int]
      BY DEF Init
    <2>2. /\ latched \subseteq Classes
          /\ probe \subseteq Events /\ eos \subseteq Events /\ main \subseteq Events
      BY DEF Init
    <2>3. phase \in {"running", "stopped", "flushed"} /\ odd \in BOOLEAN
      BY DEF Init
    <2> QED
      BY <1>1, <1>2, <2>1, <2>2, <2>3, Zenon DEF Types
  <1>4. Flushes /\ OneCall /\ Stopping
    BY <1>1 DEF Init, Flushes, OneCall, Stopping
  <1>5. TrackLedger /\ ClassLedger
    BY <1>1 DEF Init, TrackLedger, ClassLedger, Owed, Bit
  <1> QED
    BY <1>3, <1>4, <1>5 DEF Inv

LEMMA FrameKeepsInv ==
  ASSUME Inv, NEW seen \in Frames, NEW gap \in Gaps, ProcessFrame(seen, gap)
  PROVE  Inv'
  <1> USE DEF Inv
  <1>1. gap \in Nat
    BY GapAssumption
  <1>2. tracks \in TrackMaps /\ latched \in SUBSET Classes
    BY DEF Types
  <1>3. /\ probe = {} /\ main = {} /\ phase = "running"
        /\ UNCHANGED <<eos, main, log, high, phase>>
    BY DEF ProcessFrame, Stopping
  <1>4. /\ tracks' \in TrackMaps
        /\ Present(tracks') =
             (Present(tracks) \ Overdue(tracks, seen, gap)) \union WatchedIds(seen)
        /\ Overdue(tracks, seen, gap) \subseteq Present(tracks) \ WatchedIds(seen)
    BY <1>1, <1>2, FrameMovesTracks DEF ProcessFrame
  <1>5. /\ probe' \subseteq Events
        /\ \A s : [type |-> "appearance", of |-> s] \in probe' <=> s \in Appearing(tracks, seen)
        /\ \A s : [type |-> "disappearance", of |-> s] \in probe' <=> s \in Overdue(tracks, seen, gap)
        /\ \A s : [type |-> "count_high", of |-> s] \in probe' <=> s \in Highs(latched, seen)
        /\ \A s : [type |-> "count_exit", of |-> s] \in probe' <=> s \in Exits(latched, seen)
    BY <1>1, <1>2, FrameEventsAre DEF ProcessFrame
  <1>6. /\ latched' = (latched \union Highs(latched, seen)) \ Exits(latched, seen)
        /\ Highs(latched, seen) \subseteq Classes \ latched
        /\ Exits(latched, seen) \subseteq latched
    BY DEF ProcessFrame, LatchedAfter, Highs, Exits, Counted
  <1>7. Types'
    BY <1>2, <1>3, <1>4, <1>5, <1>6 DEF Types, ProcessFrame
  <1>8. Flushes' /\ Stopping'
    BY <1>3 DEF Flushes, Stopping
  <1>9. TrackLedger'
    <2> SUFFICES ASSUME NEW t \in Tracks
                 PROVE  log'[t] = Bit(t \in Present(tracks'))
                          - Owed(probe', "appearance", t) + Owed(probe', "disappearance", t)
                          + Owed(eos', "disappearance", t) + Owed(main', "disappearance", t)
      BY DEF TrackLedger
    <2>1. log[t] = Bit(t \in Present(tracks)) + Owed(eos, "disappearance", t)
      BY <1>3 DEF TrackLedger, Owed, Bit
    <2>2. Bit(t \in Present(tracks)) = Bit(t \in Present(tracks'))
            - Owed(probe', "appearance", t) + Owed(probe', "disappearance", t)
      BY <1>4, <1>5 DEF Appearing, Owed, Bit
    <2>3. Owed(main', "disappearance", t) = 0
      BY <1>3 DEF Owed, Bit
    <2>4. Owed(eos, "disappearance", t) \in Int /\ Owed(probe', "appearance", t) \in Int
          /\ Owed(probe', "disappearance", t) \in Int /\ Bit(t \in Present(tracks')) \in Int
      BY DEF Owed, Bit
    <2> HIDE DEF Inv
    <2> QED
      BY <1>3, <2>1, <2>2, <2>3, <2>4
  <1>10. ClassLedger'
    <2> SUFFICES ASSUME NEW c \in Classes
                 PROVE  high'[c] = Bit(c \in latched')
                          - Owed(probe', "count_high", c) + Owed(probe', "count_exit", c)
      BY DEF ClassLedger
    <2>1. high[c] = Bit(c \in latched)
      BY <1>3 DEF ClassLedger, Owed, Bit
    <2>2. Bit(c \in latched) = Bit(c \in latched')
            - Owed(probe', "count_high", c) + Owed(probe', "count_exit", c)
      BY <1>5, <1>6 DEF Owed, Bit
    <2> HIDE DEF Inv
    <2> QED
      BY <1>3, <2>1, <2>2
  <1>11. OneCall'
    BY <1>4, <1>5, <1>6 DEF OneCall, Appearing
  <1> QED
    BY <1>7, <1>8, <1>9, <1>10, <1>11

LEMMA EndOfStreamKeepsInv ==
  ASSUME Inv, EndOfStream
  PROVE  Inv'
  <1> USE DEF Inv
  <1>1. /\ tracks' \in TrackMaps /\ Present(tracks') = {} /\ Present(tracks) \subseteq Tracks
    BY FlushEmpties DEF Types, EndOfStream
  <1>2. /\ eos' \subseteq Events
        /\ \A s : [type |-> "disappearance", of |-> s] \in eos' <=> s \in Present(tracks)
        /\ \A e \in eos' : e.type = "disappearance"
    BY FlushEventsAre DEF Types, EndOfStream
  <1>3. /\ eos = {} /\ phase = "running" /\ main = {}
        /\ UNCHANGED <<latched, probe, main, log, high, phase, frame, odd>>
    BY DEF EndOfStream, Stopping, frameVars
  <1>4. Types'
    BY <1>1, <1>2, <1>3 DEF Types
  <1>5. Flushes'
    BY <1>2, <1>3, Zenon DEF Flushes
  <1>9. Stopping'
    BY <1>1, <1>3 DEF Stopping
  <1>6. TrackLedger'
    <2> SUFFICES ASSUME NEW t \in Tracks
                 PROVE  log'[t] = Bit(t \in Present(tracks'))
                          - Owed(probe', "appearance", t) + Owed(probe', "disappearance", t)
                          + Owed(eos', "disappearance", t) + Owed(main', "disappearance", t)
      BY DEF TrackLedger
    <2> DEFINE A == Owed(probe, "appearance", t)
               D == Owed(probe, "disappearance", t)
               O == Owed(main, "disappearance", t)
               P == Bit(t \in Present(tracks))
    <2>1. log[t] = P - A + D + O
      BY <1>3, OwedIsOneAtMost DEF TrackLedger, Owed, Bit
    <2>2. Owed(eos', "disappearance", t) = P /\ Bit(t \in Present(tracks')) = 0
      BY <1>1, <1>2 DEF Owed, Bit
    <2>3. A \in Int /\ D \in Int /\ O \in Int /\ P \in Int
      BY DEF Owed, Bit
    <2>4. /\ log' = log /\ Owed(probe', "appearance", t) = A
          /\ Owed(probe', "disappearance", t) = D /\ Owed(main', "disappearance", t) = O
      BY <1>3
    <2> HIDE DEF Inv, A, D, O, P
    <2> QED
      BY <2>1, <2>2, <2>3, <2>4
  <1>7. ClassLedger'
    BY <1>3 DEF ClassLedger
  <1>8. OneCall'
    BY <1>1, <1>3 DEF OneCall
  <1> QED
    BY <1>4, <1>5, <1>6, <1>7, <1>8, <1>9

LEMMA FinalFlushKeepsInv ==
  ASSUME Inv, FinalFlush
  PROVE  Inv'
  <1> USE DEF Inv
  <1>1. /\ tracks' \in TrackMaps /\ Present(tracks') = {} /\ Present(tracks) \subseteq Tracks
    BY FlushEmpties DEF Types, FinalFlush
  <1>2. /\ main' \subseteq Events
        /\ \A s : [type |-> "disappearance", of |-> s] \in main' <=> s \in Present(tracks)
        /\ \A e \in main' : e.type = "disappearance"
    BY FlushEventsAre DEF Types, FinalFlush
  <1>3. /\ main = {} /\ probe = {} /\ eos = {} /\ phase' = "flushed"
        /\ UNCHANGED <<latched, probe, eos, log, high, frame, odd>>
    BY DEF FinalFlush, Stopping, frameVars
  <1>4. Types'
    BY <1>1, <1>2, <1>3 DEF Types
  <1>5. Flushes'
    BY <1>2, <1>3, Zenon DEF Flushes
  <1>9. Stopping'
    BY <1>1, <1>3 DEF Stopping
  <1>6. TrackLedger'
    <2> SUFFICES ASSUME NEW t \in Tracks
                 PROVE  log'[t] = Bit(t \in Present(tracks'))
                          - Owed(probe', "appearance", t) + Owed(probe', "disappearance", t)
                          + Owed(eos', "disappearance", t) + Owed(main', "disappearance", t)
      BY DEF TrackLedger
    <2> DEFINE A == Owed(probe, "appearance", t)
               D == Owed(probe, "disappearance", t)
               O == Owed(eos, "disappearance", t)
               P == Bit(t \in Present(tracks))
    <2>1. log[t] = P - A + D + O
      BY <1>3, OwedIsOneAtMost DEF TrackLedger, Owed, Bit
    <2>2. Owed(main', "disappearance", t) = P /\ Bit(t \in Present(tracks')) = 0
      BY <1>1, <1>2 DEF Owed, Bit
    <2>3. A \in Int /\ D \in Int /\ O \in Int /\ P \in Int
      BY DEF Owed, Bit
    <2>4. /\ log' = log /\ Owed(probe', "appearance", t) = A
          /\ Owed(probe', "disappearance", t) = D /\ Owed(eos', "disappearance", t) = O
      BY <1>3
    <2> HIDE DEF Inv, A, D, O, P
    <2> QED
      BY <2>1, <2>2, <2>3, <2>4
  <1>7. ClassLedger'
    BY <1>3 DEF ClassLedger
  <1>8. OneCall'
    BY <1>1, <1>3 DEF OneCall
  <1> QED
    BY <1>4, <1>5, <1>6, <1>7, <1>8, <1>9

LEMMA ProbeWritesKeepInv ==
  ASSUME Inv, ProbeWrites
  PROVE  Inv'
  <1> USE DEF Inv
  <1>1. PICK e \in probe : /\ Write(e) /\ probe' = probe \ {e}
                           /\ UNCHANGED <<tracks, latched, eos, main, phase, frame, odd>>
    BY DEF ProbeWrites, frameVars
  <1>2. e \in Events
    BY DEF Types
  <1>3. /\ log' \in [Tracks -> Int] /\ high' \in [Classes -> Int]
        /\ \A t \in Tracks :
             log'[t] = log[t] + Bit(e = [type |-> "appearance", of |-> t])
                              - Bit(e = [type |-> "disappearance", of |-> t])
        /\ \A c \in Classes :
             high'[c] = high[c] + Bit(e = [type |-> "count_high", of |-> c])
                                - Bit(e = [type |-> "count_exit", of |-> c])
    BY <1>1, <1>2, WriteCounts
  <1>4. \A type, s : Owed(probe', type, s) =
          Owed(probe, type, s) - Bit(e = [type |-> type, of |-> s])
    BY <1>1, WrittenIsPaid
  <1>5. Types' /\ Flushes' /\ Stopping' /\ OneCall'
    BY <1>1, <1>3 DEF Types, Flushes, Stopping, OneCall
  <1>6. \A b : Bit(b) \in Int
    BY DEF Bit
  <1>7. TrackLedger'
    <2> SUFFICES ASSUME NEW t \in Tracks
                 PROVE  log'[t] = Bit(t \in Present(tracks))
                          - Owed(probe', "appearance", t) + Owed(probe', "disappearance", t)
                          + Owed(eos, "disappearance", t) + Owed(main, "disappearance", t)
      BY <1>1 DEF TrackLedger
    <2>1. log[t] = Bit(t \in Present(tracks))
            - Owed(probe, "appearance", t) + Owed(probe, "disappearance", t)
            + Owed(eos, "disappearance", t) + Owed(main, "disappearance", t)
      BY DEF TrackLedger
    <2>2. /\ Owed(probe, "appearance", t) \in Int /\ Owed(probe, "disappearance", t) \in Int
          /\ Owed(eos, "disappearance", t) \in Int /\ Owed(main, "disappearance", t) \in Int
      BY OwedIsOneAtMost
    <2> HIDE DEF Inv
    <2> QED
      BY <1>3, <1>4, <1>6, <2>1, <2>2
  <1>8. ClassLedger'
    <2> SUFFICES ASSUME NEW c \in Classes
                 PROVE  high'[c] = Bit(c \in latched)
                          - Owed(probe', "count_high", c) + Owed(probe', "count_exit", c)
      BY <1>1 DEF ClassLedger
    <2>1. high[c] = Bit(c \in latched)
            - Owed(probe, "count_high", c) + Owed(probe, "count_exit", c)
      BY DEF ClassLedger
    <2>2. Owed(probe, "count_high", c) \in Int /\ Owed(probe, "count_exit", c) \in Int
      BY OwedIsOneAtMost
    <2> HIDE DEF Inv
    <2> QED
      BY <1>3, <1>4, <1>6, <2>1, <2>2
  <1> QED
    BY <1>5, <1>7, <1>8

\* The other two writers differ in the set they write from.
LEMMA FlushWritesKeepInv ==
  ASSUME Inv, EosWrites \/ MainWrites
  PROVE  Inv'
  <1> USE DEF Inv
  <1>1. PICK e \in eos \union main :
          /\ Write(e)
          /\ \/ e \in eos /\ eos' = eos \ {e} /\ main' = main
             \/ e \in main /\ main' = main \ {e} /\ eos' = eos
          /\ UNCHANGED <<tracks, latched, probe, phase, frame, odd>>
    BY DEF EosWrites, MainWrites, frameVars
  <1>2. e \in Events
    BY DEF Types
  <1>3. /\ log' \in [Tracks -> Int] /\ high' \in [Classes -> Int]
        /\ \A t \in Tracks :
             log'[t] = log[t] - Bit(e = [type |-> "disappearance", of |-> t])
        /\ \A c \in Classes : high'[c] = high[c]
    <2>1. \A s : /\ Bit(e = [type |-> "appearance", of |-> s]) = 0
                 /\ Bit(e = [type |-> "count_high", of |-> s]) = 0
                 /\ Bit(e = [type |-> "count_exit", of |-> s]) = 0
      BY FlushersOweDisappearances
    <2>2. \A b : Bit(b) \in Int
      BY DEF Bit
    <2>3. /\ log' \in [Tracks -> Int] /\ high' \in [Classes -> Int]
          /\ \A t \in Tracks :
               log'[t] = log[t] + Bit(e = [type |-> "appearance", of |-> t])
                                - Bit(e = [type |-> "disappearance", of |-> t])
          /\ \A c \in Classes :
               high'[c] = high[c] + Bit(e = [type |-> "count_high", of |-> c])
                                  - Bit(e = [type |-> "count_exit", of |-> c])
      BY <1>1, <1>2, WriteCounts
    <2>4. (\A t \in Tracks : log[t] \in Int) /\ (\A c \in Classes : high[c] \in Int)
      BY DEF Types
    <2> HIDE DEF Inv
    <2>5. ASSUME NEW t \in Tracks
          PROVE  log'[t] = log[t] - Bit(e = [type |-> "disappearance", of |-> t])
      <3> DEFINE D == Bit(e = [type |-> "disappearance", of |-> t])
      <3>1. log'[t] = log[t] + 0 - D
        BY <2>1, <2>3
      <3>2. D \in Int /\ log[t] \in Int
        BY <2>2, <2>4
      <3>3. log'[t] = log[t] - D
        <4> HIDE DEF D
        <4> QED
          BY <3>1, <3>2
      <3> QED
        BY <3>3
    <2>6. ASSUME NEW c \in Classes
          PROVE  high'[c] = high[c]
      <3>1. high'[c] = high[c] + 0 - 0
        BY <2>1, <2>3
      <3> QED
        BY <2>4, <3>1
    <2> QED
      BY <2>3, <2>5, <2>6
  <1>4. \A t : Owed(eos', "disappearance", t) + Owed(main', "disappearance", t) =
                 Owed(eos, "disappearance", t) + Owed(main, "disappearance", t)
                   - Bit(e = [type |-> "disappearance", of |-> t])
    <2> TAKE t
    <2>1. /\ Owed(eos, "disappearance", t) \in Int /\ Owed(main, "disappearance", t) \in Int
          /\ Bit(e = [type |-> "disappearance", of |-> t]) \in Int
      BY DEF Owed, Bit
    <2>2. CASE e \in eos /\ eos' = eos \ {e} /\ main' = main
      <3>1. Owed(eos', "disappearance", t) =
              Owed(eos, "disappearance", t) - Bit(e = [type |-> "disappearance", of |-> t])
        BY <2>2, WrittenIsPaid
      <3> QED
        BY <2>1, <2>2, <3>1
    <2>3. CASE e \in main /\ main' = main \ {e} /\ eos' = eos
      <3>1. Owed(main', "disappearance", t) =
              Owed(main, "disappearance", t) - Bit(e = [type |-> "disappearance", of |-> t])
        BY <2>3, WrittenIsPaid
      <3> QED
        BY <2>1, <2>3, <3>1
    <2> QED
      BY <1>1, <2>2, <2>3
  <1>5. Types' /\ Flushes' /\ OneCall'
    BY <1>1, <1>3 DEF Types, Flushes, OneCall
  <1>6. Stopping'
    BY <1>1 DEF Stopping
  <1>7. TrackLedger'
    <2> SUFFICES ASSUME NEW t \in Tracks
                 PROVE  log'[t] = Bit(t \in Present(tracks))
                          - Owed(probe, "appearance", t) + Owed(probe, "disappearance", t)
                          + Owed(eos', "disappearance", t) + Owed(main', "disappearance", t)
      BY <1>1 DEF TrackLedger
    <2>1. log[t] = Bit(t \in Present(tracks))
            - Owed(probe, "appearance", t) + Owed(probe, "disappearance", t)
            + Owed(eos, "disappearance", t) + Owed(main, "disappearance", t)
      BY DEF TrackLedger
    <2>2. /\ Owed(probe, "appearance", t) \in Int /\ Owed(probe, "disappearance", t) \in Int
          /\ Owed(eos, "disappearance", t) \in Int /\ Owed(main, "disappearance", t) \in Int
          /\ Owed(eos', "disappearance", t) \in Int /\ Owed(main', "disappearance", t) \in Int
          /\ Bit(t \in Present(tracks)) \in Int
          /\ Bit(e = [type |-> "disappearance", of |-> t]) \in Int
      BY DEF Owed, Bit
    <2> HIDE DEF Inv
    <2> QED
      BY <1>3, <1>4, <2>1, <2>2
  <1>8. ClassLedger'
    BY <1>1, <1>3 DEF ClassLedger
  <1> QED
    BY <1>5, <1>6, <1>7, <1>8

LEMMA StepKeepsInv == Inv /\ [Next]_vars => Inv'
  <1> SUFFICES ASSUME Inv, [Next]_vars PROVE Inv'
    OBVIOUS
  <1>1. CASE FrameArrives
    BY <1>1, FrameKeepsInv DEF FrameArrives
  <1>2. CASE EndOfStream
    BY <1>2, EndOfStreamKeepsInv
  <1>3. CASE ProbeWrites
    BY <1>3, ProbeWritesKeepInv
  <1>4. CASE EosWrites \/ MainWrites
    BY <1>4, FlushWritesKeepInv
  <1>5. CASE Stop
    BY <1>5 DEF Stop, frameVars, Inv, Types, Flushes, TrackLedger, ClassLedger, OneCall, Stopping
  <1>6. CASE FinalFlush
    BY <1>6, FinalFlushKeepsInv
  <1>7. CASE UNCHANGED vars
    BY <1>7 DEF vars, frameVars, Inv, Types, Flushes, TrackLedger, ClassLedger, OneCall, Stopping
  <1> QED
    BY <1>1, <1>2, <1>3, <1>4, <1>5, <1>6, <1>7 DEF Next

\* What the ledger bounds: a record out of order is at most one off.
LEMMA InvBounds == Inv => TypeOK
  <1> SUFFICES ASSUME Inv PROVE TypeOK
    OBVIOUS
  <1> USE DEF Inv
  <1>1. ASSUME NEW t \in Tracks
        PROVE  log[t] \in -1..2
    <2> DEFINE P == Bit(t \in Present(tracks))
               A == Owed(probe, "appearance", t)
               D == Owed(probe, "disappearance", t)
               E == Owed(eos, "disappearance", t)
               M == Owed(main, "disappearance", t)
    <2>1. log[t] = P - A + D + E + M
      BY DEF TrackLedger
    <2>2. P \in {0, 1} /\ A \in {0, 1} /\ D \in {0, 1} /\ E \in {0, 1} /\ M \in {0, 1}
      BY DEF Owed, Bit
    <2>3. D = 1 => P = 0
      BY DEF OneCall, Owed, Bit
    <2>4. M = 1 => P = 0 /\ D = 0 /\ E = 0
      BY DEF Stopping, Owed, Bit
    <2> HIDE DEF Inv, P, A, D, E, M
    <2> QED
      BY <2>1, <2>2, <2>3, <2>4
  <1>2. ASSUME NEW c \in Classes
        PROVE  high[c] \in 0..1
    <2> DEFINE L == Bit(c \in latched)
               H == Owed(probe, "count_high", c)
               X == Owed(probe, "count_exit", c)
    <2>1. high[c] = L - H + X
      BY DEF ClassLedger
    <2>2. L \in {0, 1} /\ H \in {0, 1} /\ X \in {0, 1}
      BY DEF Owed, Bit
    <2>3. (H = 1 => L = 1) /\ (X = 1 => L = 0)
      BY DEF OneCall, Owed, Bit
    <2> HIDE DEF Inv, L, H, X
    <2> QED
      BY <2>1, <2>2, <2>3
  <1>3. log \in [Tracks -> -1..2]
    BY <1>1 DEF Types
  <1>4. high \in [Classes -> 0..1]
    BY <1>2 DEF Types
  <1> QED
    BY <1>3, <1>4 DEF TypeOK, Types

LEMMA InvSettles == Inv => LogAgrees
  <1> SUFFICES ASSUME Inv, Settled PROVE LogAgrees
    BY DEF LogAgrees
  <1>1. \A t \in Tracks : log[t] = IF t \in Present(tracks) THEN 1 ELSE 0
    BY DEF Inv, TrackLedger, Settled, Owed, Bit
  <1>2. \A c \in Classes : high[c] = IF c \in latched THEN 1 ELSE 0
    BY DEF Inv, ClassLedger, Settled, Owed, Bit
  <1>3. phase = "flushed" => \A t \in Tracks : log[t] = 0
    BY <1>1 DEF Inv, Stopping
  <1> QED
    BY <1>1, <1>2, <1>3 DEF LogAgrees

\* The log of a track is never more than one record ahead of or behind what a pair of
\* appearance and disappearance would make it, whatever the threads' order.
THEOREM TypeCorrect == Spec => []TypeOK
  <1>1. Spec => []Inv
    BY InvInitially, StepKeepsInv, PTL DEF Spec
  <1> QED
    BY <1>1, InvBounds, PTL

\* Whenever no events wait to be written, the log says what the engine knows; when
\* the pipeline has stopped it has a disappearance for every appearance.
THEOREM LogAgreesWithEngine == Spec => []LogAgrees
  <1>1. Spec => []Inv
    BY InvInitially, StepKeepsInv, PTL DEF Spec
  <1> QED
    BY <1>1, InvSettles, PTL
=============================================================================
