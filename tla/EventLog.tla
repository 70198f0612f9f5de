-------------------------------- MODULE EventLog --------------------------------
(***************************************************************************)
(* The events of one stream on their way to the event log.                 *)
(*                                                                         *)
(* The event probe, behind the tracker, hands frames to the engine; the    *)
(* EOS probe, behind the decoder, flushes the stream when it ends, while   *)
(* frames from before the end are still between the two.  Each call of the *)
(* engine is atomic, and so is each write to the log, but between the call *)
(* and the writes of its events other threads run.  At the end the main    *)
(* thread stops the pipeline, which waits for both callbacks to return,    *)
(* and flushes what is left.                                               *)
(*                                                                         *)
(* The log is kept as what its records amount to: how many appearances     *)
(* of a track outnumber its disappearances, and the same of the counts.    *)
(* Key frames and the router, which also get the probe's events, are left  *)
(* out.                                                                    *)
(***************************************************************************)
EXTENDS EventEngine

CONSTANT Gaps  \* differences between the numbers of two frames that arrive

ASSUME GapAssumption == Gaps \subseteq Nat \ {0}

VARIABLES
  tracks, latched,  \* the engine's state of the stream
  probe, eos, main, \* events that each thread has still to write
  log,              \* of each track, appearances less disappearances
  high,             \* of each class, count_high less count_exit
  phase,            \* of the pipeline
  frame,            \* the last frame
  odd               \* changes with every frame, of whatever contents

frameVars == <<frame, odd>>
vars == <<tracks, latched, probe, eos, main, log, high, phase, frameVars>>

NoObjects == [t \in {} |-> [class |-> {}, zones |-> {}]]

------------------------------------------------------------------------------
\* on_event_probe, for a frame of the stream: the call of process_frame.
ProcessFrame(seen, gap) ==
  /\ phase = "running" /\ probe = {}
  /\ probe' = FrameEvents(tracks, latched, seen, gap)
  /\ tracks' = TracksAfter(tracks, seen, gap)
  /\ latched' = LatchedAfter(latched, seen)
  /\ frame' = seen
  /\ odd' = ~odd
  /\ UNCHANGED <<eos, main, log, high, phase>>

\* on_stream_eos: the call of flush_stream.
EndOfStream ==
  /\ phase = "running" /\ eos = {}
  /\ eos' = FlushEvents(tracks)
  /\ tracks' = Flushed(tracks)
  /\ UNCHANGED <<latched, probe, main, log, high, phase, frameVars>>

\* EventWriter::write.
Write(e) ==
  /\ log' = CASE e.type = "appearance"    -> [log EXCEPT ![e.of] = @ + 1]
              [] e.type = "disappearance" -> [log EXCEPT ![e.of] = @ - 1]
              [] OTHER                    -> log
  /\ high' = CASE e.type = "count_high" -> [high EXCEPT ![e.of] = @ + 1]
               [] e.type = "count_exit" -> [high EXCEPT ![e.of] = @ - 1]
               [] OTHER                 -> high

\* The events of one call concern subjects of their own (but for zones), so that the
\* order in which a thread writes them is left open.
ProbeWrites ==
  \E e \in probe :
    /\ Write(e)
    /\ probe' = probe \ {e}
    /\ UNCHANGED <<tracks, latched, eos, main, phase, frameVars>>

EosWrites ==
  \E e \in eos :
    /\ Write(e)
    /\ eos' = eos \ {e}
    /\ UNCHANGED <<tracks, latched, probe, main, phase, frameVars>>

\* run, when the main loop has quit: the pipeline's state becomes NULL.
Stop ==
  /\ phase = "running" /\ probe = {} /\ eos = {}
  /\ phase' = "stopped"
  /\ UNCHANGED <<tracks, latched, probe, eos, main, log, high, frameVars>>

\* release_resources, "Flush remaining disappearance events".
FinalFlush ==
  /\ phase = "stopped"
  /\ main' = FlushEvents(tracks)
  /\ tracks' = Flushed(tracks)
  /\ phase' = "flushed"
  /\ UNCHANGED <<latched, probe, eos, log, high, frameVars>>

MainWrites ==
  \E e \in main :
    /\ Write(e)
    /\ main' = main \ {e}
    /\ UNCHANGED <<tracks, latched, probe, eos, phase, frameVars>>

Init ==
  /\ tracks = [t \in {} |-> [unseen |-> 0, gone |-> FALSE, zones |-> {}]]
  /\ latched = {}
  /\ probe = {} /\ eos = {} /\ main = {}
  /\ log = [t \in Tracks |-> 0]
  /\ high = [c \in Classes |-> 0]
  /\ phase = "running"
  /\ frame = NoObjects
  /\ odd = FALSE

FrameArrives == \E seen \in Frames, gap \in Gaps : ProcessFrame(seen, gap)

Next ==
  \/ FrameArrives \/ EndOfStream
  \/ ProbeWrites \/ EosWrites
  \/ Stop \/ FinalFlush \/ MainWrites

\* Threads do not stop inside a callback; nothing says that frames keep coming.
Fairness ==
  /\ WF_vars(ProbeWrites) /\ WF_vars(EosWrites)
  /\ WF_vars(FinalFlush) /\ WF_vars(MainWrites)

Spec == Init /\ [][Next]_vars /\ Fairness

------------------------------------------------------------------------------
(* Properties *)

\* Types.  A track's records can come in the wrong order: at worst an appearance
\* is written twice before a disappearance, or a disappearance first.
TypeOK ==
  /\ tracks \in TrackMaps
  /\ latched \subseteq Classes
  /\ probe \subseteq Events /\ eos \subseteq Events /\ main \subseteq Events
  /\ log \in [Tracks -> -1..2]
  /\ high \in [Classes -> 0..1]
  /\ phase \in {"running", "stopped", "flushed"}
  /\ frame \in Frames
  /\ odd \in BOOLEAN

Settled == probe = {} /\ eos = {} /\ main = {}

\* Whenever no thread has events left to write, the log says of each track and each
\* class what the engine knows, however the writes of a flush and of late frames
\* were interleaved; at the end it has a disappearance for every appearance.
LogAgrees ==
  Settled =>
    /\ \A t \in Tracks : log[t] = IF t \in Present(tracks) THEN 1 ELSE 0
    /\ \A c \in Classes : high[c] = IF c \in latched THEN 1 ELSE 0
    /\ phase = "flushed" => \A t \in Tracks : log[t] = 0

\* An object that is not seen any more is reported to have disappeared, if frames
\* keep coming or the pipeline stops: also one that only a late frame brought back.
LeaversAreReported ==
  \A t \in Tracks :
    /\ <>[](t \notin DOMAIN frame)
    /\ []<><<FrameArrives>>_vars \/ <>(phase # "running")
    => <>[](log[t] = 0)
=============================================================================
