------------------------------- MODULE EosProbes -------------------------------
(***************************************************************************)
(* The probes that flush the events of a stream when it ends.              *)
(*                                                                         *)
(* The pipeline keeps two parallel lists, eos_pads_ and eos_probe_ids_,    *)
(* one entry for each decoder pad it probes.  An entry's position is taken *)
(* for its stream's index.  A reconnect runs on the main loop and rebuilds *)
(* the lists; the probes run on the streaming threads, which take no lock, *)
(* so an end of stream may fall between any two of its steps.              *)
(***************************************************************************)
EXTENDS Naturals, Sequences

CONSTANTS
  StreamCount, \* source_count()
  Rtsp,        \* the streams that may be rebuilt
  MaxRebuilds  \* bound on the rebuilds of a stream

Streams == 1..StreamCount

ASSUME EosAssumption ==
  /\ StreamCount \in Nat \ {0}
  /\ Rtsp \subseteq Streams
  /\ MaxRebuilds \in Nat

VARIABLES
  source,   \* decoder_src_pad() of each stream
  built,    \* how often it was rebuilt, or was tried to be
  entries,  \* the two lists: pads, and whether the probe id is not 0
  probed,   \* the pads that carry the probe
  at,       \* where the main loop is: its step and the stream it is about
  ended,    \* streams whose present chain has ended
  flushed   \* streams whose tracks were flushed since their chain was built

probeVars == <<source, built, entries, probed, at, ended, flushed>>

NoPad == <<0, 0>>
Pads == Streams \X (0..MaxRebuilds)
Entries == [pad : Pads, set : BOOLEAN]

Idle == [step |-> "idle", stream |-> 0]
At(step, s) == [step |-> step, stream |-> s]

LivePads == {source[s] : s \in Streams} \ {NoPad}

------------------------------------------------------------------------------
(* do_reconnect and install_eos_probes, on the main loop *)

\* The probe in the stream's position of the list is removed.
RemoveProbe(s) ==
  /\ at = Idle
  /\ built[s] < MaxRebuilds
  /\ at' = At("rebuild", s)
  /\ IF s \in DOMAIN entries /\ entries[s].set
       THEN /\ probed' = probed \ {entries[s].pad}
            /\ entries' = [entries EXCEPT ![s].set = FALSE]
       ELSE UNCHANGED <<probed, entries>>
  /\ UNCHANGED <<source, built, ended, flushed>>

\* rebuild_source: the old pad goes, and its probes with it.
Rebuild(s) ==
  /\ at = At("rebuild", s)
  /\ built' = [built EXCEPT ![s] = @ + 1]
  /\ probed' = probed \ {source[s]}
  /\ ended' = ended \ {s}
  /\ flushed' = flushed \ {s}
  /\ \/ /\ source' = [source EXCEPT ![s] = <<s, built[s] + 1>>]
        /\ at' = At("clear", s)
     \/ /\ source' = [source EXCEPT ![s] = NoPad]
        /\ at' = Idle
  /\ UNCHANGED entries

StillSet == {entries[i].pad : i \in {j \in DOMAIN entries : entries[j].set}}

Clear(s) ==
  /\ at = At("clear", s)
  /\ probed' = probed \ StillSet
  /\ entries' = <<>>
  /\ at' = At("install", 1)
  /\ UNCHANGED <<source, built, ended, flushed>>

\* Faulty: the lists grow at the front.
Prepended(pad) == <<[pad |-> pad, set |-> TRUE]>> \o entries

Appended(pad) == Append(entries, [pad |-> pad, set |-> TRUE])

\* Faulty: the last stream is never reached.
AfterButLast(s) == IF s + 1 >= StreamCount THEN Idle ELSE At("install", s + 1)

After(s) == IF s = StreamCount THEN Idle ELSE At("install", s + 1)

\* A stream without a pad is skipped, and leaves no gap.
Install(s) ==
  /\ at = At("install", s)
  /\ IF source[s] = NoPad
       THEN UNCHANGED <<entries, probed>>
       ELSE /\ entries' = Appended(source[s])
            /\ probed' = probed \cup {source[s]}
  /\ at' = After(s)
  /\ UNCHANGED <<source, built, ended, flushed>>

------------------------------------------------------------------------------
(* on_stream_eos, on the stream's own thread *)

\* The position at which the pad is first found, if any.
Found(pad) ==
  {i \in DOMAIN entries :
     entries[i].pad = pad /\ \A j \in 1..(i - 1) : entries[j].pad # pad}

Eos(s) ==
  /\ source[s] # NoPad
  /\ s \notin ended
  /\ ended' = ended \cup {s}
  /\ flushed' = IF source[s] \in probed THEN flushed \cup Found(source[s]) ELSE flushed
  /\ UNCHANGED <<source, built, entries, probed, at>>

------------------------------------------------------------------------------
\* The pipeline is built, and has installed the probes once.
ProbesInit ==
  /\ source = [s \in Streams |-> <<s, 0>>]
  /\ built = [s \in Streams |-> 0]
  /\ entries = [s \in Streams |-> [pad |-> <<s, 0>>, set |-> TRUE]]
  /\ probed = {<<s, 0>> : s \in Streams}
  /\ at = Idle
  /\ ended = {}
  /\ flushed = {}

ProbesNext ==
  \/ \E s \in Rtsp : RemoveProbe(s) \/ Rebuild(s) \/ Clear(s)
  \/ \E s \in Streams : Install(s) \/ Eos(s)

ProbesSpec == ProbesInit /\ [][ProbesNext]_probeVars

------------------------------------------------------------------------------
(* Properties *)

\* Types; the lists are no longer than the streams are many.
ProbesTypeOK ==
  /\ source \in [Streams -> Pads \cup {NoPad}]
  /\ built \in [Streams -> 0..MaxRebuilds]
  /\ entries \in UNION {[1..n -> Entries] : n \in 0..StreamCount}
  /\ probed \subseteq Pads
  /\ \/ at = Idle
     \/ at \in [step : {"rebuild", "clear"}, stream : Rtsp]
     \/ at \in [step : {"install"}, stream : Streams]
  /\ ended \subseteq Streams
  /\ flushed \subseteq Streams

\* No earlier stream lacks its pad.
InPlace(s) == \A z \in 1..(s - 1) : source[z] # NoPad

\* The end of a stream flushes the tracks of no other stream, and so does one that
\* falls into a reconnect, unless an earlier stream has lost its pad to a rebuild that
\* failed, or the lists from that time are still to be cleared.
OwnStreamIsFlushed ==
  [][\A s \in Streams :
       /\ Eos(s) /\ InPlace(s)
       /\ at.step = "clear" => s <= at.stream
       => flushed' \subseteq flushed \union {s}]_probeVars

\* Between reconnects only live pads carry the probe; and of the streams in place
\* every one does, and is found in the lists at its own position: what a failed
\* rebuild disarranged, the next one that succeeds has put right.
EveryPadIsProbed ==
  at = Idle =>
    /\ probed \subseteq LivePads
    /\ \A s \in Streams :
         source[s] # NoPad /\ InPlace(s) =>
           source[s] \in probed /\ Found(source[s]) = {s}

\* pipeline.cpp:299 says of the probes: "flush disappearance events for the ended
\* stream".  A stream that has not ended keeps its tracks.
OnlyTheEndedAreFlushed == flushed \subseteq ended
=============================================================================
