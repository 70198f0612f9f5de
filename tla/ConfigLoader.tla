------------------------------ MODULE ConfigLoader ------------------------------
(***************************************************************************)
(* What load_streams_config makes of streams.yaml.                         *)
(*                                                                         *)
(* A document is the record of its numbers (a function from the keys it    *)
(* gives), the sections that are enabled, and the types of its streams.    *)
(* Numbers are checked one by one where they are given, and some against   *)
(* each other with the defaults filled in.  Left out: paths, host names    *)
(* and other texts, switches that choose a route or a mode, and the parser *)
(* of YAML, whose errors reject the document.  Percentages and degrees are *)
(* whole numbers, and min_fps is in tenths.                                *)
(***************************************************************************)
EXTENDS Integers

\* What is given, and the rest where nothing is.
OrElse(given, rest) ==
  [key \in DOMAIN given \union DOMAIN rest |->
     IF key \in DOMAIN given THEN given[key] ELSE rest[key]]

MaxInt == 2147483647
AtLeast(n) == <<n, MaxInt>>

EventsLimits ==
  [max_keyframes |-> AtLeast(0), jpeg_quality |-> <<1, 100>>,
   disappear_grace_frames |-> AtLeast(0), count_threshold |-> AtLeast(1),
   count_hysteresis |-> AtLeast(0), class |-> AtLeast(0),
   zone_width |-> AtLeast(1), zone_height |-> AtLeast(1)]

LlmLimits ==
  [deepseek_interval_sec |-> AtLeast(0),
   qwen_max_tokens |-> <<1, 8192>>, qwen_timeout_sec |-> <<1, 120>>,
   qwen_max_retries |-> <<0, 5>>,
   deepseek_max_tokens |-> <<1, 8192>>, deepseek_timeout_sec |-> <<1, 120>>,
   deepseek_max_retries |-> <<0, 5>>,
   queue_max_size |-> <<1, 256>>, worker_threads |-> <<1, 8>>,
   failure_threshold |-> AtLeast(1), reset_timeout_sec |-> AtLeast(1),
   half_open_success_threshold |-> AtLeast(1)]

RtspLimits ==
  [watch_timeout_sec |-> <<1, 60>>, first_frame_timeout_sec |-> <<1, 120>>,
   max_retries |-> <<1, 20>>, backoff_base_ms |-> <<100, 60000>>,
   backoff_max_ms |-> <<100, 600000>>, verify_sec |-> <<1, 60>>,
   min_fps |-> <<1, 600>>, rtspsrc_latency_ms |-> <<0, 10000>>]

SchedulerLimits ==
  [sample_interval_sec |-> <<1, 60>>,
   pressure_cpu_enter |-> <<1, 99>>, pressure_cpu_exit |-> <<1, 99>>,
   thermal_temp_enter |-> <<30, 125>>, thermal_temp_exit |-> <<30, 125>>,
   critical_temp_enter |-> <<30, 125>>, critical_temp_exit |-> <<30, 125>>,
   min_hold_sec |-> <<0, 600>>, cooldown_sec |-> <<0, 600>>,
   max_adjustments_per_window |-> <<0, 10>>, adjust_window_sec |-> <<10, 3600>>]

ControlLimits ==
  [port |-> <<1, 65535>>, max_body_bytes |-> <<256, 1048576>>,
   read_timeout_ms |-> <<100, 60000>>, max_infer_interval |-> <<1, 60>>,
   restart_min_interval_ms |-> <<0, 600000>>, max_snapshots |-> <<1, 1000>>,
   benchmark_min_duration_s |-> <<1, 3600>>,
   benchmark_max_duration_s |-> <<1, 3600>>,
   benchmark_default_duration_s |-> <<1, 3600>>]

Limits ==
  OrElse(EventsLimits, OrElse(LlmLimits,
    OrElse(RtspLimits, OrElse(SchedulerLimits, ControlLimits))))

\* The values of the keys that are checked against another one.
Default ==
  [count_threshold |-> 3, count_hysteresis |-> 1,
   backoff_base_ms |-> 1000, backoff_max_ms |-> 15000,
   pressure_cpu_enter |-> 70, pressure_cpu_exit |-> 50,
   thermal_temp_enter |-> 75, thermal_temp_exit |-> 70,
   critical_temp_enter |-> 82, critical_temp_exit |-> 76,
   benchmark_min_duration_s |-> 5, benchmark_max_duration_s |-> 120,
   benchmark_default_duration_s |-> 60]

Config(numbers) == OrElse(numbers, Default)

InLimits(numbers) ==
  \A key \in DOMAIN numbers : numbers[key] \in Limits[key][1]..Limits[key][2]

\* The hysteresis is looked at only where the file gives it.
HysteresisFits(numbers) ==
  "count_hysteresis" \in DOMAIN numbers =>
    numbers["count_hysteresis"] < Config(numbers).count_threshold

BackoffOrdered(numbers) ==
  Config(numbers).backoff_max_ms >= Config(numbers).backoff_base_ms

ThresholdsOrdered(numbers) ==
  LET c == Config(numbers)
  IN  /\ c.pressure_cpu_exit < c.pressure_cpu_enter
      /\ c.thermal_temp_exit < c.thermal_temp_enter
      /\ c.critical_temp_exit < c.critical_temp_enter
      /\ c.thermal_temp_enter < c.critical_temp_enter

BenchmarkOrdered(numbers) ==
  Config(numbers).benchmark_min_duration_s < Config(numbers).benchmark_max_duration_s

StreamsOk(doc) ==
  /\ doc.streams # {} /\ doc.streams \subseteq {"file", "rtsp"}
  /\ "rtsp" \in doc.streams => "rtsp" \in doc.enabled

Loads(doc) ==
  /\ InLimits(doc.numbers)
  /\ HysteresisFits(doc.numbers) /\ BackoffOrdered(doc.numbers)
  /\ ThresholdsOrdered(doc.numbers) /\ BenchmarkOrdered(doc.numbers)
  /\ StreamsOk(doc)
=============================================================================
