------------------------------ MODULE MCServerRun ------------------------------
(* Files that give one number, or two that belong together, at and beyond the *)
(* edges of what is allowed, with everything enabled; and files without       *)
(* numbers, with every choice of sections and streams.                        *)
EXTENDS ServerRun, TLC

Edges(key) ==
  LET low == Limits[key][1]  high == Limits[key][2]
  IN  {low - 1, low, high} \union (IF high < MaxInt THEN {high + 1} ELSE {low + 1})

Pairs ==
  {<<"backoff_base_ms", "backoff_max_ms">>,
   <<"pressure_cpu_exit", "pressure_cpu_enter">>,
   <<"thermal_temp_exit", "thermal_temp_enter">>,
   <<"critical_temp_exit", "critical_temp_enter">>,
   <<"thermal_temp_enter", "critical_temp_enter">>,
   <<"benchmark_min_duration_s", "benchmark_max_duration_s">>,
   <<"count_hysteresis", "count_threshold">>}

\* Values around the defaults, which a file may give or leave out.
Near(key) == Edges(key) \union {Default[key] - 1, Default[key], Default[key] + 1}

MCNumbers ==
  {NoNumbers}
    \union UNION {{key :> n : n \in Edges(key)} : key \in DOMAIN Limits}
    \union UNION {{(pair[1] :> m) @@ (pair[2] :> n) :
                     m \in Near(pair[1]), n \in Near(pair[2])} : pair \in Pairs}

Sections == {"inference", "events", "llm", "rtsp", "control"}

MCDocuments ==
  {[numbers |-> n, enabled |-> Sections, streams |-> {"file", "rtsp"}] : n \in MCNumbers}
    \union {[numbers |-> NoNumbers, enabled |-> e, streams |-> s] :
              e \in SUBSET Sections, s \in {{}, {"file"}, {"rtsp"}, {"ftp"}}}
=============================================================================
