------------------------------ MODULE StreamModes ------------------------------
(***************************************************************************)
(* What the control plane sees of an RTSP stream: the states of its        *)
(* ReconnectPolicy, and which of them one handler of the main loop can     *)
(* turn into which.  RtspWatchdog keeps to these moves, and ControlPlane   *)
(* builds on them.  DEGRADED lasts for part of a handler only.             *)
(***************************************************************************)
StreamStates ==
  {"OFFLINE", "CONNECTING", "RUNNING", "DEGRADED", "RECONNECTING", "FAILED"}

\* A failure signal, the success of a rebuild, and that of a verification.
Moves ==
  ({"CONNECTING", "RUNNING", "RECONNECTING"} \X {"RECONNECTING", "FAILED"})
    \union {<<"RECONNECTING", "CONNECTING">>, <<"CONNECTING", "RUNNING">>}
=============================================================================
