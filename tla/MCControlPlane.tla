---------------------------- MODULE MCControlPlane ----------------------------
(* A file, stream 1, and a camera, stream 2. *)
EXTENDS ControlPlaneAudit

MCPriority == <<"normal", "high">>
MCRequests ==
  {[kind |-> "interval", stream |-> 1, value |-> 5],
   [kind |-> "priority", stream |-> 1, value |-> "low"],
   [kind |-> "priority", stream |-> 1, value |-> "normal"],
   [kind |-> "restart", stream |-> 2, value |-> 0]}
=============================================================================
