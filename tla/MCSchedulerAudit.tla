--------------------------- MODULE MCSchedulerAudit ---------------------------
(* SchedulerPolicy and its observer on a small configuration. *)
EXTENDS SchedulerAudit

\* One reading in each band the six thresholds cut out, boundaries included.
MCTemps == {NoReading, 70, 72, 76, 82}
MCCpus == {NoReading, 50, 60, 70}
MCGaps == {1, 3}
=============================================================================
