-------------------------- MODULE MCMonitorReports --------------------------
(***************************************************************************)
(* An instance of MonitorReports for TLC.                                  *)
(***************************************************************************)
EXTENDS MonitorReports

\* A run older than the window is passed by the cursors and its status goes into no
\* report, so one status stands for all.
OldRunsDelivered == \A r \in OldRuns : Status(r) = "DELIVERED"
=============================================================================
