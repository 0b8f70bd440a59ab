-------------------------- MODULE MCMonitorAlerts --------------------------
(***************************************************************************)
(* An instance of MonitorAlerts for TLC.                                   *)
(***************************************************************************)
EXTENDS MonitorAlerts

\* Samples, the table's runs, or incoming runs: a rule reads and writes its own alert
\* only, so the combinations add nothing.
OneFamily ==
  LET used(family) == CASE family = "source" -> latest # NoSample
                          [] family = "table" -> business # NoBusiness
                          [] family = "incoming" -> \E r \in Runs : files[r] # "absent" \/ IsOpen(r)
  IN Cardinality({family \in {"source", "table", "incoming"} : used(family)}) <= 1

\* Only the heartbeat rule reads the threshold. For the others it matters that it changes,
\* not which one comes first.
FirstThreshold ==
  latest = NoSample /\ events > 0 /\ troubles = 0 => \A t \in Thresholds : threshold <= t
=============================================================================
