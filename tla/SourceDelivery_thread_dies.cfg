\* The upload thread cannot open its database.
SPECIFICATION Spec
CONSTANTS
  NumChunks = 2
  MaxPending = 2
  MaxAttempts = 3
  ThreadFaults = {"initialize"}
  MainFaults = {}
  MaxRelayFaults = 0
  MaxFaults = 1
INVARIANTS
  ManifestIsLast
\* sync() returns or raises.
CHECK_DEADLOCK FALSE
