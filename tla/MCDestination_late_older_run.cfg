\* An older run, delivered late, after a crash between RENAME and the recording of
\* a newer one.
SPECIFICATION Spec
CONSTANTS
  r1 = r1
  r2 = r2
  r3 = r3
  t1 = t1
  p1 = p1
  p2 = p2
  None = None
  Procs = {p1}
  Runs = {r1, r2}
  Tables = {t1}
  NumChunks = 1
  TableOf <- MCTableOf
  CreatedAt <- MCCreatedAt
  Corrupt = {}
  PreExisting = {t1}
  NestedLocks = TRUE
  MaxCrashes = 1
  MaxFaults = 0
  MaxRedeliveries = 0
PROPERTIES
  LiveNeverRegresses
\* Once every run is settled and cleaned up nothing is left to do.
CHECK_DEADLOCK FALSE
