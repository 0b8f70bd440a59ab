\* A command is killed before the worker comes to its table.
SPECIFICATION FairSpec
CONSTANTS
  t1 = t1
  t2 = t2
  Tables = {t1}
  Captured <- MCOne
  Manual = {m1}
  Worker = w
  MaxRuns = 6
  MaxCommands = 1
  MaxCycles = 1
  MaxCrashes = 1
  MaxFaults = 0
  MaxRaises = 0
  MaxAbandons = 0
PROPERTIES
  CycleCompletes
\* The bounds on runs and cycles stop the worker.
CHECK_DEADLOCK FALSE
