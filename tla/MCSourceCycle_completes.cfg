\* Two tables, the worker alone; syncs fail twice and it is killed or shut down at any
\* moment.
SPECIFICATION FairSpec
CONSTANTS
  t1 = t1
  t2 = t2
  Tables = {t1, t2}
  Captured <- MCTwo
  Manual = {}
  Worker = w
  MaxRuns = 6
  MaxCommands = 0
  MaxCycles = 1
  MaxCrashes = 1
  MaxFaults = 2
  MaxRaises = 0
  MaxAbandons = 0
PROPERTIES
  CycleCompletes
  ImplementsCycle
\* The bounds on runs and cycles stop the worker.
CHECK_DEADLOCK FALSE
