\* One table, two cycles, one command, one kill or shutdown, one sync that fails,
\* one that raises, one abandoned cycle.
SPECIFICATION Spec
CONSTANTS
  t1 = t1
  t2 = t2
  Tables = {t1}
  Captured <- MCOne
  Manual = {m1}
  Worker = w
  MaxRuns = 6
  MaxCommands = 1
  MaxCycles = 2
  MaxCrashes = 1
  MaxFaults = 1
  MaxRaises = 1
  MaxAbandons = 1
INVARIANTS
  TypeOK
  CompletedIsDelivered
  TableShowsLastRun
PROPERTIES
  FilesAreKept
\* The bounds on runs and cycles stop the worker.
CHECK_DEADLOCK FALSE
