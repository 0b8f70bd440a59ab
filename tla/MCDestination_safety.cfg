\* Two processors on three runs of two chunks, of successive seconds, the newest of which
\* reads back wrong, into an empty target database on a server without nested
\* locks (MySQL 5.6), with a crash, a failing statement or a repeated delivery anywhere.
SPECIFICATION Spec
CONSTANTS
  r1 = r1
  r2 = r2
  r3 = r3
  t1 = t1
  p1 = p1
  p2 = p2
  None = None
  Procs = {p1, p2}
  Runs = {r1, r2, r3}
  Tables = {t1}
  NumChunks = 2
  TableOf <- MCTableOf
  CreatedAt <- MCCreatedAt
  Corrupt = {r3}
  PreExisting = {}
  NestedLocks = FALSE
  MaxCrashes = 1
  MaxFaults = 1
  MaxRedeliveries = 1
CONSTRAINT OneDisturbance
SYMMETRY ProcSymmetry
INVARIANTS
  TypeOK
  ExclusiveTableWork
  ImportedOnce
  VersionChain
  VerifiedIsRecorded
  ServedComplete
PROPERTIES
  BackupKeptUntilRecorded
  IncomingKeptUntilSettled
  ImplementsReplica
\* Once every run is settled and cleaned up nothing is left to do.
CHECK_DEADLOCK FALSE
