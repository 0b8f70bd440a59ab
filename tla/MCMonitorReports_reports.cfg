\* Two runs, the first older than the window of facts, two reports of one fact and one
\* progress observation each, two changes of status, and time to expire once on either clock.
SPECIFICATION Spec
CONSTANTS
  NumRuns = 2
  OldRuns = {1}
  PageSize = 1
  ProgressSize = 1
  History = 1
  Future = 1
  MaxClock = 2
  MaxSourceClock = 2
  MaxReports = 2
  MaxChanges = 2
  MaxSequence = 1
CONSTRAINT OldRunsDelivered
INVARIANTS
  TypeOK
  ConflictsAreReal
  RotationVisitsAll
PROPERTIES
  GoesBackOnlyWithinSkew
  ProgressNeverBack
\* The bounds on time and reports stop the model.
CHECK_DEADLOCK FALSE
