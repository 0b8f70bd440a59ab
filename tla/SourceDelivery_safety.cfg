\* Four chunks with room for two, three attempts per file, three unanswered or
\* refused PUTs and three other failures anywhere, also where the upload thread dies
\* of them.
SPECIFICATION FairSpec
CONSTANTS
  NumChunks = 4
  MaxPending = 2
  MaxAttempts = 3
  ThreadFaults = {"initialize", "attempt", "confirmed", "mark_cleanup", "unlink_failed", "rejected"}
  MainFaults = {"decide", "register", "attempt", "confirmed", "unlink_failed", "rejected", "complete", "finalizing", "deliver", "cleanup"}
  MaxRelayFaults = 3
  MaxFaults = 3
INVARIANTS
  TypeOK
  CommittedIsComplete
  DeliveredIsConfirmed
  KeptUntilConfirmed
  OnePutAtATime
  SpoolIsBounded
PROPERTIES
  ImplementsTransfer
  SyncEnds
\* sync() returns or raises.
CHECK_DEADLOCK FALSE
