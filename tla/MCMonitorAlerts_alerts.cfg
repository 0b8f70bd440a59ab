\* One source node, one table or two incoming runs; three samples, changes of the
\* table's runs or of files; two rules, and one change of rules, failing family or
\* kill anywhere; one open alert looked up per round. A round always follows, so
\* there is no deadlock.
SPECIFICATION FairSpec
CONSTANTS
  Runs = {r1, r2}
  History = 2
  Future = 1
  FreshFuture = 0
  Thresholds = {1, 2}
  Overdue = 0
  Grace = 0
  Settle = 0
  Stale = 0
  RecoveryPage = 1
  Retention = 1
  MaxClock = 2
  MaxEvents = 3
  MaxTroubles = 1
CONSTRAINTS
  OneFamily
  FirstThreshold
INVARIANTS
  TypeOK
PROPERTIES
  AlertsAgree
  ClosedByEvidence
  StaleEventuallyCloses
