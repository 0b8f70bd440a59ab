\* Two files, one of which cannot be opened, in rounds of one file per directory; one file
\* delivered again, one kill and one failing call anywhere. A round always follows, so
\* there is no deadlock.
SPECIFICATION FairSpec
CONSTANTS
  Files = {f1, f2}
  Unreadable = {f2}
  BatchSize = 1
  MaxRedeliveries = 1
  MaxKills = 1
  MaxFailures = 1
INVARIANTS
  TypeOK
  NoReportLost
PROPERTIES
  EventuallyTaken
