SPECIFICATION FairSpec
CONSTANTS
  Programs <- MCPrograms
  LeakPoints = 1
INVARIANTS
  MonitorErrorFails
  CorrectIsJudged
  PointsAreEarned
  ClosedOnce
PROPERTIES
  TestEnds
\* Run returns.
CHECK_DEADLOCK FALSE
