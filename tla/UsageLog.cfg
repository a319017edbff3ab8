SPECIFICATION FairSpec
CONSTANTS
  r0 = r0  r1 = r1  r2 = r2  u1 = u1  u2 = u2
  Run = {r0, r1, r2}
  Before = r0
  Left <- MCLeft
  Upload = {u1, u2}
  FullSize = 1
  MaxFiles = 1
  ChunkSize = 2
  MaxTime = 2
  MaxTorn = 2
  MaxUnsaved = 1
  Torn = Torn
  None = None
INVARIANTS
  NoStatLost
  UploadsAlone
PROPERTIES
  RunsEnd
\* The processes end.
CHECK_DEADLOCK FALSE
