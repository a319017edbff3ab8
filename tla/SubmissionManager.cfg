SPECIFICATION SMFairSpec
CONSTANTS
  j1 = j1  j2 = j2
  s1 = s1
  Job = {j1, j2}
  Client = {s1, s2, s3}
  Owner <- MCOwner
  Staff = {s1}
  NoOne = NoOne
  Capacities <- MCCapacities
  UintMax = 3
INVARIANTS
  SMCountsExact
  
PROPERTIES
  UsesTestManager
  
  
\* The program may stop once every submission is finished or turned away.
CHECK_DEADLOCK FALSE
