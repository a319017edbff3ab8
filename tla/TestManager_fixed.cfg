SPECIFICATION Spec
CONSTANTS
  Job = {j1, j2, j3, j4, j5}
  Client = {c1, c2}
  Capacities <- MCCapacities
  UintMax = 5
SYMMETRY JobSymmetry
INVARIANTS
  CountsExact
  CapacityRespected
  NoIdleSlot
  OnDeckNotStranded
\* The program may stop once every job is reported and the manager is closed.
CHECK_DEADLOCK FALSE
