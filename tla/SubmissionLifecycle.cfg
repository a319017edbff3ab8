SPECIFICATION Spec
CONSTANTS
  r1 = r1  r2 = r2  r3 = r3
  alice = alice  bob = bob
  Request = {r1, r2, r3}
  Student = {alice, bob}
  Team <- TwoStudents
  KeyUser = {alice}
  MaxKeys = 1
  Closes = TRUE
INVARIANTS
  OneSubmissionPerStudent
  LockedWhileLive
  PendingHasReason
\* The server may be left without requests.
CHECK_DEADLOCK FALSE
