SPECIFICATION CacheFairSpec
CONSTANTS
  r1 = r1  r2 = r2  alice = alice  bob = bob
  f1 = f1  f2 = f2  c1 = c1
  Submission = {r1, r2}
  Students <- MCStudents
  SecretFile = {f1, f2}
  Cmd = {c1}
  Mentions <- MCMentions
  None = None
  Empty = Empty
INVARIANTS
  KernelIsOwn
PROPERTIES
  BuildsEnd
\* The submissions end.
CHECK_DEADLOCK FALSE
