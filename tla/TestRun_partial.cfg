SPECIFICATION Spec
CONSTANTS
  Programs <- MCPrograms
  LeakPoints = 0
INVARIANTS
  PartialCreditIsAwarded
\* Run returns.
CHECK_DEADLOCK FALSE
