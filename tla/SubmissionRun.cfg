SPECIFICATION FairSpec
CONSTANTS
  boot = boot  locks = locks  syscalls = syscalls
  asst1 = asst1  asst2 = asst2  NoTarget = NoTarget
  Test = {boot, locks, syscalls}
  Meta = meta
  SubTarget = {asst1, asst2}
  SplitLists <- MCSplitLists
  TargetOf <- MCTargetOf
  Plain = plain
  TestsOf <- MCTestsOf
  TypeOf <- MCTypeOf
  Points <- MCPoints
  MaxPast = 2
INVARIANTS
  ScoresAddUp
  AbortIsTotal
  UnlockedWhenSaved
  StatsMatchDatabase
  BestAndLow
PROPERTIES
  StudentsUnlocked
\* Run returns.
CHECK_DEADLOCK FALSE
