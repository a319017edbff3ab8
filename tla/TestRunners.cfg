SPECIFICATION RunnersSpec
CONSTANTS
  t1 = t1  t2 = t2  t3 = t3  t4 = t4
  g1 = g1  g2 = g2  g3 = g3  g4 = g4  gnone = gnone  tag = tag
  Test = {t1, t2, t3, t4}
  Deps <- Diamond
  NoTest = NoTest
  NoNode = NoNode
  TestFile = {t1, t2, t3, t4}
  Glob <- MCGlob
  Tags <- MCTags
  DependsOf <- MCDependsOf
  ConfigTests <- MCConfigTests
INVARIANTS
  GroupIsAsConfigured
  SortIsTopological
PROPERTIES
  Terminates
  KeepsSchedule
  SimpleKeepsSchedule
  EveryTestReported
\* The runner stops once the channel is closed.
CHECK_DEADLOCK FALSE
