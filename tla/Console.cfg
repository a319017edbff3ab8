SPECIFICATION FairSpec
CONSTANTS
  Tests <- MCTests
  Prefix <- MCPrefix
  Word <- MCWord
  Selected <- MCSelected
  KernelPrompt = "OS/161 kernel"
  ShellPrompt = "OS/161$"
  UserNames = {}
  MaxExpansionLoops = 48
  Pipe = Pipe
  NoConf = NoConf
  Replies <- MCReplies
  OneCharacter <- MCOneCharacter
  Credit <- MCCredit
  CommandRetries = 2
  ReadSize = 3
  MaxDrops = 2
INVARIANTS
  RefusedForReason
  OutputIsWhole
  CorrectIsDeserved
PROPERTIES
  ConsoleEnds
\* A test is refused, or Run returns.
CHECK_DEADLOCK FALSE
