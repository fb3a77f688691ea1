CONSTANTS
  MAX_ARGS = 4
  MAX_COMMANDS = 2
  HISTORY_CAPACITY = 2
  None = None
  NoLine = NoLine
  Scripts <- SomeScripts
  Kinds = {"terminal", "pipe", "file"}
  BlockLines = 3
  MaxTotal = 7
  MaxKids = 2
  Readers <- MCReaders
  Missing <- MCMissing
  VarOf <- MCVarOf
  Garbled <- MCGarbled
  Matches <- MCMatches
  AssignOf <- MCAssignOf
  Env0 <- MCEnv0
  Dir0 = "/"
  Faulty = {TRUE, FALSE}
SPECIFICATION FairSpec
INVARIANTS
  TypeOK
  ParsesGrammar
  ExpandsInOrder
  BodiesInOrder
  NoDescriptorLeft
  HeapBalanced
PROPERTIES
  SubshellIsolated
  ImplementsLog
  SessionEnds
