CONSTANTS
  MAX_ARGS = 4
  MAX_COMMANDS = 2
  HISTORY_CAPACITY = 2
  None = None
  NoLine = NoLine
  Scripts <- OneLiners
  Kinds = {"terminal"}
  BlockLines = 3
  MaxTotal = 7
  MaxKids = 2
  Readers <- MCReaders
  Missing <- MCMissing
  VarOf <- MCVarOf
  Garbled <- MCGarbled
  Matches <- MCMatches
  AssignOf <- MCAssignOf
  Env0 <- MCEnv0
  Dir0 = "/"
  Faulty = {FALSE}
SPECIFICATION Spec
INVARIANTS
  MarkAtEnd
