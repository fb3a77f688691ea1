CONSTANTS
  MAX_JOBS = 2
  Pids = {p1, p2}
  NoJob = NoJob
  Shell = Shell
  NoStatus = NoStatus
  MaxStages = 2
  ExitCodes = {0}
  Interactive = TRUE
  Keys = {2, 20}
  TtyReads = TRUE
  Externals = {9, 18}
SPECIFICATION FairSpec
PROPERTIES
  PromptReturns
  ZombiesReaped
