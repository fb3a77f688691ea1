CONSTANTS
  MAX_JOBS = 2
  Pids = {p1, p2, p3, p4}
  NoJob = NoJob
  Shell = Shell
  NoStatus = NoStatus
  MaxStages = 1
  ExitCodes = {0}
  Interactive = TRUE
  Keys = {2, 20}
  TtyReads = FALSE
  Externals = {}
SYMMETRY Symmetry
SPECIFICATION Spec
INVARIANTS
  TypeOK
  UniqueJobs
  ListedJobAlive
  ShownOnce
  TerminalOwner
PROPERTIES
  NoSilentLoss
