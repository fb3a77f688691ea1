CONSTANTS
  MAX_JOBS = 2
  Pids = {p1, p2, p3}
  NoJob = NoJob
  Shell = Shell
  NoStatus = NoStatus
  MaxStages = 2
  ExitCodes = {0, 1}
  Interactive = TRUE
  Keys = {2, 20}
  TtyReads = FALSE
  Externals = {}
SYMMETRY Symmetry
SPECIFICATION Spec
INVARIANTS
  LeaderTracked
  GroupFormed
  ForegroundStatus
  NoSilentHang
  RunningJobRuns
PROPERTIES
  ImplementsLifecycle
