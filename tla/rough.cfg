CONSTANTS
  MAX_JOBS = 2
  Pids = {p1, p2, p3}
  NoJob = NoJob
  Shell = Shell
  NoStatus = NoStatus
  MaxStages = 2
  ExitCodes = {0}
  Interactive = TRUE
  Keys = {20}
  TtyReads = TRUE
  Externals = {9, 18}
SYMMETRY Symmetry
SPECIFICATION Spec
INVARIANTS
  StoppedResumable
  ZombiePending
  DoneMeansReaped
  LeaderTracked
  NoSilentHang
PROPERTIES
  ResumedMayRead
