CONSTANTS
  Proc = {p1, p2, p3}
  Pipe = {q1, q2}
  None = None
  MaxStages = 3
  Capacity = 1
  Redirections <- SomeRedirections
  SpawnMayFail = TRUE
SPECIFICATION FairSpec
INVARIANTS
  TypeOK
  NoStrayEnds
  PipeJoinsTwo
  ShellLetsGo
  NoInheritedWriter
PROPERTIES
  PipelineEnds
