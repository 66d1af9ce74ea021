SPECIFICATION Spec
CONSTANTS
  Root = root
  Descendants = {kid}
  StdoutCap = 1
  StderrCaps = {1}
  None = None
  PipeCapacity = 1
  MaxStdout = 0
  MaxStderr = 2
  MaxSent <- MCMaxSent
  InputSizes = {0}
  KillMayFail = TRUE
  PidReuse = FALSE
INVARIANTS
  TypeOK
  NothingLeftBehind
PROPERTIES
  ImplementsCall
  Returns
  DiagnosticsDrained
