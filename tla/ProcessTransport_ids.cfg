SPECIFICATION Spec
CONSTANTS
  Root = root
  Descendants = {kid}
  StdoutCap = 1
  StderrCaps = {1}
  None = None
  PipeCapacity = 1
  MaxStdout = 1
  MaxStderr = 1
  MaxSent <- MCMaxSent
  InputSizes = {0}
  KillMayFail = FALSE
  PidReuse = TRUE
INVARIANTS
  SignalsOwnTreeOnly
