SPECIFICATION Spec
CONSTANTS
  Root = root
  Descendants = {}
  StdoutCap = 2
  StderrCaps = {1, None}
  None = None
  PipeCapacity = 2
  MaxStdout = 3
  MaxStderr = 3
  MaxSent <- MCMaxSent
  InputSizes = {0, 2}
  KillMayFail = FALSE
  PidReuse = TRUE
INVARIANTS
  CompleteResult
  BoundedMemory
  HonestTruncation
