SPECIFICATION Spec
CONSTANTS
  Workers = 2
  Base <- MCBase
  Supplemental <- MCSupplemental
  Selections <- MCSelections
  Runs <- MCRuns
  Probing <- MCProbing
  Paired <- MCPaired
  Documents = {d}
  Refers <- MCRefers
  BatchDeadline = 4
  CaseTimeout = 2
  Reserve = 1
  ProbeTimeout = 2
  Grace = 1
  CleanupTime = 1
INVARIANTS ReportHonest ReserveKept EachCaseOnce
PROPERTIES BatchEnds
