CONSTANTS
  c1 = c1
  c2 = c2
  Clients = {c1, c2}
  FirstClient = c1
  FirstDeadline = 5
  OtherDeadline = 8
  Deadline <- MCDeadline
  Operation = "ensure"
  SourceRequest = FALSE
  Reports <- FewReports
  Documents = {}
  Grace = 1
  Backoff = 3
  BackoffMax = 5
  JitterPct = 20
SPECIFICATION Spec
INVARIANTS NoSleepPastDeadline
