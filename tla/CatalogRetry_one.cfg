CONSTANTS
  c1 = c1
  Clients = {c1}
  FirstClient = c1
  FirstDeadline = 27
  OtherDeadline = 27
  Deadline <- MCDeadline
  Operation = "ensure"
  SourceRequest = TRUE
  Reports <- AllReports
  Documents <- AllDocuments
  Grace = 3
  Backoff = 5
  BackoffMax = 15
  JitterPct = 20
SPECIFICATION Spec
INVARIANTS TypeOK OneTreePerRequest ZeroUsageProven ScopeMirrorsRetry BoundedLateness CallsSpacedOut
PROPERTIES EveryRequestReturns ImplementsRetriedCall
