SPECIFICATION Spec
CONSTANTS
  Requests <- RouteRequests
  Configurations <- FullConfigurations
  Candidates <- SoundOrNot
  CallCap = 4
INVARIANT FinalEventsReported
