SPECIFICATION Spec
CONSTANTS
  NFiles = 2
  Config = {1}
  NTargets = 2
  Contents = {a, b}
  Destinations <- MCDestinations
  Absent = Absent
  Installed <- MCInstalled
  MaxRuns = 2
  MaxTroubles = 2
INVARIANTS ReportsTrue TemporariesNamed
PROPERTIES WritesPlannedBytes UserStateSurvives RetriesConverge
SYMMETRY MCSymmetry
CHECK_DEADLOCK FALSE
