SPECIFICATION Spec
CONSTANTS
  Options <- MCOptions
  MaxRequests = 2
INVARIANT ZeroAttemptsProven
