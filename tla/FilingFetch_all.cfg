SPECIFICATION Spec
CONSTANTS
  Requests <- MCRequests
  Configurations <- MCConfigurations
  Candidates <- MCCandidates
  CallCap = 7
INVARIANT TypeOK
INVARIANT EffectsAuthorized
INVARIANT WorkBounded
INVARIANT DeliversWhatWasAsked
INVARIANT CallsReconciled
INVARIANT DownloadsReconciled
INVARIANT CompanionKeepsSuccess
INVARIANT LocalFileFound
PROPERTY EveryRequestAnswered
