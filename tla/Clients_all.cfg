SPECIFICATION MCSpec
CONSTANTS
  Options <- MCOptions
  MaxRequests = 2
  Invocations <- MCInvocations
  Configurations <- MCConfigurations
INVARIANT AcquiredAfterMiss
INVARIANT ReuseVerified
INVARIANT MeasuredUsageKept
INVARIANT AnswersAsPromised
INVARIANT StatementsAnswerTrue
INVARIANT StatementsWorkBounded
