SPECIFICATION FairSpec
CONSTANTS
  Error = {1, 2, 3, 4}
  NoError = 0
  MaxCalls = 3
  MaxErrors = 4
  NestAfterError = TRUE
INVARIANTS DrainedWhenIdle DroppedOnlyBehindOlder CaughtStaysCaught
PROPERTY EventuallyDrained
