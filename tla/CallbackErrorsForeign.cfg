SPECIFICATION Spec
CONSTANTS
  Error = {1, 2, 3, 4}
  NoError = 0
  MaxCalls = 2
  MaxErrors = 4
  NestAfterError = TRUE
INVARIANT ThrownByItsOwnCall
