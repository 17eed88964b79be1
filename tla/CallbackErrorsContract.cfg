SPECIFICATION Spec
CONSTANTS
  Error = {1, 2, 3, 4}
  NoError = 0
  MaxCalls = 3
  MaxErrors = 4
  NestAfterError = FALSE
INVARIANT TypeOK
PROPERTY KeepsContract
