SPECIFICATION Spec
SYMMETRY Symmetry
CONSTANTS
  Error = {e1}
  NoError = NoError
  MaxCalls = 3
  MaxErrors = 1
  NestAfterError = TRUE
  Host = {h1, h2}
  NoHost = NoHost
  Compressor = {c1, c2}
  Absent = Absent
  RangeCoder = RangeCoder
  MaxContext = 3
  UseInDestroy = TRUE
INVARIANTS TypeOK GivenIsFound DestroyedOnce MapHoldsWhatEnetHolds
