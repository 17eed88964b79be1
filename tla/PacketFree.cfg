SPECIFICATION Spec
SYMMETRY Symmetry
CONSTANTS
  Error = {e1}
  NoError = NoError
  MaxCalls = 3
  MaxErrors = 2
  NestAfterError = TRUE
  Packet = {p1, p2, p3}
  NoPacket = NoPacket
  Handler = {f1, f2}
  Absent = Absent
  SetInHandler = FALSE
INVARIANTS TypeOK GetterTellsWhatRuns NoStaleEntry
PROPERTY FreedAfterItsCallback
