SPECIFICATION Spec
CONSTANTS
  Error = {e1}
  NoError = NoError
  MaxCalls = 3
  MaxErrors = 1
  NestAfterError = TRUE
  Host = {h1, h2}
  Coder = {}
  NoHost = NoHost
  Event = {n1, n2, n3}
  Receive = {n1, n2}
  NoEvent = NoEvent
  Absent = Absent
  Reentrant = TRUE
SYMMETRY Symmetry
INVARIANTS TypeOK EventsConserved ReturnedInOrder OvertakesAtMostOne
