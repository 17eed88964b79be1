SPECIFICATION FairSpec
CONSTANTS
  Error = {e1}
  NoError = NoError
  MaxCalls = 2
  MaxErrors = 2
  NestAfterError = FALSE
  Host = {h1}
  Coder = {r1}
  NoHost = NoHost
  Event = {n1, n2}
  Receive = {n1}
  NoEvent = NoEvent
  Absent = Absent
  Reentrant = FALSE
INVARIANT NoHostLeaked
PROPERTY TakenEventsSurface
