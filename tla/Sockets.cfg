SPECIFICATION Spec
CONSTANTS
  Base = 2
  Port = {0, 1, 2}
  Null = Null
  NoSet = NoSet
  BitsPerByte = 2
  Bytes = 2
  WindowsSize = 3
  Socket = {2, 3, 4}
  Local <- TwoAddresses
  MaxQueue = 1
INVARIANTS TypeOK AnswersCanBeUsed KeepsReadySockets
