SPECIFICATION Spec
CONSTANTS
  Host = {h1, h2}
  Array = {a1, a2}
  Slot = {s1, s2}
  NoArray = NoArray
  NoHandle = NoHandle
  MaxHosts = 3
  MaxHandles = 4
SYMMETRY Symmetry
INVARIANTS TypeOK OneObjectPerPeer FoundObjectIsOfThisHost
CHECK_DEADLOCK FALSE
