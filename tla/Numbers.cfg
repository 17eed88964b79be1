SPECIFICATION NumbersSpec
CONSTANTS
  UINT32_RANGE = 8
  Overflow = 3
  COMPONENT_RANGE = 4
  MaxTicks = 10
  Base = 2
  Count = 2
  MaxStores = 1
INVARIANTS TypeOK ComparesMoments DifferenceIsElapsed FieldsReadBack
CHECK_DEADLOCK FALSE
