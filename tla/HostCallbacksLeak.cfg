SPECIFICATION Spec
CONSTANTS
  Host = {h1, h2}
  Slot = {s1, s2}
  Handler = {f1, f2}
  Null = Null
  Crc32 = Crc32
  Absent = Absent
  StoresBeforeFailing = FALSE
INVARIANT NoSlotLeaked
