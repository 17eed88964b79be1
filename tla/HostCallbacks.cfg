SPECIFICATION Spec
SYMMETRY Symmetry
CONSTANTS
  Host = {h1, h2}
  Slot = {s1, s2, s3}
  Handler = {f1, f2}
  Null = Null
  Crc32 = Crc32
  Absent = Absent
  StoresBeforeFailing = FALSE
INVARIANTS TypeOK GettersTellWhatRuns OnlyFailuresLeak NoMemoryKept
PROPERTIES GettersAreFields NativeAreFields
