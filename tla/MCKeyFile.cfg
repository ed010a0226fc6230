CONSTANTS
  Levels = 2
  LeavesPerTree = 2
  Message = {m1, m2}
  Absent = Absent
  Torn = Torn
  NoKey = NoKey
  CrashBound = 1
SPECIFICATION FileSpec
INVARIANTS FileTypeOK ReleasedLeafSignsOnce FileCoversReleased
SYMMETRY Symmetry
