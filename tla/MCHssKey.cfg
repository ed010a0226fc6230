CONSTANTS
  Levels = 2
  LeavesPerTree = 3
  Message = {m1, m2}
  Unasked = Unasked
  Refused = Refused
SPECIFICATION FairSpec
INVARIANTS TypeOK LeafSignsOnce
PROPERTIES ImplementsOneTimeSigner PublicKeyStable EventuallyExhausted
