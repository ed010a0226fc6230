CONSTANTS
  SigsTotal = 15
  MultiTree = FALSE
  Unasked = Unasked
  Refused = Refused
SPECIFICATION Spec
INVARIANTS TypeOK
PROPERTIES ImplementsOneTimeSigner
