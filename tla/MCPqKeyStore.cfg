CONSTANTS
  Family = {"ml-dsa", "ml-kem", "slh-dsa", "frodokem", "sntrup761", "mceliece", "falcon"}
  Pair = {p1, p2, p3}
  None = None
  NoKey = NoKey
  NoFile = NoFile
  Foreign = Foreign
SPECIFICATION Spec
INVARIANTS TypeOK OwnFileLoads KeyIsOnePair SeedSurvives
SYMMETRY Symmetry
