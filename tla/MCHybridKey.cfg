CONSTANTS
  Family = {"ml-dsa", "ml-kem", "frodokem", "sntrup761", "mceliece"}
  Pair = {p1, p2}
  Coin = {c1, c2}
  None = None
  KeyLength = {16, 32}
  NoKey = NoKey
  NoFile = NoFile
  Foreign = Foreign
SPECIFICATION Spec
SYMMETRY Symmetry
INVARIANTS TypeOK OwnFileLoads AcceptedIsOnePair OwnCiphertextOpens CiphertextBound
