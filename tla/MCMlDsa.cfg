CONSTANTS
  B = 2
  Q = 193
  Zeta = 9
  D = 6
  Tau = 2
  Gam1 = 64
  Gam2 = 32
  K = 2
  Ell = 2
  Eta = 2
  Beta = 4
  Omega = 2
  NonceRange = 65536
  Shake128 <- MCShake128
  Shake256 <- MCShake256
  Seeds = {3, 6}
  MaskStrings <- MCMaskStrings
  ChallengeCoins <- MCCoins
  Messages <- MCMessages
  Contexts <- MCContexts
  ContextLimit = 2
  Oids <- MCOids
  DigestOf <- MCDigestOf
  TurnBound = 2
  None = None
  Raised = Raised
SPECIFICATION Spec
INVARIANTS TypeOK SignedVerifies AcceptedAsSigned MasksFresh NttMultiplies
CHECK_DEADLOCK FALSE
