CONSTANTS
  LogN = 3
  Q = 3329
  Zeta = 2580
  K = 2
  Eta1 = 3
  Eta2 = 2
  Du = 10
  Dv = 4
  Xof <- MCXof
  Prf <- MCPrf
  D = 10
  FrodoN = 8
  NBar = 2
  B = 2
  Chi <- MCChi
  GenBlock <- MCGenBlock
  Shake16 <- MCShake16
  Schemes <- MCSchemes
  Seeds = {3, 5}
  Coins <- MCCoins
  Expanded <- MCExpanded
  Damaged <- MCDamaged
  AnswerBound = 3
  None = None
SPECIFICATION Spec
INVARIANTS TypeOK PublicMatches SecretsAgree
PROPERTY ImplementsIdealKem
