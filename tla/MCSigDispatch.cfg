CONSTANTS
  Key <- MCKey
  Kind <- MCKind
  Name <- MCName
  PublicName <- MCPublicName
  Hash <- MCHash
  DigestSize <- MCDigestSize
  Shake = {"shake128"}
  HashOid = {"sha1", "sha256", "sha512"}
  RsaHash = {"sha1", "sha256", "sha512", "sha3_256"}
  EcdsaHash = {"sha256", "sha512", "sha3_256", "shake128"}
  PqName = {"ml-dsa-44", "slh-dsa-shake-128f", "falcon-512"}
  PreHash <- MCPreHash
  StatefulName = {"hss", "xmss"}
  Composite <- MCComposite
  RsaComposite = {"composite-sig-ml-dsa-65-rsa3072", "composite-sig-ml-dsa-87-rsa3072"}
  Data = {m1, m2}
  Salt = {0, 20, 32}
  Request <- MCRequest
  NoHash = NoHash
  NoKey = NoKey
  Nothing = Nothing
SPECIFICATION Spec
INVARIANTS TypeOK SignedVerifies AcceptedAsNamed PreparedSigns DirectVerifies
SYMMETRY Symmetry
CHECK_DEADLOCK FALSE
