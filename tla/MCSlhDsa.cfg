SPECIFICATION Spec
CONSTANTS
  N = 1
  H = 6
  D = 3
  HP = 2
  A = 2
  K = 2
  LgW = 2
  Digests <- MCDigests
  Oracles <- MCOracles
  SignBound = 2
  None = None
INVARIANT TypeOK
INVARIANT OwnMessageVerifies
INVARIANT OtherMessageFails
INVARIANT WotsKeySignsOnce
INVARIANT NoOtherStringReachable
INVARIANT OneInputPerAddress
CHECK_DEADLOCK FALSE
