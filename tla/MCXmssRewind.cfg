CONSTANTS
  SigsTotal = 7
  MultiTree = FALSE
  Unasked = Unasked
  Refused = Refused
SPECIFICATION RewindSpec
INVARIANT UsedKeysFollowSignatures
