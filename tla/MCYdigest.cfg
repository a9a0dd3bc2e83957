CONSTANTS
  Modes = {"md5", "sha1", "hmac_md5", "hmac_sha1"}
  Sizes = {0, 1, 3, 9}
  MaxBytes = 15
  BlockSize = 4
  LengthSize = 2
  CountMod = 64
  MD5Length = 2
  SHA1Length = 3
SPECIFICATION Spec
INVARIANTS
  EngineHoldsMessage
  OutputIsDigest

