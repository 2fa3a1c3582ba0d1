CONSTANTS
  SHA256_BLOCK_SIZE = 4
  SHA512_BLOCK_SIZE = 5
  SHA224_DIGEST_SIZE = 1
  SHA256_DIGEST_SIZE = 2
  SHA384_DIGEST_SIZE = 3
  SHA512_DIGEST_SIZE = 4
  Length256 = 2
  Length512 = 3
  Uint = 128
  MaxLonger = 1
  MaxMessage = 12
  MaxPiece = 12
  MacSize <- SomeMacs
SPECIFICATION Spec
INVARIANTS MacCorrect NothingLost
