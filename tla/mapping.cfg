CONSTANTS
  Thread = {t1}
  Block <- FourBlocks
SPECIFICATION Spec
INVARIANT FidCorrect
PROPERTY RecordsKept
