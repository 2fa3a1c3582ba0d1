CONSTANTS
  Block <- TwoBlocks
  Data = {d1, d2}
  MaxFault = 1
  MaxExpiry = 2
SPECIFICATION FairSpec
INVARIANTS TypeOK RecordedStored PutSurvivesExpiry
PROPERTIES ImplementsBlockStore CallsEnd
