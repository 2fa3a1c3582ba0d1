CONSTANTS
  Block <- TwoBlocks
  Data = {d1, d2}
  MaxFault = 1
  MaxExpiry = 0
SPECIFICATION Spec
INVARIANT ServedSucceeds
