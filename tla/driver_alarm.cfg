CONSTANTS
  Block <- TwoBlocks
  Data = {d1, d2}
  MaxFault = 0
  MaxExpiry = 1
SPECIFICATION Spec
INVARIANT TimerRuns
