CONSTANTS
  Key <- ThreeKeys
  Value <- TwoValues
  Length <- SomeLength
  Hash <- SomeHash
  capacity = 2
  Room <- SomeRooms
SPECIFICATION Spec
INVARIANTS WellFormed NoLeak FreedOnce
PROPERTY ImplementsDictionary
