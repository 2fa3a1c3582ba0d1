CONSTANTS
  Word = 4
  Characters <- SomeCharacters
  Keys <- SomeKeys
  Values <- SomeValues
  Bound <- SomeBounds
SPECIFICATION Spec
INVARIANTS TrimCorrect UnquoteCorrect ReplaceCorrect ReceiveCorrect SendCorrect
INVARIANTS Base16Correct LsbCorrect ReadEnds RecordsApart
INVARIANTS ConfigureKnown BlockSizeKept
