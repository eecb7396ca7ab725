SPECIFICATION FairSpec
CONSTANTS
  ByteBits = 2
  WordBytes = 2
  Words = {0, 1, 10, 15}
  LongWords = {0, 1, 15}
  PrintedNumbers <- PrintedOfWords
  Bases = {1, 10, 15}
  OutLengths = {3, 6}
INVARIANTS
  OrderIsNumeric
  BytesAreNumber
  SumsWrap
  ShiftsMove
  Mul128IsProduct
  Mul256IsProduct
  PrintsNumber
PROPERTIES
  DividesNumbers
  DivisionEnds
