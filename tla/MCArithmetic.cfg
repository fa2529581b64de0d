SPECIFICATION Spec
CONSTANTS
  IntBits = 8
  LongBits = 16
  Ints <- MCInts
  Longs <- MCLongs
  Floats <- MCFloats
  Labels <- MCLabels
INVARIANTS NumbersAreJavas JumpsAreJavas
CHECK_DEADLOCK FALSE
