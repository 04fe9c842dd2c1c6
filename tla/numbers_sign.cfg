\* The same files, integers below zero.
CONSTANTS
  Books <- MCBooks
  Decimals = 3
  Bits = 10
  RkBits = 7
SPECIFICATION Spec
INVARIANTS
  SignsKept
