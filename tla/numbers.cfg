\* Numbers as double, RK value and integer, with every kind of format.
CONSTANTS
  Books <- MCBooks
  Decimals = 3
  Bits = 10
  RkBits = 7
SPECIFICATION Spec
INVARIANTS
  NumbersKept
  FormatInForce
  AddressesApart
