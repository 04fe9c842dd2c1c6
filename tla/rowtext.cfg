\* Values of plain text, and ones with backslashes and fields in them.
CONSTANTS
  Names     <- MCNames
  Literals  <- MCLiterals
  Templates <- MCTemplates
  Rows      <- MCRows
  System    <- MCSystem
SPECIFICATION FairSpec
INVARIANTS
  ValuesInPlace
PROPERTIES
  Termination
