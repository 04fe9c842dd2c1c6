\* Small directories in every order readdir() may give, without and with faults.
CONSTANTS
  Names      <- MCNames
  Bytes      <- MCBytes
  Root       <- MCRoot
  Trees      <- MCTrees
  FaultSets  <- MCFaultSets
  BufferSize = 2
SPECIFICATION FairSpec
INVARIANTS
  NothingLeft
PROPERTIES
  ImplementsPacking
  Termination
