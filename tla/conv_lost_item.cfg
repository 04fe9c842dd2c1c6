\* A row archive that cannot be opened, in a run that succeeds.
CONSTANTS
  Workbooks <- MCWorkbooks
  Modes     <- MCModes
  FaultSets <- MCZipOpen
SPECIFICATION Spec
INVARIANTS
  SuccessMeansAllItems
