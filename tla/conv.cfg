\* All option combinations, without and with faults of the environment.
CONSTANTS
  Workbooks <- MCWorkbooks
  Modes     <- MCModes
  FaultSets <- MCFaultSets
SPECIFICATION FairSpec
INVARIANTS
  ItemsSerial
  FileIdsUnique
  FilesComplete
  NoSpuriousAbort
  PublishedAccounts
PROPERTIES
  ImplementsContract
  Termination
