\* Files whole, cut off or broken; record sizes scaled down.
CONSTANTS
  Files <- MCFiles
  Fills <- MCFills
  MaxLen = 64
  MaxSkip = 60
  Slack = 2
SPECIFICATION FairSpec
INVARIANTS
  StringsKept
  OnRecordBoundary
  AllTextsRead
  SkipInPlainFile
PROPERTIES
  Termination
