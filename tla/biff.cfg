\* Workbook streams of two substreams, whole or cut off, and old formats.
CONSTANTS
  Streams <- MCStreams
  Texts   <- MCTexts
  Blank   = ""
  NoText  = "?"
  NoName  = "file"
  LastWord = 3
SPECIFICATION FairSpec
INVARIANTS
  WorksheetInSheet
  CellsOfOwnSubstream
  SuccessMeansLoaded
PROPERTIES
  WellFormedLoads
