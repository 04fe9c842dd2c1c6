\* A label row, two data rows and three columns; the INI file lists all three.
CONSTANTS
  LastRow = 2
  LastCol = 2
  NCol    = 3
  Texts   = {t}
  Blank   = blank
  Absent  = absent
SPECIFICATION FairGrid
INVARIANTS
  NoCellMissing
PROPERTIES
  ContentKept
  TrimmedTight
  UseEnds
