\* Every type of a column in both modes; dates with numbers for the month.
CONSTANTS
  Inputs <- MCInputs
  Fills  <- MCFills
SPECIFICATION RowSpec
INVARIANTS
  ColumnsAsWritten
  VerdictRight
  TextsArrive
  DatesConverted
  DatasetsAligned
