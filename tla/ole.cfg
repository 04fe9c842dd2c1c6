\* OLE2 images, sound, cut off or broken, with scaled down block sizes.
CONSTANTS
  Images <- MCImages
  Fills <- MCFills
  BigBlock = 4
  SmallBlock = 2
  Cutoff = 6
  HeaderList = 2
SPECIFICATION OleSpec
INVARIANTS
  DepotIsTable
  EachEntryOnce
  WorkbookRead
  RestInPlace
