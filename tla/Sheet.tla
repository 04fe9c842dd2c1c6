------------------------------- MODULE Sheet --------------------------------
(***************************************************************************)
(* cexcel/sheet.c: the grid of cells of one worksheet, in the order the    *)
(* program uses it: the record handlers set cells, proc_main() trims the   *)
(* empty rows and columns at the end, template_assign() then reads each    *)
(* data row from column 0 to the last column of the INI file.              *)
(*                                                                         *)
(* The hash table of cells is a function on positions; a position that has *)
(* no entry maps to Absent, one that holds the empty string to Blank.      *)
(***************************************************************************)
EXTENDS Integers

CONSTANTS
  LastRow, LastCol,  \* greatest row and column a record may name
  NCol,              \* ini->ncol, the columns template_assign() asks for
  Texts,             \* the non-empty texts
  Blank, Absent

ASSUME BoundsAssumption == LastRow \in Nat /\ LastCol \in Nat /\ NCol \in 0 .. LastCol + 1
ASSUME TextsAssumption  == Blank \notin Texts /\ Absent \notin Texts /\ Blank # Absent

VARIABLES
  rows, cols, cells,
  phase,    \* "load", "trimrows", "trimcols", "read", "done"
  nrows,    \* the number of rows proc_sheet() noted before its loop
  i, j,     \* row and column it reads next
  missing   \* cexcel_sheet_get_cell() returned NULL

gridVars == <<rows, cols, cells, phase, nrows, i, j, missing>>

Pos == (0 .. LastRow) \X (0 .. LastCol)

GridInit ==
  /\ rows = 0 /\ cols = 0
  /\ cells = [x \in Pos |-> Absent]
  /\ phase = "load"
  /\ nrows = 0 /\ i = 1 /\ j = 0
  /\ missing = FALSE

-----------------------------------------------------------------------------
AtLeast(n, m) == IF n < m THEN m ELSE n

(* cexcel_sheet_set_cell(): a position that is taken keeps its text, the   *)
(* hash table refusing the key, and the caller ignores the -1.             *)
SetCell(row, col, text) ==
  /\ phase = "load"
  /\ IF cells[<<row, col>>] = Absent
     THEN /\ cells' = [cells EXCEPT ![<<row, col>>] = text]
          /\ rows' = AtLeast(rows, row + 1)
          /\ cols' = AtLeast(cols, col + 1)
     ELSE UNCHANGED <<cells, rows, cols>>
  /\ UNCHANGED <<phase, nrows, i, j, missing>>

(* cexcel_sheet_trim_empty_cells() is entered, once the book is loaded.    *)
Loaded ==
  /\ phase = "load"
  /\ phase' = "trimrows"
  /\ UNCHANGED <<rows, cols, cells, nrows, i, j, missing>>

Empty(x) == cells[x] \in {Absent, Blank}

(* Looking at a cell that has no entry makes one, with an empty text.      *)
Probed(P) == [x \in Pos |-> IF x \in P /\ cells[x] = Absent THEN Blank ELSE cells[x]]
Without(P) == [x \in Pos |-> IF x \in P THEN Absent ELSE cells[x]]

LastRowPos == {x \in Pos : x[1] = rows - 1 /\ x[2] < cols}
LastColPos == {x \in Pos : x[2] = cols - 1 /\ x[1] < rows}

\* Mutants: the last column is not looked at; an empty text counts as content.
LastRowEmptyShort == rows > 0 /\ \A x \in LastRowPos : x[2] < cols - 1 => Empty(x)
LastColUnset      == cols > 0 /\ \A x \in LastColPos : cells[x] = Absent
LastRowEmpty == rows > 0 /\ \A x \in LastRowPos : Empty(x)
LastColEmpty == cols > 0 /\ \A x \in LastColPos : Empty(x)

(* The cells the test looks at before it meets a text.                     *)
SeenInLastRow == {x \in LastRowPos : \A y \in LastRowPos : y[2] >= x[2] => Empty(y)}
SeenInLastCol == {x \in LastColPos : \A y \in LastColPos : y[1] >= x[1] => Empty(y)}

\* Mutant: the cells are removed but the row is still counted.
RemoveLastRowOnly ==
  /\ phase = "trimrows" /\ LastRowEmpty
  /\ cells' = Without(LastRowPos)
  /\ UNCHANGED <<rows, cols, phase, nrows, i, j, missing>>
RemoveLastRow ==
  /\ phase = "trimrows" /\ LastRowEmpty
  /\ cells' = Without(LastRowPos)
  /\ rows' = rows - 1
  /\ cols' = IF rows = 1 THEN 0 ELSE cols
  /\ UNCHANGED <<phase, nrows, i, j, missing>>

RowsTrimmed ==
  /\ phase = "trimrows" /\ ~LastRowEmpty
  /\ cells' = Probed(SeenInLastRow)
  /\ phase' = "trimcols"
  /\ UNCHANGED <<rows, cols, nrows, i, j, missing>>

RemoveLastCol ==
  /\ phase = "trimcols" /\ LastColEmpty
  /\ cells' = Without(LastColPos)
  /\ cols' = cols - 1
  /\ rows' = IF cols = 1 THEN 0 ELSE rows
  /\ UNCHANGED <<phase, nrows, i, j, missing>>

(* Trimming is over and proc_sheet() starts: row 0 holds the labels.       *)
ColsTrimmed ==
  /\ phase = "trimcols" /\ ~LastColEmpty
  /\ cells' = Probed(SeenInLastCol)
  /\ phase' = "read" /\ nrows' = rows /\ i' = 1 /\ j' = 0
  /\ UNCHANGED <<rows, cols, missing>>

-----------------------------------------------------------------------------
(* cexcel_sheet_get_cell() compares with < where the last valid index is   *)
(* one less: a look just past the edge enlarges the sheet.                 *)
\* Mutant: the comparison the size calls for.
OutOfGrid(row, col)  == rows <= row \/ cols <= col
OutOfSheet(row, col) == rows < row \/ cols < col

ReadCell ==
  /\ phase = "read" /\ i < nrows /\ j < NCol
  /\ missing' = OutOfSheet(i, j)
  /\ IF OutOfSheet(i, j)
     THEN phase' = "done" /\ UNCHANGED <<rows, cols, cells, j>>
     ELSE /\ cells' = Probed({<<i, j>>})
          /\ rows' = IF cells[<<i, j>>] = Absent THEN AtLeast(rows, i + 1) ELSE rows
          /\ cols' = IF cells[<<i, j>>] = Absent THEN AtLeast(cols, j + 1) ELSE cols
          /\ j' = j + 1 /\ phase' = phase
  /\ UNCHANGED <<nrows, i>>

NextRow ==
  /\ phase = "read" /\ i < nrows /\ j = NCol
  /\ i' = i + 1 /\ j' = 0
  /\ UNCHANGED <<rows, cols, cells, phase, nrows, missing>>

AllRead ==
  /\ phase = "read" /\ i >= nrows
  /\ phase' = "done"
  /\ UNCHANGED <<rows, cols, cells, nrows, i, j, missing>>

Finished == phase = "done" /\ UNCHANGED gridVars

Use ==
  \/ Loaded \/ RemoveLastRow \/ RowsTrimmed \/ RemoveLastCol \/ ColsTrimmed
  \/ ReadCell \/ NextRow \/ AllRead

GridNext ==
  \/ \E x \in Pos, t \in Texts \cup {Blank} : SetCell(x[1], x[2], t)
  \/ Use \/ Finished

GridSpec == GridInit /\ [][GridNext]_gridVars

(* Once the book is loaded nothing waits for anything outside.             *)
FairGrid == GridSpec /\ WF_gridVars(phase # "load" /\ GridNext)

-----------------------------------------------------------------------------
GridTypeOK ==
  /\ rows \in 0 .. LastRow + 1 /\ cols \in 0 .. LastCol + 1
  /\ cells \in [Pos -> Texts \cup {Blank, Absent}]
  /\ phase \in {"load", "trimrows", "trimcols", "read", "done"}
  /\ nrows \in 0 .. LastRow + 1 /\ i \in 1 .. LastRow + 2 /\ j \in 0 .. NCol
  /\ missing \in BOOLEAN

(* Every entry of the hash table lies inside rows x cols, through loading, *)
(* trimming from both ends and the growth that reading causes; a sheet     *)
(* never has rows without columns or the reverse.                          *)
InBounds ==
  /\ \A x \in Pos : cells[x] # Absent => x[1] < rows /\ x[2] < cols
  /\ rows = 0 <=> cols = 0

Content == {<<x, cells[x]>> : x \in {y \in Pos : ~Empty(y)}}

(* Trimming and reading never lose, move or invent a text.                 *)
ContentKept == [][phase # "load" => Content' = Content]_gridVars

(* After the trim the sheet is the smallest one that holds all its texts.  *)
Tight ==
  \/ rows = 0 /\ \A x \in Pos : Empty(x)
  \/ /\ \E x \in Pos : x[1] = rows - 1 /\ ~Empty(x)
     /\ \E x \in Pos : x[2] = cols - 1 /\ ~Empty(x)
TrimmedTight == [][phase = "trimcols" /\ phase' = "read" => Tight']_gridVars

(* Reading the columns of the INI file in order never runs into "Cell Not  *)
(* Found", also when the sheet has fewer columns than the INI file lists.  *)
NoCellMissing == ~missing

(* Trimming and reading come to an end.                                    *)
UseEnds == phase # "load" ~> phase = "done"
=============================================================================
