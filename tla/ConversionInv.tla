--------------------------- MODULE ConversionInv ----------------------------
(***************************************************************************)
(* The inductive invariant of Conversion: what has to be said, besides the *)
(* properties themselves, about the states between the ones they look at.  *)
(***************************************************************************)
EXTENDS Conversion

(* Archives carry the numbers of rows already passed; the row just zipped  *)
(* still is the current one.                                               *)
ItemIdsBelow ==
  \A z \in tmp.zips : z.id < item_id \/ (pc = "clean" /\ z.id = item_id)

(* files_count is greater than every file number given out.                *)
FileIdsBelow ==
  /\ \A z \in tmp.zips : \A n \in z.files : n < files_count
  /\ \A n \in rowdir : n < files_count

(* A row that is not zipped yet has files of its own.                      *)
RowdirApart ==
  pc \in {"cells", "zip"} => \A z \in tmp.zips : z.files \cap rowdir = {}

(* -i is only ever worked on together with -c, archives of rows never are. *)
ModeFits ==
  /\ pc \notin {"start", "done"} => (mode.index => mode.compat)
  /\ pc \in {"zip", "clean"} => ~mode.compat

(* Every row of the sheet that was converted has left its XML file.        *)
RowXmlsWritten ==
  mode.compat /\ pc \in {"rows", "cells", "endsheet"} => RowXmls \subseteq tmp.xmls

(* Where the import file and the exit status stand in each phase.          *)
OutputInPhase ==
  /\ pc # "done" <=> status = "running"
  /\ pc \notin {"cleanup", "done"} => out.state = "none"
  /\ pc = "cleanup" => (out.state = "complete" <=> err = 0)
  /\ pc = "start" => temp = "none"
  /\ out.state = "complete" => out.has = tmp

(* In an XooNIps 4 run nothing but archives and row directories is made,   *)
(* and a row directory stays only if it cannot be listed.                  *)
OnlyArchivesMade ==
  /\ ~mode.compat => tmp.xmls = {} /\ tmp.attached = {}
  /\ "list" \notin faults => tmp.left = {}

IInv ==
  /\ TypeOK
  /\ ItemIdsBelow /\ FileIdsBelow /\ RowdirApart /\ FileIdsUnique
  /\ ModeFits /\ RowXmlsWritten /\ OutputInPhase /\ OnlyArchivesMade
  /\ StatusTellsOutput /\ TempReleased

-----------------------------------------------------------------------------
(* For the numbering: where item_id stands between the sheets, and that an *)
(* error of a sheet that was left in its middle is not forgotten.          *)
NumberedSoFar ==
  /\ IsFiniteSet(Before(s))
  /\ pc = "start" => s = 1
  /\ pc \in {"start", "sheets"} => item_id = Number(s, 1)
  /\ pc \in InSheet => item_id = Number(s, r)
  /\ pc = "rows" => r <= Len(Rows(s)) + 1
  /\ pc \in {"cells", "zip", "clean"} => r <= Len(Rows(s))
  /\ pc = "endsheet" /\ err = 0 => r = Len(Rows(s)) + 1

(* The local files of the current row that have been copied already.       *)
Passed == {x \in LocalPaths(Row) : x[1] < c \/ (x[1] = c /\ x[2] < p)}

CopiedSoFar ==
  /\ pc \in {"cells", "zip"} /\ ~mode.compat =>
       /\ IsFiniteSet(Passed) /\ IsFiniteSet(rowdir)
       /\ Cardinality(rowdir) = Cardinality(Passed)
  /\ pc = "zip" => c > Len(Row)

RowInv == NumberedSoFar /\ CopiedSoFar /\ FilesComplete

(* The number of the last item that has been dealt with.                   *)
LastItem == IF pc = "clean" THEN item_id ELSE item_id - 1

(* Every item dealt with is in the temporary directory or was reported;    *)
(* an import file is made only when all of them have been.                 *)
AccountedSoFar ==
  /\ reported \subseteq 1 .. LastItem
  /\ mode.compat \/ pc = "start" => reported = {}
  /\ ~mode.index => tmp.index = {} /\ IdsIn(tmp) = (1 .. LastItem) \ reported
  /\ pc = "pack" /\ err = 0 => item_id = Number(Len(book) + 1, 1)
  /\ pc = "cleanup" => out.state # "partial"

(* For XooNIps 3.4: the rows converted so far, the files a row refers to   *)
(* as they are called in the temporary directory, and those of the current *)
(* row that are copied, which a cell of several lines never is.            *)
RowsDone == Before(s) \cup (IF pc \in InSheet THEN {s} \X (1 .. r - 1) ELSE {})
RowFiles(y) == LocalPaths(Rows(y[1])[y[2]])
Attached(y) == {<<y[1], y[2], x[1]>> : x \in RowFiles(y)}
FilesDone   == UNION {Attached(y) : y \in RowsDone}
Copied      == {x \in Passed : x[1] < c \/ Len(TheCell.paths) = 1}

(* Every file of a converted row has been copied, each under a name of its *)
(* own, as no cell of such a row has a second line.                        *)
AttachedSoFar ==
  mode.compat /\ (pc \in {"endsheet", "pack"} => err = 0)
              /\ pc \notin {"cleanup", "done", "copying"} =>
    /\ \A y \in RowsDone : \A x \in RowFiles(y) : x[2] = 1
    /\ IsFiniteSet(tmp.attached)
    /\ tmp.attached = FilesDone
                         \cup (IF pc = "cells" THEN {<<s, r, x[1]>> : x \in Copied} ELSE {})
    /\ pc = "cells" => p <= 2 /\ \A i \in 1 .. c - 1 : Len(Row[i].paths) <= 1
    /\ pc = "pack" => s = Len(book) + 1

(* With -i the XML files of the one sheet there is are merged, and nothing *)
(* else is in the temporary directory of XooNIps 3.4 that has an item.     *)
MergedSoFar ==
  /\ mode.compat => tmp.zips = {}
  /\ mode.index /\ s = 1 /\ pc \in {"start", "sheets", "rows", "cells", "endsheet"} =>
       /\ count = 1 /\ tmp.index = {} /\ tmp.xmls = 1 .. item_id - 1
       /\ pc \in {"start", "sheets"} => item_id = 1
  /\ mode.index /\ Len(book) = 1 /\ s = 2 /\ pc \in {"sheets", "pack"} =>
       tmp.index = {1 .. item_id - 1} /\ tmp.xmls = {}

AccountsInv == AttachedSoFar /\ MergedSoFar /\ PublishedAccounts
=============================================================================
