----------------------------- MODULE Conversion -----------------------------
(***************************************************************************)
(* One run of excel2xoonips: main(), proc_main() and proc_sheet() of       *)
(* main.c, with the control of template_assign() and tmpl_file_get(), the  *)
(* temporary directory of tempdir.c and the two uses of minizip_create().  *)
(*                                                                         *)
(* A workbook is a sequence of sheets, a sheet its configuration files and *)
(* its data rows, a row its cells, a cell what its reader makes of it:     *)
(* rejected, or accepted with the file paths it lists (none for a value).  *)
(* The texts themselves matter to no property here.                        *)
(***************************************************************************)
EXTENDS Integers, Sequences, FiniteSets

CONSTANTS
  Workbooks,  \* the workbooks the program may be started on
  Modes,      \* the option combinations: records [compat, index]
  FaultSets   \* sets of faults, one of which the environment may make in a run

(* What the program finds under a path: a file; a URL; nothing, or what    *)
(* its owner may not read; what passes for a readable file, which is all   *)
(* that lstat() says, but cannot be opened (a directory, a dangling link,  *)
(* somebody else's file), or opened but not read (a link to a directory);  *)
(* or its name cannot be converted to the coding of file names.            *)
PathKind  == {"local", "remote", "missing", "unopenable", "unreadable", "unconvertible"}
CellType  == [ok : BOOLEAN, paths : Seq(PathKind)]
SheetType == [template : BOOLEAN, ini : BOOLEAN, rows : Seq(Seq(CellType))]

(* "read": the workbook cannot be read; "tempdir", "mkdir", "open": the    *)
(* directory or file cannot be created; "zipopen": zipOpen returns NULL;   *)
(* "zipio": zip.c reports any other error; "list": a directory cannot be   *)
(* listed, to pack or to remove what is in it.                             *)
FaultKinds == {"read", "tempdir", "mkdir", "open", "zipopen", "zipio", "list"}

ASSUME WorkbooksAssumption == Workbooks \subseteq Seq(SheetType)
ASSUME ModesAssumption     == Modes \subseteq [compat : BOOLEAN, index : BOOLEAN]
ASSUME FaultSetsAssumption == FaultSets \subseteq SUBSET FaultKinds

VARIABLES
  mode,         \* is_compat and is_index
  book,         \* the workbook cexcel_read_file returned
  faults,       \* what may go wrong in this run
  pc,           \* where control is
  s, r, c, p,   \* sheet, row, cell and path the loops have reached
  item_id, files_count, err,
  count,        \* item_id when the current sheet was started
  rowdir,       \* numbers of the file directories made for the current row
  temp,         \* the temporary directory: "none", "present" or "gone"
  tmp,          \* what it holds
  out,          \* the import file and, when complete, what it holds
  reported,     \* items an error line was printed for
  status        \* how the process ended, "running" until then

loops   == <<s, r, c, p>>
counts  == <<item_id, files_count, count>>
vars == <<mode, book, faults, pc, loops, counts, err, rowdir, temp, tmp, out,
          reported, status>>

Empty == [zips |-> {}, xmls |-> {}, attached |-> {}, index |-> {}, left |-> {}]

Rows(k)  == book[k].rows
Row      == Rows(s)[r]
TheCell  == Row[c]
FirstId  == 1

FirstFileId == 1

Init ==
  /\ mode \in Modes /\ book \in Workbooks /\ faults \in FaultSets
  /\ pc = "start"
  /\ s = 1 /\ r = 1 /\ c = 1 /\ p = 1
  /\ item_id = FirstId /\ count = FirstId /\ files_count = FirstFileId
  /\ err = -1
  /\ rowdir = {} /\ temp = "none" /\ tmp = Empty
  /\ out = [state |-> "none", has |-> Empty]
  /\ reported = {} /\ status = "running"

-----------------------------------------------------------------------------
(* error_internal(): a message and exit(1) from wherever control is.  The  *)
(* temporary directory stays as it is.                                     *)
ErrorInternal == pc' = "done" /\ status' = "abort"

End(how) == pc' = "done" /\ status' = how

(* main() before proc_main().                                              *)
RefuseIndexOption ==
  /\ pc = "start" /\ mode.index /\ ~mode.compat
  /\ End("ok")
  /\ UNCHANGED <<mode, book, faults, loops, counts, err, rowdir, temp, tmp, out, reported>>

Accepted == pc = "start" /\ (mode.index => mode.compat)

NoReadableSheet ==
  /\ Accepted /\ (book = <<>> \/ "read" \in faults)
  /\ End("fail")
  /\ UNCHANGED <<mode, book, faults, loops, counts, err, rowdir, temp, tmp, out, reported>>

MakeTempdir ==
  /\ Accepted /\ book # <<>>
  /\ temp' = "present" /\ pc' = "sheets"
  /\ UNCHANGED <<mode, book, faults, loops, counts, err, rowdir, tmp, out, reported, status>>

(* bsd_mkdtemp() fails, or the "/files" directory of compat34 cannot be    *)
(* made in the directory that has just been created.                       *)
MakeTempdirFails ==
  /\ Accepted /\ book # <<>>
  /\ \/ "tempdir" \in faults /\ temp' = "none"
     \/ "mkdir" \in faults /\ mode.compat /\ temp' = "present"
  /\ ErrorInternal
  /\ UNCHANGED <<mode, book, faults, loops, counts, err, rowdir, tmp, out, reported>>

-----------------------------------------------------------------------------
(* proc_sheet() up to its loop over the rows.                              *)
ConfigFound == book[s].template /\ book[s].ini

OpenSheet ==
  /\ pc = "sheets" /\ s <= Len(book) /\ ConfigFound
  /\ count' = item_id /\ r' = 1 /\ err' = 0
  /\ pc' = "rows"
  /\ UNCHANGED <<mode, book, faults, s, c, p, item_id, files_count, rowdir, temp, tmp,
                 out, reported, status>>

ConfigMissing ==
  /\ pc = "sheets" /\ s <= Len(book) /\ ~ConfigFound
  /\ err' = -1 /\ pc' = "pack"
  /\ UNCHANGED <<mode, book, faults, loops, counts, rowdir, temp, tmp, out, reported, status>>

AllSheetsDone ==
  /\ pc = "sheets" /\ s > Len(book)
  /\ pc' = "pack"
  /\ UNCHANGED <<mode, book, faults, loops, counts, err, rowdir, temp, tmp, out, reported, status>>

(* The row's own directory, in which mkdir() must not find an older one.   *)
RowDirTaken == ~mode.compat /\ item_id \in tmp.left

BeginRow ==
  /\ pc = "rows" /\ r <= Len(Rows(s)) /\ ~RowDirTaken
  /\ rowdir' = {} /\ c' = 1 /\ p' = 1
  /\ pc' = "cells"
  /\ UNCHANGED <<mode, book, faults, s, r, counts, err, temp, tmp, out, reported, status>>

BeginRowFails ==
  /\ pc = "rows" /\ r <= Len(Rows(s)) /\ ~mode.compat
  /\ RowDirTaken \/ "mkdir" \in faults
  /\ ErrorInternal
  /\ UNCHANGED <<mode, book, faults, loops, counts, err, rowdir, temp, tmp, out, reported>>

AllRowsDone ==
  /\ pc = "rows" /\ r > Len(Rows(s))
  /\ pc' = "endsheet"
  /\ UNCHANGED <<mode, book, faults, loops, counts, err, rowdir, temp, tmp, out, reported, status>>

-----------------------------------------------------------------------------
(* template_assign(): one cell after the other, then the XML file.         *)
AtCell == pc = "cells" /\ c <= Len(Row)
AtPath == AtCell /\ TheCell.ok /\ p <= Len(TheCell.paths)
Path   == TheCell.paths[p]

(* Which paths tmpl_file_get() turns down: what sl4_file_is_readable()     *)
(* does not find, or not readable; for 3.4 a URL, which it takes for a     *)
(* local name, and any second line of the cell.                            *)
PathRejected ==
  \/ Path = "missing"
  \/ mode.compat /\ (Path = "remote" \/ p > 1)

\* Mutant: the row is given up but no failure is noted.
RejectCellSilently ==
  /\ AtCell
  /\ ~TheCell.ok \/ (AtPath /\ PathRejected)
  /\ pc' = "endsheet"
  /\ UNCHANGED <<mode, book, faults, loops, counts, err, rowdir, temp, tmp, out, reported, status>>
RejectCell ==
  /\ AtCell
  /\ ~TheCell.ok \/ (AtPath /\ PathRejected)
  /\ err' = -1 /\ pc' = "endsheet"
  /\ UNCHANGED <<mode, book, faults, loops, counts, rowdir, temp, tmp, out, reported, status>>

\* Mutant: the last path of a cell is never looked at.
PathsDoneEarly == p >= Len(TheCell.paths)
PathsDone      == p > Len(TheCell.paths)

\* Mutant: a cell without a file is read again and again.
NextCellWithFile == IF TheCell.paths = <<>> THEN c ELSE c + 1
NextCell         == c + 1

AcceptCell ==
  /\ AtCell /\ TheCell.ok /\ PathsDone
  /\ c' = NextCell /\ p' = 1
  /\ UNCHANGED <<mode, book, faults, pc, s, r, counts, err, rowdir, temp, tmp, out,
                 reported, status>>

\* Mutants: file numbers start anew with every row; they are not moved on.
FileIdInRow ==
  IF c = Len(Row) /\ p = Len(TheCell.paths) THEN FirstFileId ELSE files_count + 1
FileIdStuck == files_count
NextFileId  == files_count + 1
FileDirTaken == files_count \in rowdir

(* cexcel_iconv_convert() fails on the path, of a URL as well.             *)
PathUnconvertible ==
  /\ AtPath /\ ~PathRejected /\ Path = "unconvertible"
  /\ ErrorInternal
  /\ UNCHANGED <<mode, book, faults, loops, counts, err, rowdir, temp, tmp, out, reported>>

(* XooNIps 4: <id of the file>/<name> in the row's directory.              *)
TakeLocalFile ==
  /\ AtPath /\ ~PathRejected /\ ~mode.compat /\ Path = "local"
  /\ ~FileDirTaken
  /\ rowdir' = rowdir \cup {files_count}
  /\ files_count' = NextFileId /\ p' = p + 1
  /\ UNCHANGED <<mode, book, faults, pc, s, r, c, item_id, count, err, temp, tmp, out,
                 reported, status>>

TakeLocalFileFails ==
  /\ AtPath /\ ~PathRejected /\ ~mode.compat
  /\ Path \in {"local", "unopenable", "unreadable"}
  /\ FileDirTaken \/ Path = "unopenable" \/ faults \cap {"mkdir", "open"} # {}
  /\ ErrorInternal
  /\ UNCHANGED <<mode, book, faults, loops, counts, err, rowdir, temp, tmp, out, reported>>

(* A URL is only mentioned, but uses up a file id.                         *)
TakeRemoteFile ==
  /\ AtPath /\ ~PathRejected /\ Path = "remote"
  /\ files_count' = NextFileId /\ p' = p + 1
  /\ UNCHANGED <<mode, book, faults, pc, s, r, c, item_id, count, err, rowdir, temp,
                 tmp, out, reported, status>>

(* XooNIps 3.4: files/<sheet>_<address>.  The copy is made only once the   *)
(* whole cell has been read, hence not for a cell of several lines.        *)
AttachFile ==
  /\ AtPath /\ ~PathRejected /\ mode.compat /\ Path # "unconvertible"
  /\ Len(TheCell.paths) = 1 => Path = "local"
  /\ tmp' = IF Len(TheCell.paths) > 1 THEN tmp
            ELSE [tmp EXCEPT !.attached = @ \cup {<<s, r, c>>}]
  /\ p' = p + 1
  /\ UNCHANGED <<mode, book, faults, pc, s, r, c, counts, err, rowdir, temp, out,
                 reported, status>>

AttachFileFails ==
  /\ AtPath /\ ~PathRejected /\ mode.compat /\ Len(TheCell.paths) = 1
  /\ Path = "unopenable" \/ "open" \in faults
  /\ ErrorInternal
  /\ UNCHANGED <<mode, book, faults, loops, counts, err, rowdir, temp, tmp, out, reported>>

(* tempdir_copyfile() reads until the end of the file is told, which it    *)
(* never is when every read fails.  What it has made in the temporary      *)
(* directory by then is not looked at any more.                            *)
CopyNeverEnds ==
  /\ AtPath /\ ~PathRejected /\ Path = "unreadable"
  /\ IF mode.compat THEN Len(TheCell.paths) = 1 ELSE ~FileDirTaken
  /\ pc' = "copying"
  /\ UNCHANGED <<mode, book, faults, loops, counts, err, rowdir, temp, tmp, out, reported, status>>

\* Mutant: items are numbered within their sheet.
ItemIdInSheet == r + 1
NextItemId    == item_id + 1

WriteXml ==
  /\ pc = "cells" /\ c > Len(Row)
  /\ \/ /\ ~mode.compat
        /\ pc' = "zip"
        /\ UNCHANGED <<tmp, item_id, r>>
     \/ /\ mode.compat
        /\ tmp' = [tmp EXCEPT !.xmls = @ \cup {item_id}]
        /\ item_id' = NextItemId /\ r' = r + 1 /\ pc' = "rows"
  /\ UNCHANGED <<mode, book, faults, s, c, p, count, files_count, err, rowdir, temp,
                 out, reported, status>>

WriteXmlFails ==
  /\ pc = "cells" /\ c > Len(Row) /\ "open" \in faults
  /\ ErrorInternal
  /\ UNCHANGED <<mode, book, faults, loops, counts, err, rowdir, temp, tmp, out, reported>>

-----------------------------------------------------------------------------
(* XooNIps 4: <item_id>.zip, then the row's directory is removed whatever  *)
(* the result was.  A failure is printed and stays in err until the next   *)
(* row overwrites it.                                                      *)
ZipRow ==
  /\ pc = "zip"
  /\ tmp' = [tmp EXCEPT !.zips = @ \cup {[id |-> item_id, files |-> rowdir]}]
  /\ err' = 0 /\ pc' = "clean"
  /\ UNCHANGED <<mode, book, faults, loops, counts, rowdir, temp, out, reported, status>>

ZipRowFails ==
  /\ pc = "zip" /\ "zipopen" \in faults
  /\ reported' = reported \cup {item_id}
  /\ err' = -1 /\ pc' = "clean"
  /\ UNCHANGED <<mode, book, faults, loops, counts, rowdir, temp, tmp, out, status>>

ZipRowAborts ==
  /\ pc = "zip" /\ faults \cap {"zipio", "list"} # {}
  /\ ErrorInternal
  /\ UNCHANGED <<mode, book, faults, loops, counts, err, rowdir, temp, tmp, out, reported>>

RowDirKept    == [tmp EXCEPT !.left = @ \cup {item_id}]
RowDirRemoved == {tmp} \cup (IF "list" \in faults THEN {RowDirKept} ELSE {})

EndRow ==
  /\ pc = "clean"
  /\ tmp' \in RowDirRemoved
  /\ item_id' = NextItemId /\ r' = r + 1 /\ pc' = "rows"
  /\ UNCHANGED <<mode, book, faults, s, c, p, files_count, count, err, rowdir, temp,
                 out, reported, status>>

-----------------------------------------------------------------------------
(* The end of proc_sheet(): with -i, template_merge_rowset() turns the XML *)
(* files of the sheet's rows into index.xml, also after a rejected row.    *)
RowXmls == count .. (item_id - 1)

MergeRowset ==
  IF mode.index THEN [tmp EXCEPT !.xmls = @ \ RowXmls, !.index = {RowXmls}]
                ELSE tmp

EndSheet ==
  /\ pc = "endsheet"
  /\ mode.index => RowXmls \subseteq tmp.xmls
  /\ tmp' = MergeRowset
  /\ \/ err = 0 /\ s' = s + 1 /\ pc' = "sheets"
     \/ err # 0 /\ s' = s /\ pc' = "pack"
  /\ UNCHANGED <<mode, book, faults, r, c, p, counts, err, rowdir, temp, out, reported, status>>

EndSheetFails ==
  /\ pc = "endsheet" /\ mode.index
  /\ ~(RowXmls \subseteq tmp.xmls) \/ "open" \in faults
  /\ ErrorInternal
  /\ UNCHANGED <<mode, book, faults, loops, counts, err, rowdir, temp, tmp, out, reported>>

-----------------------------------------------------------------------------
(* The end of proc_main(): the import file from whatever the temporary     *)
(* directory holds, unless a sheet failed; then the directory is removed.  *)
SkipPack ==
  /\ pc = "pack" /\ err # 0
  /\ pc' = "cleanup"
  /\ UNCHANGED <<mode, book, faults, loops, counts, err, rowdir, temp, tmp, out, reported, status>>

NothingToPack ==
  /\ pc = "pack" /\ err = 0 /\ tmp = Empty
  /\ err' = -2 /\ pc' = "cleanup"
  /\ UNCHANGED <<mode, book, faults, loops, counts, rowdir, temp, tmp, out, reported, status>>

\* Mutant: packed also after a sheet failed.
PackRegardless ==
  /\ pc = "pack" /\ tmp # Empty
  /\ out' = [state |-> "complete", has |-> tmp]
  /\ pc' = "cleanup"
  /\ UNCHANGED <<mode, book, faults, loops, counts, err, rowdir, temp, tmp, reported, status>>
Pack ==
  /\ pc = "pack" /\ err = 0 /\ tmp # Empty
  /\ out' = [state |-> "complete", has |-> tmp]
  /\ pc' = "cleanup"
  /\ UNCHANGED <<mode, book, faults, loops, counts, err, rowdir, temp, tmp, reported, status>>

PackFails ==
  /\ pc = "pack" /\ err = 0 /\ tmp # Empty /\ "zipopen" \in faults
  /\ err' = -1 /\ pc' = "cleanup"
  /\ UNCHANGED <<mode, book, faults, loops, counts, rowdir, temp, tmp, out, reported, status>>

PackAborts ==
  /\ pc = "pack" /\ err = 0
  /\ \/ "list" \in faults /\ out' = out
     \/ /\ "zipio" \in faults /\ tmp # Empty
        /\ out' = [state |-> "partial", has |-> Empty]
  /\ ErrorInternal
  /\ UNCHANGED <<mode, book, faults, loops, counts, err, rowdir, temp, tmp, reported>>

TempdirAfter == {"gone"} \cup (IF "list" \in faults THEN {"present"} ELSE {})

ExitStatus       == IF err = 0 THEN "ok" ELSE "fail"

Cleanup ==
  /\ pc = "cleanup"
  /\ temp' \in TempdirAfter
  /\ End(ExitStatus)
  /\ UNCHANGED <<mode, book, faults, loops, counts, err, rowdir, tmp, out, reported>>

Terminated == pc \in {"done", "copying"} /\ UNCHANGED vars

Next ==
  \/ RefuseIndexOption \/ NoReadableSheet \/ MakeTempdir \/ MakeTempdirFails
  \/ OpenSheet \/ ConfigMissing \/ AllSheetsDone
  \/ BeginRow \/ BeginRowFails \/ AllRowsDone
  \/ RejectCell \/ AcceptCell \/ PathUnconvertible \/ CopyNeverEnds
  \/ TakeLocalFile \/ TakeLocalFileFails \/ TakeRemoteFile
  \/ AttachFile \/ AttachFileFails
  \/ WriteXml \/ WriteXmlFails
  \/ ZipRow \/ ZipRowFails \/ ZipRowAborts \/ EndRow
  \/ EndSheet \/ EndSheetFails
  \/ SkipPack \/ NothingToPack \/ Pack \/ PackFails \/ PackAborts
  \/ Cleanup \/ Terminated

Spec == Init /\ [][Next]_vars

(* The process runs on a CPU by itself: while it can step, it steps.       *)
FairSpec == Spec /\ WF_vars(Next)

-----------------------------------------------------------------------------
Statuses == {"running", "ok", "fail", "abort"}
PCs == {"start", "sheets", "rows", "cells", "zip", "clean", "endsheet",
        "pack", "cleanup", "done", "copying"}
InSheet == {"rows", "cells", "zip", "clean", "endsheet"}
Contents == [zips : SUBSET [id : Nat, files : SUBSET Nat],
             xmls : SUBSET Nat,
             attached : SUBSET (Nat \X Nat \X Nat),
             index : SUBSET SUBSET Nat,
             left : SUBSET Nat]

(* Every variable keeps to its domain, the loop counters never run past    *)
(* the first index after the data they range over.                         *)
TypeOK ==
  /\ mode \in Modes /\ book \in Workbooks /\ faults \in FaultSets
  /\ pc \in PCs /\ status \in Statuses
  /\ s \in 1 .. Len(book) + 1
  /\ pc \in InSheet => s <= Len(book)
  /\ r \in Nat \ {0} /\ c \in Nat \ {0} /\ p \in Nat \ {0}
  /\ item_id \in Nat \ {0} /\ count \in Nat \ {0} /\ files_count \in Nat \ {0}
  /\ err \in {-2, -1, 0}
  /\ rowdir \in SUBSET Nat
  /\ temp \in {"none", "present", "gone"}
  /\ tmp \in Contents
  /\ out \in [state : {"none", "partial", "complete"}, has : Contents]
  /\ reported \in SUBSET Nat

LocalPaths(row) ==
  UNION {{<<i, q>> : q \in {j \in DOMAIN row[i].paths : row[i].paths[j] = "local"}}
          : i \in DOMAIN row}

(* The rows of the sheets before sheet n, and the place of a row in the    *)
(* whole workbook.                                                         *)
Before(n)    == UNION {{k} \X DOMAIN Rows(k) : k \in 1 .. n - 1}
Number(k, j) == Cardinality(Before(k)) + j
Items        == 1 .. Cardinality(Before(Len(book) + 1))

(* "<{$system.item_id}>: the serial number of the datum among all the data *)
(* of the Excel file, in order": while a sheet is converted, item_id is    *)
(* the position of the current row in the whole workbook, whatever sheets  *)
(* came before and whichever of their rows failed to be archived.          *)
ItemsSerial == pc \in InSheet => item_id = Number(s, r)

(* No two row archives have the same number, and no file number is used in *)
(* two of them: XooNIps looks files up by that number.                     *)
FileIdsUnique ==
  \A y, z \in tmp.zips : y # z => y.id # z.id /\ y.files \cap z.files = {}

(* An archive is that of the row whose number it has, and holds one        *)
(* directory for every readable file this row lists, no file being         *)
(* shadowed by another one of the same number.                             *)
FilesComplete ==
  \A z \in tmp.zips : \E k \in DOMAIN book : \E j \in DOMAIN Rows(k) :
    /\ z.id = Number(k, j)
    /\ Cardinality(z.files) = Cardinality(LocalPaths(Rows(k)[j]))

(* What goes into the XooNIps 4 import file is row archives only: if the   *)
(* directories can be listed, the working directories of the rows are out  *)
(* of the way by then.                                                     *)
OnlyArchivesPublished ==
  out.state = "complete" /\ ~mode.compat /\ "list" \notin faults =>
    out.has.left = {} /\ out.has.xmls = {} /\ out.has.attached = {}

(* The program's own bookkeeping never makes it run into its internal      *)
(* error exit (a directory that exists already, a rowset file that does    *)
(* not): without a fault of the environment it ends there for one reason   *)
(* only, a path that passes the check of tmpl_file.c:166 or comes before   *)
(* it, and whose name cannot be converted or which cannot be opened.       *)
AtBadPath ==
  /\ s \in DOMAIN book /\ r \in DOMAIN Rows(s) /\ c \in DOMAIN Row
  /\ p \in DOMAIN TheCell.paths /\ Path \in {"unopenable", "unconvertible"}
NoSpuriousAbort == faults = {} /\ status = "abort" => AtBadPath

(* The import file and the exit status agree: a run that ends with a       *)
(* failure leaves no complete import file, a run that succeeds leaves one. *)
StatusTellsOutput ==
  /\ out.state = "complete" => err = 0 /\ status \in {"running", "ok"}
  /\ status = "ok" /\ (mode.index => mode.compat) => out.state = "complete"

(* Items an import file accounts for.                                      *)
IdsIn(has) == {z.id : z \in has.zips} \cup has.xmls \cup UNION has.index

(* A complete import file holds every item of the workbook except those an *)
(* error line named, and, for 3.4, every file a converted row refers to.   *)
(* With -i this is promised for workbooks of a single sheet only.          *)
PublishedAccounts ==
  out.state = "complete" /\ (mode.index => Len(book) = 1) =>
    /\ IdsIn(out.has) = Items \ reported
    /\ mode.compat => Cardinality(out.has.attached) =
                        Cardinality(UNION {{<<y, x>> : x \in LocalPaths(Rows(y[1])[y[2]])}
                                            : y \in Before(Len(book) + 1)})

(* A run that returns from main() has removed its temporary directory,     *)
(* unless the directory could not be listed.                               *)
TempReleased ==
  pc = "done" /\ status \in {"ok", "fail"} /\ "list" \notin faults =>
    temp # "present"

(* Every run comes to an end, unless a path is copied that can be opened   *)
(* but not read.                                                           *)
Termination == <>(pc = "done" \/ (pc = "copying" /\ Path = "unreadable"))

(* The run implements ImportContract: the import file appears at once,     *)
(* with every item that was not reported.  An index list has no items.     *)
ContractItems == IF mode.index /\ mode.compat THEN {} ELSE Items
ImportFile == [state |-> out.state,
               ids |-> IF out.state = "complete" THEN IdsIn(out.has) \cap ContractItems ELSE {}]
Contract == INSTANCE ImportContract WITH items <- ContractItems, out <- ImportFile
ImplementsContract == Contract!Spec

-----------------------------------------------------------------------------
(* What the documents say and the code does not keep.                      *)

(* main.c reports "[info] Success to create XooNIps import file" when the  *)
(* import file has been written: every item should then be in it.          *)
SuccessMeansAllItems ==
  out.state = "complete" /\ ~mode.compat => IdsIn(out.has) = Items
=============================================================================
