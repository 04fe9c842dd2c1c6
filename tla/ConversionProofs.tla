-------------------------- MODULE ConversionProofs --------------------------
(***************************************************************************)
(* For every workbook, every choice of options and every set of faults:    *)
(* Conversion keeps its types, its inductive invariant and with it the     *)
(* properties that tell the import file, the exit status, the numbers of   *)
(* items and files and the temporary directory apart from what they must   *)
(* not be; items are numbered serially over all sheets; and an archive     *)
(* holds every local file of the row whose number it has.  A run keeps the *)
(* contract with the user: Conversion implements ImportContract, and an    *)
(* import file that was closed without an error holds every item that was  *)
(* not reported, with all its files.  The argument is induction over the   *)
(* steps of the program, one case per action of Next.                      *)
(***************************************************************************)
EXTENDS ConversionInv, FiniteSetTheorems, FunctionTheorems, TLAPS

(* The program starts in a state of the right types.                       *)
LEMMA TypeInit == Init => TypeOK
  BY DEF Init, TypeOK, Contents, PCs, InSheet, Statuses, Empty, FirstId, FirstFileId

(* The temporary directory and the import file start with nothing in them. *)
LEMMA NoArchive == Empty \in Contents
  BY DEF Empty, Contents

(* Every step keeps every variable in its domain.                          *)
LEMMA TypeStep == TypeOK /\ [Next]_vars => TypeOK'
<1> SUFFICES ASSUME TypeOK, [Next]_vars PROVE TypeOK'
  OBVIOUS
<1> USE DEF TypeOK, PCs, InSheet, Statuses, loops, counts
<1>1. CASE RefuseIndexOption
  BY <1>1 DEF RefuseIndexOption, End
<1>2. CASE NoReadableSheet
  BY <1>2 DEF NoReadableSheet, End
<1>3. CASE MakeTempdir
  BY <1>3 DEF MakeTempdir
<1>4. CASE MakeTempdirFails
  BY <1>4 DEF MakeTempdirFails, ErrorInternal
<1>5. CASE OpenSheet
  BY <1>5 DEF OpenSheet
<1>6. CASE ConfigMissing
  BY <1>6 DEF ConfigMissing
<1>7. CASE AllSheetsDone
  BY <1>7 DEF AllSheetsDone
<1>8. CASE BeginRow
  BY <1>8 DEF BeginRow
<1>9. CASE BeginRowFails
  BY <1>9 DEF BeginRowFails, ErrorInternal
<1>10. CASE AllRowsDone
  BY <1>10 DEF AllRowsDone
<1>11. CASE RejectCell
  BY <1>11 DEF RejectCell, AtPath, AtCell
<1>12. CASE AcceptCell
  BY <1>12 DEF AcceptCell, NextCell
<1>13. CASE TakeLocalFile
  BY <1>13 DEF TakeLocalFile, NextFileId
<1>14. CASE TakeLocalFileFails
  BY <1>14 DEF TakeLocalFileFails, ErrorInternal
<1>15. CASE TakeRemoteFile
  BY <1>15 DEF TakeRemoteFile, NextFileId
<1>16. CASE AttachFile
  <2>1. <<s, r, c>> \in Nat \X Nat \X Nat
    OBVIOUS
  <2>2. tmp' \in Contents
    BY <1>16, <2>1 DEF AttachFile, Contents
  <2> QED
    BY <1>16, <2>2 DEF AttachFile
<1>17. CASE AttachFileFails
  BY <1>17 DEF AttachFileFails, ErrorInternal
<1>18. CASE WriteXml
  <2>1. [tmp EXCEPT !.xmls = @ \cup {item_id}] \in Contents
    BY SMTT(30) DEF Contents
  <2>2. tmp' \in Contents
    BY <1>18, <2>1 DEF WriteXml
  <2> QED
    BY <1>18, <2>2, SMTT(30) DEF WriteXml, NextItemId
<1>19. CASE WriteXmlFails
  BY <1>19 DEF WriteXmlFails, ErrorInternal
<1>20. CASE ZipRow
  <2>1. [id |-> item_id, files |-> rowdir] \in [id : Nat, files : SUBSET Nat]
    OBVIOUS
  <2>2. tmp' \in Contents
    BY <1>20, <2>1 DEF ZipRow, Contents
  <2> QED
    BY <1>20, <2>2 DEF ZipRow
<1>21. CASE ZipRowFails
  BY <1>21 DEF ZipRowFails
<1>22. CASE ZipRowAborts
  BY <1>22 DEF ZipRowAborts, ErrorInternal
<1>23. CASE EndRow
  <2>1. RowDirKept \in Contents
    BY DEF RowDirKept, Contents
  <2>2. tmp' \in Contents
    BY <1>23, <2>1 DEF EndRow, RowDirRemoved
  <2> QED
    BY <1>23, <2>2 DEF EndRow, NextItemId
<1>24. CASE EndSheet
  <2>1. RowXmls \in SUBSET Nat
    BY DEF RowXmls
  <2>2. tmp' \in Contents
    BY <1>24, <2>1 DEF EndSheet, MergeRowset, Contents
  <2> QED
    BY <1>24, <2>2 DEF EndSheet
<1>25. CASE EndSheetFails
  BY <1>25 DEF EndSheetFails, ErrorInternal
<1>26. CASE SkipPack
  BY <1>26 DEF SkipPack
<1>27. CASE NothingToPack
  BY <1>27 DEF NothingToPack
<1>28. CASE Pack
  BY <1>28 DEF Pack
<1>29. CASE PackFails
  BY <1>29 DEF PackFails
<1>30. CASE PackAborts
  BY <1>30, NoArchive DEF PackAborts, ErrorInternal
<1>31. CASE Cleanup
  BY <1>31 DEF Cleanup, End, ExitStatus, TempdirAfter
<1>32. CASE Terminated
  BY <1>32 DEF Terminated, vars
<1>33. CASE UNCHANGED vars
  BY <1>33 DEF vars
<1>34. CASE PathUnconvertible
  BY <1>34 DEF PathUnconvertible, ErrorInternal
<1>35. CASE CopyNeverEnds
  BY <1>35 DEF CopyNeverEnds
<1> QED
  BY <1>1, <1>2, <1>3, <1>4, <1>5, <1>6, <1>7, <1>8, <1>9, <1>10, <1>11,
     <1>12, <1>13, <1>14, <1>15, <1>16, <1>17, <1>18, <1>19, <1>20, <1>21,
     <1>22, <1>23, <1>24, <1>25, <1>26, <1>27, <1>28, <1>29, <1>30, <1>31,
     <1>32, <1>33, <1>34, <1>35
  DEF Next

(* The type invariant: counters stay positive naturals, err is one of the  *)
(* three codes, the temporary directory and the import file hold what they *)
(* may hold.                                                               *)
THEOREM TypeCorrect == Spec => []TypeOK
  BY TypeInit, TypeStep, PTL DEF Spec

-----------------------------------------------------------------------------
(* Nothing has been numbered, written or reported when the program starts. *)
LEMMA InvInit == Init => IInv
<1> SUFFICES ASSUME Init PROVE IInv
  OBVIOUS
<1>1. TypeOK
  BY TypeInit
<1>2. /\ tmp.zips = {} /\ tmp.xmls = {} /\ tmp.attached = {} /\ tmp.left = {}
      /\ rowdir = {} /\ pc = "start" /\ status = "running"
      /\ temp = "none" /\ out.state = "none"
  BY DEF Init, Empty
<1> QED
  BY <1>1, <1>2
  DEF IInv, ItemIdsBelow, FileIdsBelow, RowdirApart, FileIdsUnique, ModeFits,
      RowXmlsWritten, OutputInPhase, OnlyArchivesMade, StatusTellsOutput,
      TempReleased

(* Every action preserves the invariant.  The steps that matter: zipping a *)
(* row moves its file numbers into an archive (they were apart from all    *)
(* others, and the next row starts with none), finishing a row moves the   *)
(* item number on, writing an XML file extends the set index.xml needs.    *)
LEMMA InvStep == IInv /\ TypeOK' /\ Next => IInv'
<1> SUFFICES ASSUME IInv, TypeOK', Next PROVE IInv'
  OBVIOUS
<1> USE DEF IInv, ItemIdsBelow, FileIdsBelow, RowdirApart, FileIdsUnique,
        ModeFits, RowXmlsWritten, OutputInPhase, OnlyArchivesMade,
        StatusTellsOutput, TempReleased,
        TypeOK, Contents, loops, counts, RowXmls
<1>1. CASE RefuseIndexOption
  BY <1>1 DEF RefuseIndexOption, End
<1>2. CASE NoReadableSheet
  BY <1>2 DEF NoReadableSheet, End, Accepted
<1>3. CASE MakeTempdir
  BY <1>3 DEF MakeTempdir, Accepted
<1>4. CASE MakeTempdirFails
  BY <1>4 DEF MakeTempdirFails, ErrorInternal, Accepted
<1>5. CASE OpenSheet
  <2> USE <1>5 DEF OpenSheet
  <2>1. RowXmlsWritten'
    OBVIOUS
  <2>2. /\ ItemIdsBelow' /\ FileIdsBelow' /\ RowdirApart' /\ FileIdsUnique'
       /\ ModeFits' /\ OutputInPhase' /\ OnlyArchivesMade'
       /\ StatusTellsOutput' /\ TempReleased'
    OBVIOUS
  <2> QED
    BY <2>1, <2>2
<1>6. CASE ConfigMissing
  BY <1>6 DEF ConfigMissing
<1>7. CASE AllSheetsDone
  BY <1>7 DEF AllSheetsDone
<1>8. CASE BeginRow
  BY <1>8 DEF BeginRow
<1>9. CASE BeginRowFails
  BY <1>9 DEF BeginRowFails, ErrorInternal, RowDirTaken
<1>10. CASE AllRowsDone
  BY <1>10 DEF AllRowsDone
<1>11. CASE RejectCell
  BY <1>11 DEF RejectCell, AtPath, AtCell
<1>12. CASE AcceptCell
  BY <1>12 DEF AcceptCell, AtPath, AtCell
<1>13. CASE TakeLocalFile
  <2> USE <1>13 DEF TakeLocalFile, NextFileId, AtPath, AtCell
  <2>1. FileIdsBelow'
    OBVIOUS
  <2>2. RowdirApart'
    OBVIOUS
  <2>3. /\ ItemIdsBelow' /\ FileIdsUnique' /\ ModeFits' /\ RowXmlsWritten'
       /\ OutputInPhase' /\ OnlyArchivesMade' /\ StatusTellsOutput'
       /\ TempReleased'
    OBVIOUS
  <2> QED
    BY <2>1, <2>2, <2>3
<1>14. CASE TakeLocalFileFails
  BY <1>14 DEF TakeLocalFileFails, ErrorInternal, AtPath, AtCell
<1>15. CASE TakeRemoteFile
  <2> USE <1>15 DEF TakeRemoteFile, NextFileId, AtPath, AtCell
  <2>1. FileIdsBelow'
    OBVIOUS
  <2>2. RowdirApart'
    OBVIOUS
  <2>3. /\ ItemIdsBelow' /\ FileIdsUnique' /\ ModeFits' /\ RowXmlsWritten'
       /\ OutputInPhase' /\ OnlyArchivesMade' /\ StatusTellsOutput'
       /\ TempReleased'
    OBVIOUS
  <2> QED
    BY <2>1, <2>2, <2>3
<1>16. CASE AttachFile
  BY <1>16 DEF AttachFile, AtPath, AtCell
<1>17. CASE AttachFileFails
  BY <1>17 DEF AttachFileFails, ErrorInternal, AtPath, AtCell
<1>18. CASE WriteXml
  <2> USE <1>18 DEF WriteXml, NextItemId
  <2>1. ItemIdsBelow'
    BY SMTT(30)
  <2>2. RowXmlsWritten'
    BY SMTT(30)
  <2>3. OnlyArchivesMade'
    OBVIOUS
  <2>4. /\ FileIdsBelow' /\ RowdirApart' /\ FileIdsUnique' /\ ModeFits'
       /\ OutputInPhase' /\ StatusTellsOutput' /\ TempReleased'
    OBVIOUS
  <2> QED
    BY <2>1, <2>2, <2>3, <2>4
<1>19. CASE WriteXmlFails
  BY <1>19 DEF WriteXmlFails, ErrorInternal
<1>20. CASE ZipRow
  <2> USE <1>20 DEF ZipRow
  <2>1. ItemIdsBelow'
    OBVIOUS
  <2>2. FileIdsBelow'
    OBVIOUS
  <2>3. RowdirApart'
    OBVIOUS
  <2>4. FileIdsUnique'
    OBVIOUS
  <2>5. /\ ModeFits' /\ RowXmlsWritten' /\ OutputInPhase'
       /\ OnlyArchivesMade' /\ StatusTellsOutput' /\ TempReleased'
    OBVIOUS
  <2> QED
    BY <2>1, <2>2, <2>3, <2>4, <2>5
<1>21. CASE ZipRowFails
  BY <1>21 DEF ZipRowFails
<1>22. CASE ZipRowAborts
  BY <1>22 DEF ZipRowAborts, ErrorInternal
<1>23. CASE EndRow
  <2>1. tmp'.zips = tmp.zips /\ item_id' = item_id + 1 /\ pc = "clean"
    BY <1>23 DEF EndRow, NextItemId, RowDirRemoved, RowDirKept
  <2>2. ItemIdsBelow'
    BY <2>1, SMTT(30)
  <2>3. OnlyArchivesMade'
    BY <1>23 DEF EndRow, RowDirRemoved, RowDirKept
  <2>4. /\ FileIdsBelow' /\ RowdirApart' /\ FileIdsUnique' /\ ModeFits'
       /\ RowXmlsWritten' /\ OutputInPhase' /\ StatusTellsOutput'
       /\ TempReleased'
    BY <1>23, <2>1 DEF EndRow
  <2> QED
    BY <2>2, <2>3, <2>4
<1>24. CASE EndSheet
  BY <1>24 DEF EndSheet, MergeRowset
<1>25. CASE EndSheetFails
  BY <1>25 DEF EndSheetFails, ErrorInternal
<1>26. CASE SkipPack
  BY <1>26 DEF SkipPack
<1>27. CASE NothingToPack
  BY <1>27 DEF NothingToPack
<1>28. CASE Pack
  BY <1>28 DEF Pack
<1>29. CASE PackFails
  BY <1>29, SMTT(30) DEF PackFails
<1>30. CASE PackAborts
  BY <1>30, SMTT(30) DEF PackAborts, ErrorInternal, Empty
<1>31. CASE Cleanup
  BY <1>31 DEF Cleanup, End, ExitStatus, TempdirAfter
<1>32. CASE Terminated
  BY <1>32 DEF Terminated, vars
<1>33. CASE PathUnconvertible
  BY <1>33 DEF PathUnconvertible, ErrorInternal, AtPath, AtCell
<1>34. CASE CopyNeverEnds
  BY <1>34 DEF CopyNeverEnds, AtPath, AtCell
<1> QED
  BY <1>1, <1>2, <1>3, <1>4, <1>5, <1>6, <1>7, <1>8, <1>9, <1>10, <1>11,
     <1>12, <1>13, <1>14, <1>15, <1>16, <1>17, <1>18, <1>19, <1>20, <1>21,
     <1>22, <1>23, <1>24, <1>25, <1>26, <1>27, <1>28, <1>29, <1>30, <1>31,
     <1>32, <1>33, <1>34
  DEF Next

(* The inductive invariant holds in every reachable state.                 *)
THEOREM Invariance == Spec => []IInv
<1>1. ASSUME IInv, UNCHANGED vars PROVE IInv'
  <2>1. TypeOK'
    BY <1>1, TypeStep DEF IInv
  <2>2. /\ ItemIdsBelow' /\ FileIdsBelow' /\ RowdirApart' /\ FileIdsUnique'
       /\ ModeFits' /\ RowXmlsWritten' /\ OutputInPhase'
       /\ OnlyArchivesMade' /\ StatusTellsOutput' /\ TempReleased'
    BY <1>1
    DEF IInv, ItemIdsBelow, FileIdsBelow, RowdirApart, FileIdsUnique,
        ModeFits, RowXmlsWritten, RowXmls, OutputInPhase, OnlyArchivesMade,
        StatusTellsOutput, TempReleased, vars, loops, counts
  <2> QED
    BY <2>1, <2>2 DEF IInv
<1>2. IInv /\ [Next]_vars => IInv'
  BY <1>1, InvStep, TypeStep DEF IInv
<1> QED
  BY InvInit, <1>2, PTL DEF Spec

-----------------------------------------------------------------------------
(* No two row archives share an item number or a file number, however many *)
(* sheets, rows and files there are and whatever fails (files_count is not *)
(* reset between rows; see template_assign() and proc_sheet()).            *)
THEOREM FileNumbersUnique == Spec => []FileIdsUnique
<1>1. IInv => FileIdsUnique
  BY DEF IInv
<1> QED
  BY Invariance, <1>1, PTL

(* The exit status says whether the import file is there: no partial or    *)
(* missing file behind a success, no complete file behind a failure.       *)
THEOREM StatusHonest == Spec => []StatusTellsOutput
<1>1. IInv => StatusTellsOutput
  BY DEF IInv
<1> QED
  BY Invariance, <1>1, PTL

(* A run that comes back from proc_main() has removed its temporary        *)
(* directory, unless a directory could not be listed.                      *)
THEOREM TempdirRemoved == Spec => []TempReleased
<1>1. IInv => TempReleased
  BY DEF IInv
<1> QED
  BY Invariance, <1>1, PTL

(* If directories can be listed, an XooNIps 4 import file holds row        *)
(* archives and nothing that was used to make them.                        *)
THEOREM ImportFileClean == Spec => []OnlyArchivesPublished
<1>1. IInv => OnlyArchivesPublished
  BY DEF IInv, OutputInPhase, OnlyArchivesMade, OnlyArchivesPublished
<1> QED
  BY Invariance, <1>1, PTL

-----------------------------------------------------------------------------
(* Numbers and contents of archives.                                       *)

(* A workbook is a sequence of sheets, these are sequences of rows, and    *)
(* these of cells with their paths.                                        *)
LEMMA BookTyped ==
  ASSUME TypeOK, NEW k \in DOMAIN book
  PROVE  /\ Rows(k) \in Seq(Seq(CellType)) /\ DOMAIN Rows(k) = 1 .. Len(Rows(k))
         /\ Len(Rows(k)) \in Nat /\ DOMAIN book = 1 .. Len(book) /\ Len(book) \in Nat
<1>1. book \in Seq(SheetType)
  BY WorkbooksAssumption DEF TypeOK
<1>2. book[k] \in SheetType
  BY <1>1
<1> QED
  BY <1>1, <1>2 DEF SheetType, Rows

(* With a sheet its rows are behind one.                                   *)
LEMMA OneSheetOn ==
  ASSUME TypeOK, s <= Len(book), IsFiniteSet(Before(s))
  PROVE  /\ IsFiniteSet(Before(s + 1)) /\ Cardinality(Before(s)) \in Nat
         /\ Cardinality(Before(s + 1)) = Cardinality(Before(s)) + Len(Rows(s))
<1> DEFINE new == {s} \X DOMAIN Rows(s)
<1>1. book \in Seq(SheetType) /\ s \in 1 .. Len(book) /\ s \in DOMAIN book
  BY WorkbooksAssumption DEF TypeOK
<1>2. DOMAIN Rows(s) = 1 .. Len(Rows(s)) /\ Len(Rows(s)) \in Nat
  BY <1>1, BookTyped
<1>3. 1 .. (s + 1) - 1 = (1 .. s - 1) \cup {s}
  BY <1>1
<1>4. Before(s + 1) = Before(s) \cup new
  BY <1>3 DEF Before
<1>5. IsFiniteSet(DOMAIN Rows(s)) /\ Cardinality(DOMAIN Rows(s)) = Len(Rows(s))
  <2> DEFINE n == Len(Rows(s))
  <2> HIDE DEF n
  <2>1. n \in Nat /\ n \in Int /\ 1 \in Int
    BY <1>2 DEF n
  <2>2. IsFiniteSet(1 .. n) /\ Cardinality(1 .. n) = IF 1 > n THEN 0 ELSE n - 1 + 1
    BY ONLY <2>1, FS_Interval
  <2>3. IsFiniteSet(1 .. n) /\ Cardinality(1 .. n) = n
    BY <2>1, <2>2
  <2> QED
    BY <1>2, <2>3 DEF n
<1>6. IsFiniteSet({s}) /\ Cardinality({s}) = 1
  BY FS_Singleton
<1>7. IsFiniteSet(new) /\ Cardinality(new) = Len(Rows(s))
  <2> DEFINE D == DOMAIN Rows(s)
  <2> HIDE DEF D
  <2>1. IsFiniteSet(D) /\ Cardinality(D) = Len(Rows(s))
    BY <1>5 DEF D
  <2>2. IsFiniteSet({s} \X D) /\ Cardinality({s} \X D) = Cardinality({s}) * Cardinality(D)
    BY <1>6, <2>1, FS_Product
  <2>3. \A n \in Nat : 1 * n = n
    OBVIOUS
  <2>4. Cardinality({s} \X D) = 1 * Len(Rows(s))
    BY <1>6, <2>1, <2>2, Zenon
  <2>5. Cardinality({s} \X D) = Len(Rows(s))
    BY <1>2, <2>3, <2>4, Zenon
  <2> QED
    BY <2>2, <2>5 DEF D
<1>8. Cardinality(Before(s) \cap new) = 0
  <2>1. Before(s) \cap new = {}
    BY <1>1 DEF Before
  <2> QED
    BY <2>1, FS_EmptySet
<1>9. Cardinality(Before(s)) \in Nat
  BY FS_CardinalityType
<1> HIDE DEF new
<1>10. IsFiniteSet(Before(s) \cup new)
       /\ Cardinality(Before(s) \cup new) =
            Cardinality(Before(s)) + Cardinality(new) - Cardinality(Before(s) \cap new)
  BY <1>7, FS_Union
<1>11. Cardinality(Before(s) \cup new) = Cardinality(Before(s)) + Len(Rows(s))
  BY <1>2, <1>7, <1>8, <1>9, <1>10
<1> QED
  BY <1>4, <1>9, <1>10, <1>11

(* What the local paths of a row are.                                      *)
LEMMA LocalPathsAre ==
  ASSUME NEW row \in Seq(CellType)
  PROVE  /\ \A x \in LocalPaths(row) :
              /\ x = <<x[1], x[2]>> /\ x[1] \in 1 .. Len(row)
              /\ x[2] \in 1 .. Len(row[x[1]].paths)
              /\ row[x[1]].paths[x[2]] = "local"
         /\ \A i \in 1 .. Len(row) : \A q \in 1 .. Len(row[i].paths) :
              row[i].paths[q] = "local" => <<i, q>> \in LocalPaths(row)
<1>1. \A i \in DOMAIN row : DOMAIN row[i].paths = 1 .. Len(row[i].paths)
  BY DEF CellType
<1>2. DOMAIN row = 1 .. Len(row)
  OBVIOUS
<1> QED
  BY <1>1, <1>2 DEF LocalPaths

(* The row in work is one of the workbook's.                               *)
LEMMA RowTyped ==
  ASSUME TypeOK, NumberedSoFar, pc \in {"cells", "zip"}
  PROVE  /\ s \in DOMAIN book /\ r \in DOMAIN Rows(s)
         /\ Row \in Seq(CellType) /\ Len(Row) \in Nat
<1>1. s \in DOMAIN book
  BY WorkbooksAssumption DEF TypeOK, InSheet
<1>2. Rows(s) \in Seq(Seq(CellType)) /\ r \in DOMAIN Rows(s)
  BY <1>1, BookTyped DEF TypeOK, NumberedSoFar
<1> QED
  BY <1>1, <1>2 DEF Row

-----------------------------------------------------------------------------
LEMMA RowInit == Init => RowInv
<1> SUFFICES ASSUME Init PROVE RowInv
  OBVIOUS
<1>1. s = 1 /\ item_id = 1 /\ pc = "start" /\ tmp.zips = {}
  BY DEF Init, FirstId, Empty
<1>2. Before(s) = {}
  BY <1>1 DEF Before
<1>3. NumberedSoFar
  BY <1>1, <1>2, FS_EmptySet DEF NumberedSoFar, Number, InSheet
<1>4. CopiedSoFar
  BY <1>1 DEF CopiedSoFar
<1>5. FilesComplete
  BY <1>1 DEF FilesComplete
<1> QED
  BY <1>3, <1>4, <1>5 DEF RowInv

(* A step that stays in its sheet and its row.                             *)
LEMMA SameRow ==
  ASSUME TypeOK, NumberedSoFar, UNCHANGED <<book, s, r, item_id>>,
         \/ pc' \in {"pack", "cleanup", "done", "copying"} \/ UNCHANGED <<pc, err>>
         \/ pc = "start" /\ pc' = "sheets"
         \/ pc = "rows" /\ r <= Len(Rows(s)) /\ pc' = "cells"
         \/ pc = "rows" /\ r > Len(Rows(s)) /\ pc' = "endsheet"
         \/ pc = "cells" /\ pc' = "endsheet" /\ err' # 0
         \/ pc = "cells" /\ pc' = "zip"
         \/ pc = "zip" /\ pc' = "clean"
  PROVE  NumberedSoFar'
<1>1. Before(s)' = Before(s) /\ Rows(s)' = Rows(s)
  BY DEF Before, Rows
<1>2. Number(s, r)' = Number(s, r) /\ Number(s, 1)' = Number(s, 1)
  BY <1>1 DEF Number
<1>3. s = 1 /\ pc = "start" => Number(s, 1) = item_id
  BY DEF NumberedSoFar
<1>4. r \in Nat
  BY DEF TypeOK
<1>5. pc = "rows" /\ r > Len(Rows(s)) => r = Len(Rows(s)) + 1
  <2> SUFFICES ASSUME pc = "rows", r > Len(Rows(s)) PROVE r = Len(Rows(s)) + 1
    OBVIOUS
  <2>1. s \in DOMAIN book
    BY WorkbooksAssumption DEF TypeOK, InSheet
  <2> QED
    BY <2>1, <1>4, BookTyped DEF NumberedSoFar
<1> QED
  BY <1>1, <1>2, <1>3, <1>5 DEF NumberedSoFar, InSheet

(* A row is finished, with or without its archive.                         *)
LEMMA NextRow ==
  ASSUME TypeOK, NumberedSoFar, pc \in {"cells", "clean"}, pc' = "rows",
         UNCHANGED <<book, s>>, item_id' = item_id + 1, r' = r + 1
  PROVE  NumberedSoFar'
<1>1. Before(s)' = Before(s) /\ Rows(s)' = Rows(s)
  BY DEF Before, Rows
<1>2. IsFiniteSet(Before(s)) /\ Cardinality(Before(s)) \in Nat
  BY FS_CardinalityType DEF NumberedSoFar
<1>3. s \in DOMAIN book /\ r \in Nat
  BY WorkbooksAssumption DEF TypeOK, InSheet
<1>4. Len(Rows(s)) \in Nat
  BY <1>3, BookTyped
<1>5. item_id = Cardinality(Before(s)) + r /\ r <= Len(Rows(s))
  BY DEF NumberedSoFar, InSheet, Number
<1>6. item_id' = Cardinality(Before(s)') + r' /\ r' <= Len(Rows(s)') + 1
  BY <1>1, <1>2, <1>3, <1>4, <1>5
<1>7. item_id' = Number(s, r)'
  BY <1>6 DEF Number
<1> QED
  BY <1>1, <1>2, <1>6, <1>7 DEF NumberedSoFar, InSheet

(* The numbering after each step: item_id moves on with the rows, and a    *)
(* sheet is left for the next one at its end only.                         *)
LEMMA NumberedStep == TypeOK /\ NumberedSoFar /\ Next => NumberedSoFar'
<1> SUFFICES ASSUME TypeOK, NumberedSoFar, Next PROVE NumberedSoFar'
  OBVIOUS
<1> USE DEF loops, counts
<1>1. CASE RefuseIndexOption \/ NoReadableSheet \/ MakeTempdir \/ MakeTempdirFails
  BY <1>1, SameRow
  DEF RefuseIndexOption, NoReadableSheet, MakeTempdir, MakeTempdirFails, Accepted,
      ErrorInternal, End
<1>2. CASE OpenSheet
  <2>1. /\ UNCHANGED <<book, s, item_id>> /\ r' = 1 /\ pc = "sheets" /\ pc' = "rows"
        /\ s <= Len(book)
    BY <1>2 DEF OpenSheet
  <2>2. Before(s)' = Before(s) /\ Rows(s)' = Rows(s)
    BY <2>1 DEF Before, Rows
  <2>3. s \in DOMAIN book
    BY <2>1, WorkbooksAssumption DEF TypeOK
  <2>4. Len(Rows(s)) \in Nat
    BY <2>3, BookTyped
  <2>5. Number(s, r)' = Number(s, 1)
    BY <2>1, <2>2 DEF Number
  <2> QED
    BY <2>1, <2>2, <2>4, <2>5 DEF NumberedSoFar, InSheet
<1>3. CASE ConfigMissing \/ AllSheetsDone \/ SkipPack \/ NothingToPack \/ Pack
           \/ PackFails \/ PackAborts \/ Cleanup
  BY <1>3, SameRow
  DEF ConfigMissing, AllSheetsDone, SkipPack, NothingToPack, Pack, PackFails,
      PackAborts, Cleanup, ErrorInternal, End
<1>4. CASE BeginRow \/ AllRowsDone
  BY <1>4, SameRow DEF BeginRow, AllRowsDone
<1>5. CASE BeginRowFails \/ PathUnconvertible \/ CopyNeverEnds \/ TakeLocalFileFails
           \/ AttachFileFails \/ WriteXmlFails \/ ZipRowAborts \/ EndSheetFails
  BY <1>5, SameRow
  DEF BeginRowFails, PathUnconvertible, CopyNeverEnds, TakeLocalFileFails, AttachFileFails, WriteXmlFails,
      ZipRowAborts, EndSheetFails, ErrorInternal
<1>6. CASE RejectCell
  BY <1>6, SameRow DEF RejectCell, AtCell
<1>7. CASE AcceptCell \/ TakeLocalFile \/ TakeRemoteFile \/ AttachFile
  BY <1>7, SameRow DEF AcceptCell, TakeLocalFile, TakeRemoteFile, AttachFile
<1>8. CASE WriteXml
  <2>1. CASE pc' = "zip" /\ UNCHANGED <<tmp, item_id, r>>
    BY <1>8, <2>1, SameRow DEF WriteXml
  <2>2. CASE item_id' = NextItemId /\ r' = r + 1 /\ pc' = "rows"
    BY <1>8, <2>2, NextRow DEF WriteXml, NextItemId
  <2> QED
    BY <1>8, <2>1, <2>2 DEF WriteXml
<1>9. CASE ZipRow \/ ZipRowFails
  BY <1>9, SameRow DEF ZipRow, ZipRowFails
<1>10. CASE EndRow
  BY <1>10, NextRow DEF EndRow, NextItemId
<1>11. CASE EndSheet
  <2>1. CASE err # 0 /\ s' = s /\ pc' = "pack"
    BY <1>11, <2>1, SameRow DEF EndSheet
  <2>2. CASE err = 0 /\ s' = s + 1 /\ pc' = "sheets"
    <3>1. /\ UNCHANGED <<book, item_id>> /\ pc = "endsheet"
      BY <1>11 DEF EndSheet
    <3>2. s \in DOMAIN book /\ s <= Len(book)
      BY <3>1, WorkbooksAssumption DEF TypeOK, InSheet
    <3>3. Len(Rows(s)) \in Nat
      BY <3>2, BookTyped
    <3>4. /\ IsFiniteSet(Before(s + 1)) /\ Cardinality(Before(s)) \in Nat
          /\ Cardinality(Before(s + 1)) = Cardinality(Before(s)) + Len(Rows(s))
      BY <3>2, OneSheetOn DEF NumberedSoFar
    <3>5. item_id = Cardinality(Before(s)) + (Len(Rows(s)) + 1)
      BY <2>2, <3>1 DEF NumberedSoFar, InSheet, Number
    <3>6. Before(s)' = Before(s + 1)
      BY <2>2, <3>1 DEF Before, Rows
    <3>7. item_id' = Cardinality(Before(s)') + 1
      BY <3>1, <3>3, <3>4, <3>5, <3>6
    <3>8. item_id' = Number(s, 1)'
      BY <3>7 DEF Number
    <3> QED
      BY <2>2, <3>4, <3>6, <3>8 DEF NumberedSoFar, InSheet
  <2> QED
    BY <1>11, <2>1, <2>2 DEF EndSheet
<1>12. CASE Terminated
  BY <1>12, SameRow DEF Terminated, vars
<1> QED
  BY <1>1, <1>2, <1>3, <1>4, <1>5, <1>6, <1>7, <1>8, <1>9, <1>10, <1>11, <1>12
  DEF Next

-----------------------------------------------------------------------------
(* Between two rows nothing has been copied yet.                           *)
LEMMA NoRowInWork ==
  ASSUME pc' \notin {"cells", "zip"} \/ mode'.compat, pc' # "zip"
  PROVE  CopiedSoFar'
BY DEF CopiedSoFar

(* The directories of a row and the files it has had copied are as many.   *)
LEMMA CopiedStep ==
  TypeOK /\ NumberedSoFar /\ FileIdsBelow /\ ModeFits /\ CopiedSoFar /\ Next => CopiedSoFar'
<1> SUFFICES ASSUME TypeOK, NumberedSoFar, FileIdsBelow, ModeFits, CopiedSoFar, Next
             PROVE  CopiedSoFar'
  OBVIOUS
<1> USE DEF loops, counts
<1>1. CASE BeginRow
  <2>1. /\ UNCHANGED <<book, s, r, mode>> /\ rowdir' = {} /\ c' = 1 /\ p' = 1
        /\ pc = "rows" /\ r <= Len(Rows(s)) /\ pc' = "cells"
    BY <1>1 DEF BeginRow
  <2>2. s \in DOMAIN book
    BY <2>1, WorkbooksAssumption DEF TypeOK, InSheet
  <2>3. Row \in Seq(CellType)
    BY <2>1, <2>2, BookTyped DEF Row, TypeOK
  <2>4. Row' = Row
    BY <2>1 DEF Row, Rows
  <2>5. Passed' = {}
    BY <2>1, <2>3, <2>4, LocalPathsAre DEF Passed, LocalPaths
  <2> QED
    BY <2>1, <2>5, FS_EmptySet DEF CopiedSoFar
<1>2. CASE AcceptCell \/ TakeLocalFile \/ TakeRemoteFile
  <2> SUFFICES ASSUME ~mode.compat PROVE CopiedSoFar'
    BY <1>2, NoRowInWork DEF AcceptCell, TakeLocalFile, TakeRemoteFile, AtPath, AtCell
  <2>1. /\ UNCHANGED <<book, s, r, mode>> /\ pc = "cells" /\ pc' = "cells"
        /\ c <= Len(Row) /\ c \in Nat \ {0} /\ p \in Nat \ {0}
    BY <1>2 DEF AcceptCell, TakeLocalFile, TakeRemoteFile, AtPath, AtCell, TypeOK
  <2>2. Row \in Seq(CellType) /\ Row' = Row /\ Len(Row) \in Nat
    BY <2>1, RowTyped DEF Row, Rows
  <2>3. /\ IsFiniteSet(Passed) /\ IsFiniteSet(rowdir)
        /\ Cardinality(rowdir) = Cardinality(Passed)
    BY <2>1 DEF CopiedSoFar
  <2>4. Passed' = {x \in LocalPaths(Row) : x[1] < c' \/ (x[1] = c' /\ x[2] < p')}
    BY <2>2 DEF Passed, LocalPaths
  <2>5. \A x \in LocalPaths(Row) :
          /\ x = <<x[1], x[2]>> /\ x[1] \in 1 .. Len(Row)
          /\ x[2] \in 1 .. Len(Row[x[1]].paths)
          /\ Row[x[1]].paths[x[2]] = "local"
    BY <2>2, LocalPathsAre
  <2>6. Row[c].paths \in Seq(PathKind) /\ Len(Row[c].paths) \in Nat
    <3>1. Row[c] \in CellType
      BY <2>1, <2>2
    <3> QED
      BY <3>1 DEF CellType
  <2>7. \A x \in LocalPaths(Row) : x[1] \in Nat /\ x[2] \in Nat \ {0}
    <3> SUFFICES ASSUME NEW x \in LocalPaths(Row) PROVE x[1] \in Nat /\ x[2] \in Nat \ {0}
      OBVIOUS
    <3>1. x[1] \in 1 .. Len(Row) /\ x[2] \in 1 .. Len(Row[x[1]].paths)
      BY <2>5
    <3>2. Row[x[1]].paths \in Seq(PathKind)
      <4>1. Row[x[1]] \in CellType
        BY <2>2, <3>1
      <4> QED
        BY <4>1 DEF CellType
    <3> QED
      BY <2>2, <3>1, <3>2
  <2>8. CASE AcceptCell
    <3>1. c' = c + 1 /\ p' = 1 /\ p > Len(Row[c].paths) /\ UNCHANGED rowdir
      BY <2>8 DEF AcceptCell, NextCell, PathsDone, TheCell
    <3>2. Passed' = Passed
      BY <2>1, <2>4, <2>5, <2>6, <2>7, <3>1 DEF Passed
    <3> QED
      BY <2>1, <2>3, <3>1, <3>2 DEF CopiedSoFar
  <2>9. CASE TakeRemoteFile
    <3>1. c' = c /\ p' = p + 1 /\ Row[c].paths[p] = "remote" /\ UNCHANGED rowdir
      BY <2>9 DEF TakeRemoteFile, Path, TheCell
    <3>2. \A x \in LocalPaths(Row) : ~(x[1] = c /\ x[2] = p)
      BY <2>5, <3>1
    <3>3. Passed' = Passed
      BY <2>1, <2>4, <2>7, <3>1, <3>2 DEF Passed
    <3> QED
      BY <2>1, <2>3, <3>1, <3>3 DEF CopiedSoFar
  <2>10. CASE TakeLocalFile
    <3>1. /\ c' = c /\ p' = p + 1 /\ Row[c].paths[p] = "local" /\ p <= Len(Row[c].paths)
          /\ rowdir' = rowdir \cup {files_count} /\ files_count \notin rowdir
      BY <2>10 DEF TakeLocalFile, Path, TheCell, AtPath, FileDirTaken
    <3>2. <<c, p>> \in LocalPaths(Row)
      BY <2>1, <2>2, <2>6, <3>1, LocalPathsAre
    <3>3. \A x \in LocalPaths(Row) : x[1] = c /\ x[2] = p => x = <<c, p>>
      BY <2>5
    <3>4. Passed' = Passed \cup {<<c, p>>}
      BY <2>1, <2>4, <2>7, <3>1, <3>2, <3>3 DEF Passed
    <3>5. <<c, p>> \notin Passed
      BY <2>1 DEF Passed
    <3>6. IsFiniteSet(Passed') /\ Cardinality(Passed') = Cardinality(Passed) + 1
      BY <2>3, <3>4, <3>5, FS_AddElement
    <3>7. IsFiniteSet(rowdir') /\ Cardinality(rowdir') = Cardinality(rowdir) + 1
      BY <2>3, <3>1, FS_AddElement
    <3> QED
      BY <2>1, <2>3, <3>6, <3>7 DEF CopiedSoFar
  <2> QED
    BY <1>2, <2>8, <2>9, <2>10
<1>3. CASE WriteXml
  <2>1. CASE pc' = "rows"
    BY <2>1, NoRowInWork
  <2>2. CASE pc' = "zip" /\ r' = r
    <3>1. UNCHANGED <<book, s, r, c, p, mode, rowdir>> /\ pc = "cells" /\ c > Len(Row)
      BY <1>3, <2>2 DEF WriteXml
    <3>2. Row' = Row /\ Passed' = Passed
      BY <3>1 DEF Passed, Row, Rows, LocalPaths
    <3> QED
      BY <2>2, <3>1, <3>2 DEF CopiedSoFar
  <2> QED
    BY <1>3, <2>1, <2>2 DEF WriteXml
<1>4. CASE AttachFile
  BY <1>4, NoRowInWork DEF AttachFile, AtPath, AtCell
<1>5. CASE RefuseIndexOption \/ NoReadableSheet \/ MakeTempdir \/ MakeTempdirFails
           \/ OpenSheet \/ ConfigMissing \/ AllSheetsDone \/ BeginRowFails
           \/ AllRowsDone \/ RejectCell \/ PathUnconvertible \/ CopyNeverEnds
           \/ TakeLocalFileFails \/ AttachFileFails \/ WriteXmlFails
  BY <1>5, NoRowInWork
  DEF RefuseIndexOption, NoReadableSheet, MakeTempdir, MakeTempdirFails, OpenSheet,
      ConfigMissing, AllSheetsDone, BeginRowFails, AllRowsDone, RejectCell,
      PathUnconvertible, CopyNeverEnds, TakeLocalFileFails, AttachFileFails, WriteXmlFails, ErrorInternal, End
<1>6. CASE ZipRow \/ ZipRowFails \/ ZipRowAborts \/ EndRow \/ EndSheet \/ EndSheetFails
           \/ SkipPack \/ NothingToPack \/ Pack \/ PackFails \/ PackAborts \/ Cleanup
  BY <1>6, NoRowInWork
  DEF ZipRow, ZipRowFails, ZipRowAborts, EndRow, EndSheet, EndSheetFails, SkipPack,
      NothingToPack, Pack, PackFails, PackAborts, Cleanup, ErrorInternal, End
<1>7. CASE Terminated
  BY <1>7, NoRowInWork DEF Terminated, vars, CopiedSoFar, Passed, Row, Rows, LocalPaths
<1> QED
  BY <1>1, <1>2, <1>3, <1>4, <1>5, <1>6, <1>7 DEF Next

-----------------------------------------------------------------------------
(* An archive that is there keeps its row.                                 *)
LEMMA SameArchives ==
  ASSUME FilesComplete, book' = book, tmp'.zips = tmp.zips
  PROVE  FilesComplete'
<1>1. \A k, j : /\ Number(k, j)' = Number(k, j) /\ Rows(k)' = Rows(k)
               /\ LocalPaths(Rows(k)[j])' = LocalPaths(Rows(k)[j])
  BY DEF Number, Before, Rows, LocalPaths
<1> QED
  BY <1>1 DEF FilesComplete

(* The one step that makes an archive puts into it what the row has.       *)
LEMMA ArchivedStep ==
  TypeOK /\ NumberedSoFar /\ CopiedSoFar /\ ModeFits /\ FilesComplete /\ Next
    => FilesComplete'
<1> SUFFICES ASSUME TypeOK, NumberedSoFar, CopiedSoFar, ModeFits, FilesComplete, Next
             PROVE  FilesComplete'
  OBVIOUS
<1> USE DEF loops, counts
<1>1. CASE ZipRow
  <2> DEFINE new == [id |-> item_id, files |-> rowdir]
  <2>1. pc = "zip" /\ book' = book /\ tmp'.zips = tmp.zips \cup {new}
    BY <1>1 DEF ZipRow, TypeOK, Contents
  <2>2. /\ s \in DOMAIN book /\ r \in DOMAIN Rows(s)
        /\ Row \in Seq(CellType) /\ Len(Row) \in Nat
    BY <2>1, RowTyped
  <2>3. /\ c > Len(Row) /\ c \in Nat /\ Cardinality(rowdir) = Cardinality(Passed)
    BY <2>1 DEF CopiedSoFar, ModeFits, TypeOK
  <2>4. Passed = LocalPaths(Row)
    BY <2>2, <2>3, LocalPathsAre DEF Passed
  <2>5. item_id = Number(s, r)
    BY <2>1 DEF NumberedSoFar, InSheet
  <2>6. /\ new.id = Number(s, r)
        /\ Cardinality(new.files) = Cardinality(LocalPaths(Rows(s)[r]))
    BY <2>3, <2>4, <2>5 DEF Row
  <2>7. \A k, j : /\ Number(k, j)' = Number(k, j) /\ Rows(k)' = Rows(k)
                 /\ LocalPaths(Rows(k)[j])' = LocalPaths(Rows(k)[j])
    BY <2>1 DEF Number, Before, Rows, LocalPaths
  <2> HIDE DEF new
  <2> QED
    BY <2>1, <2>2, <2>6, <2>7 DEF FilesComplete
<1>2. CASE RefuseIndexOption \/ NoReadableSheet \/ MakeTempdir \/ MakeTempdirFails
           \/ OpenSheet \/ ConfigMissing \/ AllSheetsDone \/ BeginRow \/ BeginRowFails
           \/ AllRowsDone \/ RejectCell \/ AcceptCell \/ PathUnconvertible \/ CopyNeverEnds
  BY <1>2, SameArchives
  DEF RefuseIndexOption, NoReadableSheet, MakeTempdir, MakeTempdirFails, OpenSheet,
      ConfigMissing, AllSheetsDone, BeginRow, BeginRowFails, AllRowsDone,
      RejectCell, AcceptCell, PathUnconvertible, CopyNeverEnds
<1>3. CASE TakeLocalFile \/ TakeLocalFileFails \/ TakeRemoteFile \/ AttachFileFails
           \/ WriteXmlFails \/ ZipRowFails \/ ZipRowAborts \/ EndSheetFails
           \/ SkipPack \/ NothingToPack \/ Pack \/ PackFails \/ PackAborts \/ Cleanup
  BY <1>3, SameArchives
  DEF TakeLocalFile, TakeLocalFileFails, TakeRemoteFile, AttachFileFails,
      WriteXmlFails, ZipRowFails, ZipRowAborts, EndSheetFails, SkipPack,
      NothingToPack, Pack, PackFails, PackAborts, Cleanup
<1>4. CASE AttachFile \/ WriteXml \/ EndSheet
  <2>1. book' = book /\ tmp'.zips = tmp.zips
    BY <1>4 DEF AttachFile, WriteXml, EndSheet, MergeRowset, TypeOK, Contents
  <2> QED
    BY <2>1, SameArchives
<1>5. CASE EndRow
  <2>1. book' = book /\ tmp'.zips = tmp.zips
    BY <1>5 DEF EndRow, RowDirRemoved, RowDirKept, TypeOK, Contents
  <2> QED
    BY <2>1, SameArchives
<1>6. CASE Terminated
  BY <1>6, SameArchives DEF Terminated, vars
<1> QED
  BY <1>1, <1>2, <1>3, <1>4, <1>5, <1>6 DEF Next

-----------------------------------------------------------------------------
(* The three parts hold together.                                          *)
THEOREM RowInvariance == Spec => []RowInv
<1>1. IInv /\ RowInv /\ Next => RowInv'
  BY NumberedStep, CopiedStep, ArchivedStep DEF IInv, RowInv
<1>2. ASSUME RowInv, UNCHANGED vars PROVE RowInv'
  <2>1. \A k, j : Number(k, j)' = Number(k, j) /\ Before(k)' = Before(k) /\ Rows(k)' = Rows(k)
    BY <1>2 DEF Number, Before, Rows, vars
  <2>2. Number(s, r)' = Number(s, r) /\ Number(s, 1)' = Number(s, 1)
        /\ Before(s)' = Before(s) /\ Rows(s)' = Rows(s)
    BY <1>2 DEF Number, Before, Rows, vars, loops
  <2>3. NumberedSoFar'
    BY <1>2, <2>2 DEF RowInv, NumberedSoFar, vars, loops, counts
  <2>4. Passed' = Passed /\ Row' = Row
    BY <1>2 DEF Passed, Row, Rows, LocalPaths, vars, loops
  <2>5. CopiedSoFar'
    BY <1>2, <2>4 DEF RowInv, CopiedSoFar, vars, loops
  <2>6. FilesComplete'
    BY <1>2, SameArchives DEF RowInv, vars
  <2> QED
    BY <2>3, <2>5, <2>6 DEF RowInv
<1>3. IInv /\ RowInv /\ [Next]_vars => RowInv'
  BY <1>1, <1>2
<1> QED
  BY RowInit, Invariance, <1>3, PTL DEF Spec

(* A run ends in error_internal() without a fault of the environment only  *)
(* where it stands at a path that cannot be converted or opened.           *)
LEMMA AbortOnlyAtPath ==
  ASSUME TypeOK, NumberedSoFar, AtPath, Path \in {"unopenable", "unconvertible"},
         UNCHANGED <<book, s, r, c, p>>
  PROVE  AtBadPath'
<1>1. s \in DOMAIN book /\ r \in DOMAIN Rows(s) /\ Row \in Seq(CellType)
  BY RowTyped DEF AtPath, AtCell
<1>2. c \in DOMAIN Row
  BY <1>1 DEF AtPath, AtCell, TypeOK
<1>3. TheCell \in CellType
  BY <1>1, <1>2 DEF TheCell
<1>4. p \in DOMAIN TheCell.paths
  BY <1>3 DEF AtPath, TypeOK, CellType
<1> QED
  BY <1>1, <1>2, <1>4 DEF AtBadPath, Path, TheCell, Row, Rows

LEMMA AbortStill ==
  ASSUME NoSpuriousAbort, UNCHANGED vars PROVE NoSpuriousAbort'
BY DEF NoSpuriousAbort, AtBadPath, Path, TheCell, Row, Rows, vars, loops

LEMMA SoundAbortStep ==
  ASSUME IInv, NumberedSoFar, NoSpuriousAbort, Next PROVE NoSpuriousAbort'
<1> SUFFICES ASSUME faults' = {}, status' = "abort", ~UNCHANGED vars PROVE AtBadPath'
  BY AbortStill DEF NoSpuriousAbort
<1> USE DEF loops, counts
<1>1. CASE TakeLocalFileFails
  <2>1. AtPath /\ pc = "cells" /\ UNCHANGED <<book, faults, s, r, c, p>>
    BY <1>1 DEF TakeLocalFileFails, AtPath, AtCell
  <2>2. ~FileDirTaken
    BY DEF FileDirTaken, IInv, FileIdsBelow, TypeOK
  <2>3. Path = "unopenable"
    BY <1>1, <2>1, <2>2 DEF TakeLocalFileFails
  <2> QED
    BY <2>1, <2>3, AbortOnlyAtPath DEF IInv
<1>2. CASE AttachFileFails
  BY <1>2, AbortOnlyAtPath DEF AttachFileFails, IInv
<1>3. CASE PathUnconvertible
  BY <1>3, AbortOnlyAtPath DEF PathUnconvertible, IInv
<1>4. CASE BeginRowFails
  BY <1>4 DEF BeginRowFails, RowDirTaken, IInv, OnlyArchivesMade
<1>5. CASE EndSheetFails
  BY <1>5 DEF EndSheetFails, IInv, ModeFits, RowXmlsWritten
<1>6. ASSUME MakeTempdirFails \/ WriteXmlFails \/ ZipRowAborts \/ PackAborts PROVE FALSE
  BY <1>6 DEF MakeTempdirFails, WriteXmlFails, ZipRowAborts, PackAborts
<1>7. ASSUME RefuseIndexOption \/ NoReadableSheet \/ Cleanup \/ Terminated PROVE FALSE
  BY <1>7 DEF RefuseIndexOption, NoReadableSheet, Cleanup, Terminated, End, ExitStatus
<1>8. ASSUME UNCHANGED status, pc # "done" PROVE FALSE
  BY <1>8 DEF IInv, OutputInPhase
<1>9. ASSUME MakeTempdir \/ OpenSheet \/ ConfigMissing \/ AllSheetsDone \/ BeginRow
             \/ AllRowsDone \/ RejectCell \/ AcceptCell \/ CopyNeverEnds
             \/ TakeLocalFile \/ TakeRemoteFile \/ AttachFile
      PROVE  FALSE
  BY <1>8, <1>9
  DEF MakeTempdir, OpenSheet, ConfigMissing, AllSheetsDone, BeginRow, AllRowsDone,
      RejectCell, AcceptCell, CopyNeverEnds, TakeLocalFile, TakeRemoteFile, AttachFile,
      AtPath, AtCell, Accepted
<1>10. ASSUME WriteXml \/ ZipRow \/ ZipRowFails \/ EndRow \/ EndSheet \/ SkipPack
              \/ NothingToPack \/ Pack \/ PackFails
       PROVE  FALSE
  BY <1>8, <1>10
  DEF WriteXml, ZipRow, ZipRowFails, EndRow, EndSheet, SkipPack, NothingToPack, Pack,
      PackFails
<1> QED
  BY <1>1, <1>2, <1>3, <1>4, <1>5, <1>6, <1>7, <1>9, <1>10 DEF Next

(* Without a fault of the environment the program's own numbering never    *)
(* makes it meet a directory that exists or miss a file it wrote: the only *)
(* way into its internal-error exit is a path that was taken for a         *)
(* readable file and is none, or whose name is not convertible.            *)
THEOREM NoInternalError == Spec => []NoSpuriousAbort
<1>1. Init => NoSpuriousAbort
  BY DEF Init, NoSpuriousAbort
<1>2. IInv /\ RowInv /\ NoSpuriousAbort /\ [Next]_vars => NoSpuriousAbort'
  BY SoundAbortStep, AbortStill DEF RowInv
<1> QED
  BY <1>1, <1>2, Invariance, RowInvariance, PTL DEF Spec

(* item_id is the row's place in the whole workbook, however many sheets   *)
(* and rows there are and whatever fails on the way.                       *)
THEOREM NumberedSerially == Spec => []ItemsSerial
<1>1. RowInv => ItemsSerial
  BY DEF RowInv, NumberedSoFar, ItemsSerial
<1> QED
  BY RowInvariance, <1>1, PTL

(* Every archive that is made has a directory for each local file of the   *)
(* row whose number it carries.                                            *)
THEOREM ArchivesComplete == Spec => []FilesComplete
<1>1. RowInv => FilesComplete
  BY DEF RowInv
<1> QED
  BY RowInvariance, <1>1, PTL

-----------------------------------------------------------------------------
(* The rows of all sheets are finitely many.                               *)
LEMMA RowsFinite ==
  ASSUME TypeOK
  PROVE  IsFiniteSet(Before(Len(book) + 1))
<1> DEFINE D == 1 .. Len(book)
           f == [k \in D |-> {k} \X DOMAIN Rows(k)]
           T == {{k} \X DOMAIN Rows(k) : k \in D}
<1>1. book \in Seq(SheetType) /\ Len(book) \in Nat /\ DOMAIN book = D
  BY WorkbooksAssumption DEF TypeOK
<1>2. IsFiniteSet(D)
  <2>1. 1 \in Int /\ Len(book) \in Int
    BY <1>1
  <2> QED
    BY <2>1, FS_Interval
<1>3. f \in Surjection(D, T)
  BY DEF Surjection
<1>4. IsFiniteSet(T)
  <2> HIDE DEF f, T, D
  <2> QED
    BY <1>2, <1>3, FS_Surjection
<1>5. \A x \in T : IsFiniteSet(x)
  <2> SUFFICES ASSUME NEW k \in D PROVE IsFiniteSet({k} \X DOMAIN Rows(k))
    OBVIOUS
  <2> DEFINE n == Len(Rows(k))
  <2>1. n \in Nat /\ DOMAIN Rows(k) = 1 .. n
    BY <1>1, BookTyped
  <2> HIDE DEF n
  <2>2. n \in Int /\ 1 \in Int
    BY <2>1
  <2>3. IsFiniteSet(1 .. n)
    BY <2>2, FS_Interval
  <2>4. IsFiniteSet({k})
    BY FS_Singleton
  <2>5. IsFiniteSet({k} \X (1 .. n))
    BY <2>3, <2>4, FS_Product
  <2> QED
    BY <2>1, <2>5
<1>6. IsFiniteSet(UNION T)
  <2> HIDE DEF T
  <2> QED
    BY <1>4, <1>5, FS_UNION
<1>7. 1 .. (Len(book) + 1) - 1 = D
  BY <1>1
<1>8. Before(Len(book) + 1) = UNION T
  BY <1>7 DEF Before
<1> QED
  BY <1>6, <1>8

(* A row in work is one of the workbook's items.                           *)
LEMMA RowIsItem ==
  ASSUME TypeOK, NumberedSoFar, pc \in {"cells", "zip"}
  PROVE  item_id \in Items
<1>1. s \in DOMAIN book /\ r \in 1 .. Len(Rows(s)) /\ Len(Rows(s)) \in Nat
  <2>1. s \in DOMAIN book /\ r \in DOMAIN Rows(s)
    BY RowTyped
  <2> QED
    BY <2>1, BookTyped
<1>2. s \in 1 .. Len(book) /\ Len(book) \in Nat
  BY <1>1, BookTyped
<1>3. /\ IsFiniteSet(Before(s + 1)) /\ Cardinality(Before(s)) \in Nat
      /\ Cardinality(Before(s + 1)) = Cardinality(Before(s)) + Len(Rows(s))
  BY <1>2, OneSheetOn DEF NumberedSoFar
<1>4. Before(s + 1) \subseteq Before(Len(book) + 1)
  <2>1. 1 .. (s + 1) - 1 \subseteq 1 .. (Len(book) + 1) - 1
    BY <1>2
  <2> QED
    BY <2>1 DEF Before
<1>5. Cardinality(Before(s + 1)) <= Cardinality(Before(Len(book) + 1))
  BY <1>4, RowsFinite, FS_Subset
<1>6. Cardinality(Before(Len(book) + 1)) \in Nat
  BY RowsFinite, FS_CardinalityType
<1>7. item_id = Cardinality(Before(s)) + r
  BY DEF NumberedSoFar, InSheet, Number
<1>8. item_id \in 1 .. Cardinality(Before(Len(book) + 1))
  <2> DEFINE a == Cardinality(Before(s))
             b == Cardinality(Before(s + 1))
             t == Cardinality(Before(Len(book) + 1))
             n == Len(Rows(s))
  <2> HIDE DEF a, b, t, n
  <2>1. a \in Nat /\ b = a + n /\ b <= t /\ t \in Nat /\ n \in Nat
        /\ r \in 1 .. n /\ item_id = a + r
    BY <1>1, <1>3, <1>5, <1>6, <1>7 DEF a, b, t, n
  <2>2. item_id \in 1 .. t
    BY <2>1
  <2> QED
    BY <2>2 DEF t
<1> QED
  BY <1>8 DEF Items

-----------------------------------------------------------------------------
LEMMA AccountInit == Init => AccountedSoFar
<1> SUFFICES ASSUME Init PROVE AccountedSoFar
  OBVIOUS
<1>1. reported = {} /\ pc = "start" /\ item_id = 1 /\ LastItem = 0 /\ tmp = Empty
  BY DEF Init, LastItem, FirstId
<1>2. tmp.index = {} /\ IdsIn(tmp) = {}
  BY <1>1 DEF Empty, IdsIn
<1>3. 1 .. LastItem = {}
  BY <1>1
<1> QED
  BY <1>1, <1>2, <1>3 DEF AccountedSoFar

(* Nothing is made, reported or passed over.                               *)
LEMMA SameAccount ==
  ASSUME AccountedSoFar, UNCHANGED <<mode, item_id, reported>>,
         tmp'.zips = tmp.zips /\ tmp'.xmls = tmp.xmls,
         mode.index \/ tmp'.index = tmp.index,
         pc' # "clean", pc # "clean", pc' # "start" \/ pc = "start",
         pc' = "pack" /\ err' = 0 => item_id = Number(Len(book) + 1, 1)',
         pc' = "cleanup" => out'.state # "partial",
         TypeOK, TypeOK'
  PROVE  AccountedSoFar'
<1>1. LastItem' = LastItem
  BY DEF LastItem
<1>2. ~mode.index => IdsIn(tmp)' = IdsIn(tmp) /\ tmp'.index = tmp.index
  BY DEF IdsIn
<1> QED
  BY <1>1, <1>2 DEF AccountedSoFar

(* After every step each item dealt with is in the directory, or reported. *)
LEMMA AccountStep ==
  IInv /\ TypeOK' /\ NumberedSoFar /\ AccountedSoFar /\ Next => AccountedSoFar'
<1> SUFFICES ASSUME IInv, TypeOK', NumberedSoFar, AccountedSoFar, Next
             PROVE  AccountedSoFar'
  OBVIOUS
<1> USE DEF loops, counts
<1>a. TypeOK /\ item_id \in Nat \ {0}
  BY DEF IInv, TypeOK
<1>1. CASE RefuseIndexOption \/ NoReadableSheet \/ MakeTempdir \/ MakeTempdirFails
           \/ OpenSheet
  BY <1>a, <1>1, SameAccount
  DEF RefuseIndexOption, NoReadableSheet, MakeTempdir, MakeTempdirFails, OpenSheet,
      Accepted, ErrorInternal, End
<1>2. CASE ConfigMissing \/ BeginRow \/ BeginRowFails \/ AllRowsDone \/ RejectCell
           \/ AcceptCell
  BY <1>a, <1>2, SameAccount
  DEF ConfigMissing, BeginRow, BeginRowFails, AllRowsDone, RejectCell, AcceptCell,
      AtCell, ErrorInternal
<1>3. CASE AllSheetsDone
  <2>1. /\ UNCHANGED <<mode, item_id, reported, tmp, book, s>>
        /\ pc = "sheets" /\ pc' = "pack" /\ s > Len(book)
    BY <1>3 DEF AllSheetsDone
  <2>2. s = Len(book) + 1
    <3>1. Len(book) \in Nat /\ s \in 1 .. Len(book) + 1
      BY <1>a, WorkbooksAssumption DEF TypeOK
    <3> QED
      BY <2>1, <3>1
  <2>3. item_id = Number(Len(book) + 1, 1)
    BY <2>1, <2>2 DEF NumberedSoFar
  <2>4. Number(Len(book) + 1, 1)' = Number(Len(book) + 1, 1)
    BY <2>1 DEF Number, Before, Rows
  <2> QED
    BY <1>a, <2>1, <2>3, <2>4, SameAccount
<1>4. CASE PathUnconvertible \/ CopyNeverEnds \/ TakeLocalFile \/ TakeLocalFileFails
           \/ TakeRemoteFile \/ AttachFileFails \/ WriteXmlFails \/ ZipRowAborts
           \/ EndSheetFails
  BY <1>a, <1>4, SameAccount
  DEF PathUnconvertible, CopyNeverEnds, TakeLocalFile, TakeLocalFileFails, TakeRemoteFile, AttachFileFails,
      WriteXmlFails, ZipRowAborts, EndSheetFails, AtPath, AtCell, ErrorInternal
<1>5. CASE AttachFile
  <2>1. tmp'.zips = tmp.zips /\ tmp'.xmls = tmp.xmls /\ tmp'.index = tmp.index
    BY <1>a, <1>5 DEF AttachFile, TypeOK, Contents
  <2> QED
    BY <1>a, <1>5, <2>1, SameAccount DEF AttachFile, AtPath, AtCell
<1>6. CASE WriteXml
  <2>1. CASE pc' = "zip" /\ UNCHANGED <<tmp, item_id, r>>
    BY <1>a, <1>6, <2>1, SameAccount DEF WriteXml
  <2>2. CASE /\ mode.compat
             /\ tmp' = [tmp EXCEPT !.xmls = @ \cup {item_id}]
             /\ item_id' = item_id + 1 /\ r' = r + 1 /\ pc' = "rows"
    <3>1. UNCHANGED <<mode, reported>> /\ pc = "cells"
      BY <1>6 DEF WriteXml
    <3>2. /\ tmp'.zips = tmp.zips /\ tmp'.xmls = tmp.xmls \cup {item_id}
          /\ tmp'.index = tmp.index
      BY <1>a, <2>2 DEF TypeOK, Contents
    <3>3. IdsIn(tmp)' = IdsIn(tmp) \cup {item_id}
      BY <3>2 DEF IdsIn
    <3>4. LastItem = item_id - 1 /\ LastItem' = item_id
      BY <1>a, <2>2, <3>1 DEF LastItem
    <3>5. 1 .. LastItem' = (1 .. LastItem) \cup {item_id}
      BY <1>a, <3>4
    <3> QED
      BY <2>2, <3>1, <3>2, <3>3, <3>5 DEF AccountedSoFar
  <2> QED
    BY <1>6, <2>1, <2>2 DEF WriteXml, NextItemId
<1>7. CASE ZipRow \/ ZipRowFails
  <2>1. UNCHANGED <<mode, item_id>> /\ pc = "zip" /\ pc' = "clean" /\ ~mode.compat
    BY <1>7 DEF ZipRow, ZipRowFails, IInv, ModeFits
  <2>2. LastItem = item_id - 1 /\ LastItem' = item_id
    BY <2>1 DEF LastItem
  <2>3. 1 .. LastItem' = (1 .. LastItem) \cup {item_id} /\ item_id \notin 1 .. LastItem
    BY <1>a, <2>2
  <2>4. CASE ZipRow
    <3>1. tmp'.zips = tmp.zips \cup {[id |-> item_id, files |-> rowdir]}
          /\ tmp'.xmls = tmp.xmls /\ tmp'.index = tmp.index /\ reported' = reported
      BY <1>a, <2>4 DEF ZipRow, TypeOK, Contents
    <3>2. IdsIn(tmp)' = IdsIn(tmp) \cup {item_id}
      <4>1. {z.id : z \in tmp'.zips} = {z.id : z \in tmp.zips} \cup {item_id}
        <5> DEFINE new == [id |-> item_id, files |-> rowdir]
        <5>1. tmp'.zips = tmp.zips \cup {new} /\ new.id = item_id
          BY <3>1
        <5> HIDE DEF new
        <5> QED
          BY <5>1, Zenon
      <4> QED
        BY <3>1, <4>1 DEF IdsIn
    <3>3. reported' \subseteq 1 .. LastItem'
      BY <2>3, <3>1 DEF AccountedSoFar
    <3>4. ~mode.index => tmp'.index = {} /\ IdsIn(tmp)' = (1 .. LastItem') \ reported'
      BY <2>3, <3>1, <3>2 DEF AccountedSoFar
    <3> QED
      BY <2>1, <3>3, <3>4 DEF AccountedSoFar
  <2>5. CASE ZipRowFails
    <3>1. tmp' = tmp /\ reported' = reported \cup {item_id}
      BY <2>5 DEF ZipRowFails
    <3> QED
      BY <2>1, <2>3, <3>1 DEF AccountedSoFar, IdsIn
  <2> QED
    BY <1>7, <2>4, <2>5
<1>8. CASE EndRow
  <2>1. /\ UNCHANGED <<mode, reported>> /\ pc = "clean" /\ pc' = "rows"
        /\ item_id' = item_id + 1
    BY <1>8 DEF EndRow, NextItemId
  <2>2. tmp'.zips = tmp.zips /\ tmp'.xmls = tmp.xmls /\ tmp'.index = tmp.index
    BY <1>a, <1>8 DEF EndRow, RowDirRemoved, RowDirKept, TypeOK, Contents
  <2>3. LastItem' = LastItem
    BY <1>a, <2>1 DEF LastItem
  <2> QED
    BY <2>1, <2>2, <2>3 DEF AccountedSoFar, IdsIn
<1>9. CASE EndSheet
  <2>1. /\ UNCHANGED <<mode, item_id, reported>> /\ pc = "endsheet"
        /\ pc' = "sheets" \/ (pc' = "pack" /\ err' # 0)
    BY <1>9 DEF EndSheet
  <2>2. tmp' = MergeRowset
    BY <1>9 DEF EndSheet
  <2>3. CASE ~mode.index
    BY <1>a, <2>1, <2>2, <2>3, SameAccount DEF MergeRowset
  <2>4. CASE mode.index
    <3>1. LastItem' = LastItem
      BY <2>1 DEF LastItem
    <3> QED
      BY <2>1, <2>4, <3>1 DEF AccountedSoFar
  <2> QED
    BY <2>3, <2>4
<1>10. CASE SkipPack \/ NothingToPack \/ Pack \/ PackFails \/ PackAborts \/ Cleanup
  <2>1. pc = "pack" => out.state = "none"
    BY DEF IInv, OutputInPhase
  <2>2. pc' = "cleanup" => out'.state # "partial"
    BY <1>10, <2>1
    DEF SkipPack, NothingToPack, Pack, PackFails, PackAborts, Cleanup, ErrorInternal, End
  <2> QED
    BY <1>a, <1>10, <2>2, SameAccount
    DEF SkipPack, NothingToPack, Pack, PackFails, PackAborts, Cleanup, ErrorInternal, End
<1>11. CASE Terminated
  <2>1. UNCHANGED vars /\ pc \in {"done", "copying"}
    BY <1>11 DEF Terminated
  <2> QED
    BY <1>a, <2>1, SameAccount DEF vars
<1> QED
  BY <1>1, <1>2, <1>3, <1>4, <1>5, <1>6, <1>7, <1>8, <1>9, <1>10, <1>11 DEF Next

(* At any time what has been made and what has been reported account for   *)
(* all items that were dealt with.                                         *)
THEOREM AllAccounted == Spec => []AccountedSoFar
<1>1. ASSUME AccountedSoFar, UNCHANGED vars PROVE AccountedSoFar'
  <2>1. Number(Len(book) + 1, 1)' = Number(Len(book) + 1, 1)
    BY <1>1 DEF Number, Before, Rows, vars
  <2>2. LastItem' = LastItem /\ IdsIn(tmp)' = IdsIn(tmp)
    BY <1>1 DEF LastItem, IdsIn, vars, counts
  <2> QED
    BY <1>1, <2>1, <2>2 DEF AccountedSoFar, vars, counts
<1>2. IInv /\ IInv' /\ RowInv /\ AccountedSoFar /\ [Next]_vars => AccountedSoFar'
  BY <1>1, AccountStep DEF IInv, RowInv
<1> QED
  BY AccountInit, Invariance, RowInvariance, <1>2, PTL DEF Spec

-----------------------------------------------------------------------------
(* The import file of the contract before it is made.                      *)
LEMMA NothingYet ==
  ASSUME IInv, pc \notin {"cleanup", "done"}
  PROVE  ImportFile = Contract!NoFile
BY DEF IInv, OutputInPhase, ImportFile, Contract!NoFile

LEMMA SameContract ==
  ASSUME UNCHANGED <<mode, book, out, reported, status>>
  PROVE  UNCHANGED Contract!vars
<1>1. Items' = Items
  BY DEF Items, Before, Rows
<1> QED
  BY <1>1 DEF Contract!vars, ContractItems, ImportFile, IdsIn

(* The items are the same in all states.                                   *)
LEMMA SameItems ==
  ASSUME UNCHANGED <<mode, book>>
  PROVE  ContractItems' = ContractItems
BY DEF ContractItems, Items, Before, Rows

(* A step that ends the run early, with or without an import file begun.   *)
LEMMA AbortStep ==
  ASSUME IInv, pc \notin {"cleanup", "done"}, ErrorInternal,
         UNCHANGED <<mode, book, reported>>,
         out' = out \/ out'.state = "partial"
  PROVE  Contract!Abort
<1>1. status = "running" /\ status' = "abort"
  BY DEF ErrorInternal, IInv, OutputInPhase
<1>2. ImportFile = Contract!NoFile /\ out.state = "none"
  BY NothingYet DEF IInv, OutputInPhase
<1>3. ContractItems' = ContractItems
  BY SameItems
<1>4. ImportFile' \in {Contract!NoFile, Contract!PartialFile}
  BY <1>2 DEF ImportFile, Contract!NoFile, Contract!PartialFile
<1> QED
  BY <1>1, <1>2, <1>3, <1>4 DEF Contract!Abort

(* Every step of a run is one of the contract, or none.                    *)
LEMMA ContractStep ==
  IInv /\ RowInv /\ AccountedSoFar /\ [Next]_vars => [Contract!Next]_(Contract!vars)
<1> SUFFICES ASSUME IInv, RowInv, AccountedSoFar, [Next]_vars
             PROVE  Contract!Next \/ UNCHANGED Contract!vars
  OBVIOUS
<1> USE DEF loops, counts
<1>a. pc # "done" => status = "running"
  BY DEF IInv, OutputInPhase
<1>1. CASE RefuseIndexOption
  <2>1. pc = "start" /\ status' = "ok" /\ UNCHANGED <<mode, book, out, reported>>
    BY <1>1 DEF RefuseIndexOption, End
  <2>2. ImportFile = Contract!NoFile /\ ContractItems' = ContractItems /\ reported = {}
    BY <2>1, NothingYet, SameItems DEF AccountedSoFar
  <2>3. ImportFile' = ImportFile
    BY <2>1, <2>2 DEF ImportFile, IdsIn
  <2> QED
    BY <1>a, <2>1, <2>2, <2>3 DEF Contract!Next, Contract!Refuse
<1>2. CASE NoReadableSheet
  <2>1. pc = "start" /\ status' = "fail" /\ UNCHANGED <<mode, book, out, reported>>
    BY <1>2 DEF NoReadableSheet, Accepted, End
  <2>2. ImportFile = Contract!NoFile /\ ContractItems' = ContractItems
    BY <2>1, NothingYet, SameItems
  <2>3. ImportFile' = ImportFile
    BY <2>1, <2>2 DEF ImportFile, IdsIn
  <2> QED
    BY <1>a, <2>1, <2>2, <2>3 DEF Contract!Next, Contract!Fail
<1>3. CASE MakeTempdirFails \/ BeginRowFails \/ PathUnconvertible \/ TakeLocalFileFails
           \/ AttachFileFails \/ WriteXmlFails \/ ZipRowAborts \/ EndSheetFails \/ PackAborts
  <2>1. /\ pc \notin {"cleanup", "done"} /\ ErrorInternal
        /\ UNCHANGED <<mode, book, reported>> /\ (out' = out \/ out'.state = "partial")
    BY <1>3
    DEF MakeTempdirFails, BeginRowFails, PathUnconvertible, TakeLocalFileFails, AttachFileFails,
        WriteXmlFails, ZipRowAborts, EndSheetFails, PackAborts, Accepted, AtPath, AtCell
  <2> QED
    BY <2>1, AbortStep DEF Contract!Next
<1>4. CASE ZipRowFails
  <2>1. /\ pc = "zip" /\ reported' = reported \cup {item_id}
        /\ UNCHANGED <<mode, book, out, status>>
    BY <1>4 DEF ZipRowFails
  <2>2. item_id \in Items
    BY <2>1, RowIsItem DEF IInv, RowInv
  <2>3. item_id \in ContractItems
    BY <2>1, <2>2 DEF ContractItems, IInv, ModeFits
  <2>4. ImportFile = Contract!NoFile /\ ContractItems' = ContractItems
    BY <2>1, NothingYet, SameItems
  <2>5. ImportFile' = ImportFile
    BY <2>1, <2>4 DEF ImportFile, IdsIn
  <2>6. Contract!Report(item_id)
    BY <1>a, <2>1, <2>3, <2>4, <2>5 DEF Contract!Report
  <2> QED
    BY <2>3, <2>6 DEF Contract!Next
<1>5. CASE Pack
  <2>1. /\ pc = "pack" /\ err = 0 /\ out' = [state |-> "complete", has |-> tmp]
        /\ UNCHANGED <<mode, book, reported, status>>
    BY <1>5 DEF Pack
  <2>2. ImportFile = Contract!NoFile /\ ContractItems' = ContractItems
    BY <2>1, NothingYet, SameItems
  <2>3. ImportFile' = [state |-> "complete", ids |-> IdsIn(tmp) \cap ContractItems]
    BY <2>1, <2>2 DEF ImportFile, IdsIn
  <2>4. IdsIn(tmp) \cap ContractItems = ContractItems \ reported
    <3>1. CASE mode.index
      BY <3>1, <2>1 DEF ContractItems, IInv, ModeFits
    <3>2. CASE ~mode.index
      <4>1. item_id = Number(Len(book) + 1, 1) /\ IdsIn(tmp) = (1 .. LastItem) \ reported
        BY <2>1, <3>2 DEF AccountedSoFar
      <4>2. Cardinality(Before(Len(book) + 1)) \in Nat
        BY RowsFinite, FS_CardinalityType DEF IInv
      <4>3. LastItem = Cardinality(Before(Len(book) + 1))
        BY <2>1, <4>1, <4>2 DEF LastItem, Number
      <4>4. ContractItems = 1 .. LastItem
        BY <3>2, <4>3 DEF ContractItems, Items
      <4> QED
        BY <4>1, <4>4
    <3> QED
      BY <3>1, <3>2
  <2> QED
    BY <1>a, <2>1, <2>2, <2>3, <2>4 DEF Contract!Next, Contract!Publish
<1>6. CASE Cleanup
  <2>1. /\ pc = "cleanup" /\ status' = (IF err = 0 THEN "ok" ELSE "fail")
        /\ UNCHANGED <<mode, book, out, reported>>
    BY <1>6 DEF Cleanup, End, ExitStatus
  <2>2. out.state = "complete" <=> err = 0
    BY <2>1 DEF IInv, OutputInPhase
  <2>3. ContractItems' = ContractItems /\ ImportFile' = ImportFile
    BY <2>1, SameItems DEF ImportFile, IdsIn
  <2>4. CASE err = 0
    BY <1>a, <2>1, <2>2, <2>3, <2>4 DEF ImportFile, Contract!Next, Contract!Succeed
  <2>5. CASE err # 0
    <3>1. ImportFile = Contract!NoFile
        <4>1. out.state \in {"none", "partial", "complete"}
        BY DEF IInv, TypeOK
      <4>2. out.state = "none"
        BY <2>1, <2>2, <2>5, <4>1 DEF AccountedSoFar
      <4> QED
        BY <4>2 DEF ImportFile, Contract!NoFile
    <3> QED
      BY <1>a, <2>1, <2>3, <2>5, <3>1 DEF Contract!Next, Contract!Fail
  <2> QED
    BY <2>4, <2>5
<1>7. CASE MakeTempdir \/ OpenSheet \/ ConfigMissing \/ AllSheetsDone \/ BeginRow
           \/ AllRowsDone \/ RejectCell \/ AcceptCell \/ CopyNeverEnds \/ TakeLocalFile
           \/ TakeRemoteFile \/ AttachFile \/ WriteXml \/ ZipRow \/ EndRow
           \/ EndSheet \/ SkipPack \/ NothingToPack \/ PackFails
  <2>1. UNCHANGED <<mode, book, out, reported, status>>
    BY <1>7
    DEF MakeTempdir, OpenSheet, ConfigMissing, AllSheetsDone, BeginRow, AllRowsDone,
        RejectCell, AcceptCell, CopyNeverEnds, TakeLocalFile, TakeRemoteFile, AttachFile,
        WriteXml, ZipRow, EndRow, EndSheet, SkipPack, NothingToPack, PackFails
  <2> QED
    BY <2>1, SameContract
<1>8. CASE UNCHANGED vars
  BY <1>8, SameContract DEF vars
<1> QED
  BY <1>1, <1>2, <1>3, <1>4, <1>5, <1>6, <1>7, <1>8 DEF Next, Terminated

(* The import file appears in one step, holding every item no error line   *)
(* was printed for, and the exit status says whether it is there.          *)
THEOREM RunKeepsContract == Spec => ImplementsContract
<1>1. Init => Contract!Init
  <2> SUFFICES ASSUME Init PROVE Contract!Init
    OBVIOUS
  <2>1. TypeOK
    BY TypeInit
  <2>2. Cardinality(Before(Len(book) + 1)) \in Nat
    BY <2>1, RowsFinite, FS_CardinalityType
  <2>3. ContractItems \in SUBSET Nat
    BY <2>2 DEF ContractItems, Items
  <2>4. ImportFile = Contract!NoFile
    BY DEF Init, ImportFile, Contract!NoFile
  <2> QED
    BY <2>3, <2>4 DEF Init, Contract!Init
<1>2. Spec => [](IInv /\ RowInv /\ AccountedSoFar)
  BY Invariance, RowInvariance, AllAccounted, PTL
<1> QED
  BY <1>1, <1>2, ContractStep, PTL DEF Spec, ImplementsContract, Contract!Spec

-----------------------------------------------------------------------------
(* The files of XooNIps 3.4.  A step from one row or sheet to the next.    *)
LEMMA SameFiles ==
  ASSUME AttachedSoFar, mode.compat, mode'.compat,
         pc \notin {"cells", "cleanup", "done", "copying"},
         pc \in {"endsheet", "pack"} => err = 0,
         UNCHANGED book, tmp'.attached = tmp.attached, RowsDone' = RowsDone, pc' # "cells",
         pc' = "pack" => s' = Len(book) + 1
  PROVE  AttachedSoFar'
<1>1. \A y : RowFiles(y)' = RowFiles(y) /\ Attached(y)' = Attached(y)
  BY DEF RowFiles, Attached, Rows
<1>2. /\ \A y \in RowsDone : \A x \in RowFiles(y) : x[2] = 1
      /\ IsFiniteSet(tmp.attached)
      /\ tmp.attached = FilesDone
  BY DEF AttachedSoFar
<1>3. FilesDone' = FilesDone
  BY <1>1 DEF FilesDone
<1> QED
  BY <1>1, <1>2, <1>3 DEF AttachedSoFar

(* Where the current row and its local paths are.                          *)
LEMMA PathsOfRow ==
  ASSUME TypeOK, NumberedSoFar, pc = "cells"
  PROVE  /\ Len(Row) \in Nat /\ c \in Nat \ {0} /\ p \in Nat \ {0}
         /\ \A x \in LocalPaths(Row) :
              /\ x = <<x[1], x[2]>> /\ x[1] \in 1 .. Len(Row)
              /\ x[1] \in Nat \ {0} /\ x[2] \in Nat \ {0}
              /\ x[2] <= Len(Row[x[1]].paths)
         /\ \A i \in 1 .. Len(Row) : Len(Row[i].paths) \in Nat
         /\ \A i \in 1 .. Len(Row) : \A q \in 1 .. Len(Row[i].paths) :
              Row[i].paths[q] = "local" => <<i, q>> \in LocalPaths(Row)
<1>1. Row \in Seq(CellType) /\ Len(Row) \in Nat
  BY RowTyped
<1>2. \A i \in 1 .. Len(Row) : Len(Row[i].paths) \in Nat
  BY <1>1 DEF CellType
<1>3. /\ \A x \in LocalPaths(Row) :
           /\ x = <<x[1], x[2]>> /\ x[1] \in 1 .. Len(Row)
           /\ x[2] \in 1 .. Len(Row[x[1]].paths)
      /\ \A i \in 1 .. Len(Row) : \A q \in 1 .. Len(Row[i].paths) :
           Row[i].paths[q] = "local" => <<i, q>> \in LocalPaths(Row)
  BY <1>1, LocalPathsAre
<1>4. \A n, m \in Nat : m \in 1 .. n => m \in Nat \ {0} /\ m <= n
  OBVIOUS
<1>5. ASSUME NEW x \in LocalPaths(Row)
      PROVE  /\ x[1] \in Nat \ {0} /\ x[2] \in Nat \ {0}
             /\ x[2] <= Len(Row[x[1]].paths)
  <2>1. x[1] \in 1 .. Len(Row) /\ x[2] \in 1 .. Len(Row[x[1]].paths)
    BY <1>3
  <2>2. Len(Row) \in Nat /\ Len(Row[x[1]].paths) \in Nat
    BY <1>1, <1>2, <2>1
  <2> HIDE DEF Row
  <2> QED
    BY <2>1, <2>2
<1>6. c \in Nat \ {0} /\ p \in Nat \ {0}
  BY DEF TypeOK
<1> QED
  BY <1>1, <1>2, <1>3, <1>5, <1>6

(* A step within a row: RowsDone and the row stay as they are.             *)
LEMMA WithinRow ==
  ASSUME AttachedSoFar, mode.compat, mode'.compat, pc \in {"rows", "cells"}, pc' = "cells",
         UNCHANGED <<book, s, r>>,
         IsFiniteSet(tmp'.attached),
         tmp'.attached = FilesDone \cup {<<s, r, x[1]>> : x \in Copied'},
         p' <= 2, \A i \in 1 .. c' - 1 : Len(Row[i].paths) <= 1
  PROVE  AttachedSoFar'
<1>1. \A y : RowFiles(y)' = RowFiles(y) /\ Attached(y)' = Attached(y)
  BY DEF RowFiles, Attached, Rows
<1>2. RowsDone' = RowsDone /\ Row' = Row
  BY DEF RowsDone, Before, Rows, Row, InSheet
<1>3. \A y \in RowsDone : \A x \in RowFiles(y) : x[2] = 1
  BY DEF AttachedSoFar
<1>4. FilesDone' = FilesDone
  BY <1>1, <1>2 DEF FilesDone
<1> QED
  BY <1>1, <1>2, <1>3, <1>4 DEF AttachedSoFar

LEMMA AttachedStep ==
  IInv /\ TypeOK' /\ NumberedSoFar /\ AttachedSoFar /\ Next => AttachedSoFar'
<1> SUFFICES ASSUME IInv, TypeOK', NumberedSoFar, AttachedSoFar, Next,
                    mode'.compat, pc' \in {"endsheet", "pack"} => err' = 0,
                    pc' \notin {"cleanup", "done", "copying"}
             PROVE  AttachedSoFar'
  BY DEF AttachedSoFar
<1> USE DEF loops, counts
<1>a. TypeOK
  BY DEF IInv
<1>b. mode' = mode /\ book' = book
  BY DEF Next, RefuseIndexOption, NoReadableSheet, MakeTempdir, MakeTempdirFails, OpenSheet,
         ConfigMissing, AllSheetsDone, BeginRow, BeginRowFails, AllRowsDone, RejectCell,
         AcceptCell, PathUnconvertible, CopyNeverEnds, TakeLocalFile, TakeLocalFileFails,
         TakeRemoteFile, AttachFile, AttachFileFails, WriteXml, WriteXmlFails, ZipRow, ZipRowFails, ZipRowAborts, EndRow,
         EndSheet, EndSheetFails, SkipPack, NothingToPack, Pack, PackFails, PackAborts,
         Cleanup, Terminated, vars
<1>c. mode.compat
  BY <1>b
<1>1. CASE MakeTempdir
  <2>1. pc = "start" /\ pc' = "sheets" /\ UNCHANGED <<tmp, s>>
    BY <1>1 DEF MakeTempdir, Accepted
  <2>2. RowsDone' = RowsDone
    BY <1>b, <2>1 DEF RowsDone, Before, Rows, InSheet
  <2> QED
    BY <1>b, <1>c, <2>1, <2>2, SameFiles
<1>2. CASE OpenSheet
  <2>1. pc = "sheets" /\ pc' = "rows" /\ UNCHANGED <<tmp, s>> /\ r' = 1
    BY <1>2 DEF OpenSheet
  <2>2. RowsDone' = RowsDone
    BY <1>b, <2>1 DEF RowsDone, Before, Rows, InSheet
  <2> QED
    BY <1>b, <1>c, <2>1, <2>2, SameFiles
<1>3. CASE AllSheetsDone
  <2>1. pc = "sheets" /\ pc' = "pack" /\ UNCHANGED <<tmp, s>> /\ s > Len(book)
    BY <1>3 DEF AllSheetsDone
  <2>2. s = Len(book) + 1
    <3>1. Len(book) \in Nat /\ s \in 1 .. Len(book) + 1
      BY <1>a, WorkbooksAssumption DEF TypeOK
    <3> QED
      BY <2>1, <3>1
  <2>3. RowsDone' = RowsDone
    BY <1>b, <2>1 DEF RowsDone, Before, Rows, InSheet
  <2> QED
    BY <1>b, <1>c, <2>1, <2>2, <2>3, SameFiles
<1>4. CASE AllRowsDone
  <2>1. pc = "rows" /\ pc' = "endsheet" /\ UNCHANGED <<tmp, s, r>>
    BY <1>4 DEF AllRowsDone
  <2>2. RowsDone' = RowsDone
    BY <1>b, <2>1 DEF RowsDone, Before, Rows, InSheet
  <2> QED
    BY <1>b, <1>c, <2>1, <2>2, SameFiles
<1>5. CASE EndSheet
  <2>1. pc = "endsheet" /\ err = 0 /\ s' = s + 1 /\ pc' = "sheets" /\ tmp' = MergeRowset
    BY <1>5 DEF EndSheet
  <2>2. tmp'.attached = tmp.attached
    BY <1>a, <2>1 DEF MergeRowset, TypeOK, Contents
  <2>3. r = Len(Rows(s)) + 1 /\ s \in 1 .. Len(book) /\ s \in DOMAIN book
    BY <1>a, <2>1, WorkbooksAssumption, SMTT(30) DEF NumberedSoFar, TypeOK, InSheet
  <2>4. DOMAIN Rows(s) = 1 .. Len(Rows(s)) /\ Len(Rows(s)) \in Nat
    BY <1>a, <2>3, BookTyped
  <2>5. RowsDone = Before(s) \cup ({s} \X DOMAIN Rows(s))
    <3>1. 1 .. r - 1 = DOMAIN Rows(s)
      BY <2>3, <2>4
    <3> QED
      BY <2>1, <3>1 DEF RowsDone, InSheet
  <2>6. Before(s + 1) = Before(s) \cup ({s} \X DOMAIN Rows(s))
    <3>1. 1 .. (s + 1) - 1 = (1 .. s - 1) \cup {s}
      BY <2>3
    <3> QED
      BY <3>1 DEF Before
  <2>7. RowsDone' = RowsDone
    <3>1. Before(s)' = Before(s + 1)
      BY <1>b, <2>1 DEF Before, Rows
    <3> QED
      BY <2>1, <2>5, <2>6, <3>1 DEF RowsDone, InSheet
  <2> QED
    BY <1>b, <1>c, <2>1, <2>2, <2>7, SameFiles
<1>6. CASE BeginRow
  <2>1. pc = "rows" /\ pc' = "cells" /\ UNCHANGED <<tmp, s, r>> /\ c' = 1 /\ p' = 1
    BY <1>6 DEF BeginRow
  <2>3. \A x \in LocalPaths(Row') : x[1] \in Nat \ {0} /\ x[2] \in Nat \ {0}
    <3>1. s \in DOMAIN book /\ r \in 1 .. Len(Rows(s))
      BY <1>a, <1>6, WorkbooksAssumption DEF BeginRow, TypeOK, InSheet
    <3>2. Row \in Seq(CellType)
      BY <1>a, <3>1, BookTyped DEF Row
    <3>3. Row' = Row
      BY <1>b, <2>1 DEF Row, Rows
    <3>4. ASSUME NEW x \in LocalPaths(Row)
          PROVE  x[1] \in Nat \ {0} /\ x[2] \in Nat \ {0}
      <4>1. x[1] \in 1 .. Len(Row) /\ x[2] \in 1 .. Len(Row[x[1]].paths)
        BY <3>2, LocalPathsAre
      <4>2. Len(Row) \in Nat /\ Len(Row[x[1]].paths) \in Nat
        BY <3>2, <4>1 DEF CellType
      <4> QED
        BY <4>1, <4>2
    <3> QED
      BY <3>3, <3>4
  <2>4. Copied' = {}
    <3>1. Passed' = {}
      BY <2>1, <2>3 DEF Passed
    <3> QED
      BY <3>1 DEF Copied
  <2>5. IsFiniteSet(tmp.attached) /\ tmp.attached = FilesDone
    BY <1>c, <2>1 DEF AttachedSoFar
  <2> QED
    BY <1>b, <1>c, <2>1, <2>4, <2>5, WithinRow
<1>7. CASE AcceptCell
  <2>1. /\ pc = "cells" /\ pc' = pc /\ UNCHANGED <<tmp, s, r>> /\ c' = c + 1 /\ p' = 1
        /\ c <= Len(Row) /\ p > Len(TheCell.paths)
    BY <1>7 DEF AcceptCell, AtCell, PathsDone, NextCell
  <2>2. /\ Len(Row) \in Nat /\ c \in Nat \ {0} /\ p \in Nat \ {0}
        /\ \A x \in LocalPaths(Row) :
             /\ x[1] \in 1 .. Len(Row) /\ x[1] \in Nat \ {0} /\ x[2] \in Nat \ {0}
             /\ x[2] <= Len(Row[x[1]].paths)
        /\ \A i \in 1 .. Len(Row) : Len(Row[i].paths) \in Nat
    BY <1>a, <2>1, PathsOfRow
  <2>3. /\ IsFiniteSet(tmp.attached) /\ p <= 2 /\ \A i \in 1 .. c - 1 : Len(Row[i].paths) <= 1
        /\ tmp.attached = FilesDone \cup {<<s, r, x[1]>> : x \in Copied}
    BY <1>c, <2>1 DEF AttachedSoFar
  <2>4. c \in 1 .. Len(Row) /\ TheCell = Row[c] /\ Len(Row[c].paths) \in Nat
        /\ Len(Row[c].paths) <= 1
    BY <2>1, <2>2, <2>3 DEF TheCell
  <2>5. \A i \in 1 .. c' - 1 : Len(Row[i].paths) <= 1
    <3>1. \A i \in 1 .. c' - 1 : i \in 1 .. c - 1 \/ i = c
      BY <2>1, <2>2
    <3> QED
      BY <2>3, <2>4, <3>1
  <2>6. Copied' = Copied
    <3>1. Row' = Row
      BY <1>b, <2>1 DEF Row, Rows
    <3>2. \A x \in LocalPaths(Row) :
            /\ (x[1] < c + 1 \/ (x[1] = c + 1 /\ x[2] < 1)) <=> x[1] <= c
            /\ x[1] = c => x[2] < p /\ Len(Row[c].paths) = 1
      <4> TAKE x \in LocalPaths(Row)
      <4>1. x[1] \in Nat \ {0} /\ x[2] \in Nat \ {0} /\ c \in Nat \ {0} /\ p \in Nat \ {0}
        BY <2>2
      <4>2. x[1] = c => x[2] <= Len(Row[c].paths)
        BY <2>2
      <4>3. Len(Row[c].paths) \in Nat /\ Len(Row[c].paths) <= 1 /\ p > Len(Row[c].paths)
        BY <2>1, <2>4
      <4> DEFINE n == Len(Row[c].paths)
                 i == x[1]
                 j == x[2]
      <4> HIDE DEF n, i, j
      <4>4. /\ (i < c + 1 \/ (i = c + 1 /\ j < 1)) <=> i <= c
            /\ i = c => j < p /\ n = 1
        <5>1. /\ i \in Nat \ {0} /\ j \in Nat \ {0} /\ c \in Nat \ {0} /\ p \in Nat \ {0}
              /\ n \in Nat /\ n <= 1 /\ p > n /\ (i = c => j <= n)
          BY <4>1, <4>2, <4>3 DEF n, i, j
        <5> QED
          BY <5>1
      <4> QED
        BY <4>4 DEF n, i, j
    <3>3. \A x \in LocalPaths(Row) : x \in Copied' <=> x[1] <= c
      <4> TAKE x \in LocalPaths(Row)
      <4>1. x \in Copied' <=> /\ x[1] < c + 1 \/ (x[1] = c + 1 /\ x[2] < 1)
                              /\ x[1] < c + 1 \/ Len(TheCell'.paths) = 1
        BY <2>1, <3>1 DEF Copied, Passed
      <4>2. x[1] <= c => x[1] < c + 1
        BY <2>2
      <4> QED
        BY <3>2, <4>1, <4>2
    <3>4. \A x \in LocalPaths(Row) : x \in Copied <=> x[1] <= c
      BY <2>2, <2>4, <3>2 DEF Copied, Passed
    <3>5. Copied \subseteq LocalPaths(Row) /\ Copied' \subseteq LocalPaths(Row)
      BY <3>1 DEF Copied, Passed
    <3> QED
      BY <3>3, <3>4, <3>5
  <2> QED
    BY <1>b, <1>c, <2>1, <2>3, <2>5, <2>6, WithinRow
<1>8. CASE AttachFile
  <2>1. /\ pc = "cells" /\ pc' = pc /\ UNCHANGED <<s, r, c>> /\ p' = p + 1
        /\ c <= Len(Row) /\ p <= Len(TheCell.paths) /\ ~PathRejected
        /\ tmp' = IF Len(TheCell.paths) > 1 THEN tmp
                  ELSE [tmp EXCEPT !.attached = @ \cup {<<s, r, c>>}]
    BY <1>8 DEF AttachFile, AtPath, AtCell
  <2>2. /\ Len(Row) \in Nat /\ c \in Nat \ {0} /\ p \in Nat \ {0}
        /\ \A x \in LocalPaths(Row) :
             /\ x = <<x[1], x[2]>> /\ x[1] \in Nat \ {0} /\ x[2] \in Nat \ {0}
             /\ x[2] <= Len(Row[x[1]].paths)
        /\ \A i \in 1 .. Len(Row) : Len(Row[i].paths) \in Nat
        /\ \A i \in 1 .. Len(Row) : \A q \in 1 .. Len(Row[i].paths) :
              Row[i].paths[q] = "local" => <<i, q>> \in LocalPaths(Row)
    BY <1>a, <2>1, PathsOfRow
  <2>3. /\ IsFiniteSet(tmp.attached) /\ \A i \in 1 .. c - 1 : Len(Row[i].paths) <= 1
        /\ tmp.attached = FilesDone \cup {<<s, r, x[1]>> : x \in Copied}
    BY <1>c, <2>1 DEF AttachedSoFar
  <2>4. c \in 1 .. Len(Row) /\ TheCell = Row[c] /\ Len(Row[c].paths) \in Nat
    BY <2>1, <2>2 DEF TheCell
  <2>5. /\ p = 1 /\ p' = 2 /\ 1 <= Len(Row[c].paths)
        /\ Len(Row[c].paths) = 1 => Row[c].paths[1] = "local"
    <3>1. ~(p > 1)
      BY <1>c, <2>1 DEF PathRejected
    <3>2. p = 1
      BY <2>2, <3>1
    <3>3. Len(TheCell.paths) = 1 => Path = "local"
      BY <1>8 DEF AttachFile
    <3>4. Path = Row[c].paths[1]
      BY <2>4, <3>2 DEF Path
    <3> QED
      BY <2>1, <2>4, <3>2, <3>3, <3>4
  <2>6. Row' = Row /\ TheCell' = TheCell
    BY <1>b, <2>1 DEF Row, Rows, TheCell
  <2>7. \A x \in LocalPaths(Row) :
          /\ x \in Copied <=> x[1] < c
          /\ x \in Copied' <=> x[1] < c \/ (x[1] = c /\ x[2] < 2 /\ Len(Row[c].paths) = 1)
    BY <2>1, <2>2, <2>4, <2>5, <2>6 DEF Copied, Passed
  <2>8. Copied \subseteq LocalPaths(Row) /\ Copied' \subseteq LocalPaths(Row)
    BY <2>6 DEF Copied, Passed
  <2>9. CASE Len(Row[c].paths) > 1
    <3>1. Len(Row[c].paths) # 1 /\ tmp' = tmp
      <4>1. TheCell = Row[c]
        BY <2>4
      <4>2. Len(Row[c].paths) # 1
        <5>1. \A n \in Nat : n > 1 => n # 1
          OBVIOUS
        <5> QED
          BY <2>4, <2>9, <5>1, Zenon
      <4>3. Len(TheCell.paths) > 1
        BY <2>9, <4>1
      <4>4. tmp' = tmp
        BY <2>1, <4>3, Zenon
      <4> QED
        BY <4>2, <4>4
    <3>2. Copied' = Copied
      BY <2>7, <2>8, <3>1
    <3> QED
      <4>1. /\ IsFiniteSet(tmp'.attached)
            /\ tmp'.attached = FilesDone \cup {<<s, r, x[1]>> : x \in Copied'}
        BY <2>3, <3>1, <3>2, Zenon
      <4>2. p' <= 2 /\ \A i \in 1 .. c' - 1 : Len(Row[i].paths) <= 1
        BY <2>1, <2>3, <2>5
      <4> QED
        BY <1>b, <1>c, <2>1, <4>1, <4>2, WithinRow
  <2>10. CASE Len(Row[c].paths) = 1
    <3>1. tmp'.attached = tmp.attached \cup {<<s, r, c>>}
      BY <1>a, <2>1, <2>4, <2>10 DEF TypeOK, Contents
    <3>2. <<c, 1>> \in LocalPaths(Row)
      BY <2>2, <2>4, <2>5, <2>10
    <3>3. \A x \in LocalPaths(Row) : x[1] = c => x = <<c, 1>>
      <4> SUFFICES ASSUME NEW x \in LocalPaths(Row), x[1] = c PROVE x = <<c, 1>>
        OBVIOUS
      <4>1. x = <<x[1], x[2]>> /\ x[2] \in Nat \ {0} /\ x[2] <= 1
        BY <2>2, <2>10
      <4>2. x[2] = 1
        BY <4>1
      <4> QED
        BY <4>1, <4>2
    <3>4. Copied' = Copied \cup {<<c, 1>>}
      <4>1. \A x \in LocalPaths(Row) : x \in Copied' <=> x \in Copied \/ x = <<c, 1>>
        <5> TAKE x \in LocalPaths(Row)
        <5>1. x = <<c, 1>> => x[1] = c /\ x[2] = 1
          OBVIOUS
        <5>2. x[1] = c => x[2] = 1
          BY <3>3
        <5>3. 1 < 2
          OBVIOUS
        <5> QED
          BY <2>7, <2>10, <3>3, <5>1, <5>2, <5>3
      <4> QED
        BY <2>8, <3>2, <4>1
    <3>5. {<<s, r, x[1]>> : x \in Copied'} = {<<s, r, x[1]>> : x \in Copied} \cup {<<s, r, c>>}
      <4> DEFINE new == <<c, 1>>
      <4>1. Copied' = Copied \cup {new} /\ new[1] = c
        BY <3>4
      <4> HIDE DEF new
      <4> QED
        BY <4>1, Zenon
    <3>6. IsFiniteSet(tmp'.attached)
      <4> DEFINE old == tmp.attached
                 new == <<s, r, c>>
      <4> HIDE DEF old, new
      <4>1. IsFiniteSet(old)
        BY <2>3 DEF old
      <4>2. IsFiniteSet(old \cup {new})
        BY <4>1, FS_AddElement
      <4> QED
        BY <3>1, <4>2 DEF old, new
    <3> QED
      BY <1>b, <1>c, <2>1, <2>3, <2>5, <3>1, <3>5, <3>6, WithinRow
  <2> QED
    <3>1. \A n \in Nat : 1 <= n => n = 1 \/ n > 1
      OBVIOUS
    <3>2. 1 <= Len(Row[c].paths)
      BY <2>1, <2>4, <2>5, Zenon
    <3> QED
      BY <2>4, <2>9, <2>10, <3>1, <3>2, Zenon
<1>9. CASE WriteXml
  <2>1. /\ pc = "cells" /\ pc' = "rows" /\ UNCHANGED s /\ r' = r + 1 /\ c > Len(Row)
        /\ tmp' = [tmp EXCEPT !.xmls = @ \cup {item_id}]
    BY <1>9, <1>c DEF WriteXml
  <2>2. tmp'.attached = tmp.attached
    BY <1>a, <2>1 DEF TypeOK, Contents
  <2>3. /\ Len(Row) \in Nat /\ c \in Nat \ {0}
        /\ \A x \in LocalPaths(Row) :
             /\ x[1] \in 1 .. Len(Row) /\ x[1] \in Nat \ {0} /\ x[2] \in Nat \ {0}
             /\ x[2] <= Len(Row[x[1]].paths)
        /\ \A i \in 1 .. Len(Row) : Len(Row[i].paths) \in Nat
    BY <1>a, <2>1, PathsOfRow
  <2>4. /\ IsFiniteSet(tmp.attached) /\ \A i \in 1 .. c - 1 : Len(Row[i].paths) <= 1
        /\ tmp.attached = FilesDone \cup {<<s, r, x[1]>> : x \in Copied}
        /\ \A y \in RowsDone : \A x \in RowFiles(y) : x[2] = 1
    BY <1>c, <2>1 DEF AttachedSoFar
  <2> DEFINE z == <<s, r>>
  <2>5. RowFiles(z) = LocalPaths(Row) /\ Attached(z) = {<<s, r, x[1]>> : x \in LocalPaths(Row)}
    BY DEF RowFiles, Attached, Row
  <2>6. Copied = LocalPaths(Row) /\ \A x \in LocalPaths(Row) : x[2] = 1
    BY <2>1, <2>3, <2>4 DEF Copied, Passed
  <2>7. RowsDone' = RowsDone \cup {z}
    <3>1. r \in Nat \ {0}
      BY <1>a DEF TypeOK
    <3>2. 1 .. r' - 1 = (1 .. r - 1) \cup {r}
      BY <2>1, <3>1
    <3>3. Before(s)' = Before(s)
      BY <1>b, <2>1 DEF Before, Rows
    <3> QED
      BY <2>1, <3>2, <3>3 DEF RowsDone, InSheet
  <2>8. \A y : RowFiles(y)' = RowFiles(y) /\ Attached(y)' = Attached(y)
    BY <1>b DEF RowFiles, Attached, Rows
  <2> HIDE DEF z
  <2>9. FilesDone' = FilesDone \cup Attached(z)
    <3> DEFINE F(y) == Attached(y)
               done == RowsDone
    <3>1. FilesDone' = UNION {F(y) : y \in done \cup {z}} /\ FilesDone = UNION {F(y) : y \in done}
      BY <2>7, <2>8 DEF FilesDone
    <3> HIDE DEF F, done
    <3>2. UNION {F(y) : y \in done \cup {z}} = (UNION {F(y) : y \in done}) \cup F(z)
      OBVIOUS
    <3> QED
      BY <3>1, <3>2 DEF F, done
  <2>10. tmp'.attached = FilesDone'
    BY <2>2, <2>4, <2>5, <2>6, <2>9
  <2>11. \A y \in RowsDone' : \A x \in RowFiles(y) : x[2] = 1
    BY <2>4, <2>5, <2>6, <2>7
  <2> QED
    BY <2>1, <2>2, <2>4, <2>8, <2>10, <2>11 DEF AttachedSoFar
<1>10. ASSUME RejectCell \/ ConfigMissing \/ TakeLocalFile \/ TakeRemoteFile PROVE FALSE
  BY <1>10, <1>c DEF RejectCell, ConfigMissing, TakeLocalFile, TakeRemoteFile, PathRejected
<1>11. ASSUME ZipRow \/ ZipRowFails \/ ZipRowAborts \/ EndRow PROVE FALSE
  BY <1>11, <1>c DEF ZipRow, ZipRowFails, ZipRowAborts, EndRow, IInv, ModeFits
<1>12. ASSUME RefuseIndexOption \/ NoReadableSheet \/ MakeTempdirFails \/ BeginRowFails
             \/ PathUnconvertible \/ CopyNeverEnds \/ TakeLocalFileFails \/ AttachFileFails
             \/ WriteXmlFails \/ EndSheetFails \/ PackAborts \/ Cleanup \/ Terminated
       PROVE  FALSE
  BY <1>12 DEF RefuseIndexOption, NoReadableSheet, MakeTempdirFails, BeginRowFails,
     PathUnconvertible, CopyNeverEnds, TakeLocalFileFails, AttachFileFails, WriteXmlFails,
     EndSheetFails, PackAborts, Cleanup,
     Terminated, ErrorInternal, End, vars
<1>13. ASSUME SkipPack \/ NothingToPack \/ Pack \/ PackFails PROVE FALSE
  BY <1>13 DEF SkipPack, NothingToPack, Pack, PackFails
<1> QED
  BY <1>1, <1>2, <1>3, <1>4, <1>5, <1>6, <1>7, <1>8, <1>9, <1>10, <1>11, <1>12, <1>13 DEF Next

LEMMA AttachedInit == Init => AttachedSoFar
<1> SUFFICES ASSUME Init PROVE AttachedSoFar
  OBVIOUS
<1>1. pc = "start" /\ s = 1 /\ tmp.attached = {}
  BY DEF Init, Empty
<1>2. RowsDone = {}
  <2>1. 1 .. s - 1 = {}
    BY <1>1
  <2> QED
    BY <1>1, <2>1 DEF RowsDone, Before, InSheet
<1>3. FilesDone = {}
  BY <1>2 DEF FilesDone
<1>4. IsFiniteSet({})
  BY FS_EmptySet
<1> QED
  BY <1>1, <1>2, <1>3, <1>4 DEF AttachedSoFar

-----------------------------------------------------------------------------
(* The XML files and the index.  A step that makes none and merges none.   *)
LEMMA SameMerge ==
  ASSUME MergedSoFar, UNCHANGED <<mode, book, s, item_id, count>>,
         tmp'.zips = tmp.zips, tmp'.xmls = tmp.xmls, tmp'.index = tmp.index,
         pc' \in {"start", "sheets", "rows", "cells", "endsheet"}
           => pc \in {"start", "sheets", "rows", "cells", "endsheet"},
         pc' \in {"start", "sheets"} => pc \in {"start", "sheets"},
         pc' \in {"sheets", "pack"} => pc \in {"sheets", "pack"} \/ s = 1
  PROVE  MergedSoFar'
BY DEF MergedSoFar

LEMMA MergedInit == Init => MergedSoFar
<1> SUFFICES ASSUME Init PROVE MergedSoFar
  OBVIOUS
<1>1. pc = "start" /\ s = 1 /\ item_id = 1 /\ count = 1
      /\ tmp.zips = {} /\ tmp.xmls = {} /\ tmp.index = {}
  BY DEF Init, Empty, FirstId
<1>2. 1 .. item_id - 1 = {}
  BY <1>1
<1> QED
  BY <1>1, <1>2 DEF MergedSoFar

LEMMA MergedStep ==
  IInv /\ TypeOK' /\ NumberedSoFar /\ MergedSoFar /\ Next => MergedSoFar'
<1> SUFFICES ASSUME IInv, TypeOK', NumberedSoFar, MergedSoFar, Next
             PROVE  MergedSoFar'
  OBVIOUS
<1> USE DEF loops, counts
<1>a. TypeOK /\ s \in Nat \ {0} /\ item_id \in Nat \ {0}
  BY WorkbooksAssumption, SMTT(30) DEF IInv, TypeOK
<1>b. pc = "start" => s = 1
  BY DEF NumberedSoFar
<1>1. CASE RefuseIndexOption \/ NoReadableSheet \/ MakeTempdir \/ MakeTempdirFails
           \/ ConfigMissing \/ AllSheetsDone \/ BeginRow \/ BeginRowFails \/ AllRowsDone
  BY <1>b, <1>1, SameMerge
  DEF RefuseIndexOption, NoReadableSheet, MakeTempdir, MakeTempdirFails, ConfigMissing,
      AllSheetsDone, BeginRow, BeginRowFails, AllRowsDone, Accepted, ErrorInternal, End
<1>2. CASE RejectCell \/ AcceptCell \/ PathUnconvertible \/ CopyNeverEnds \/ TakeLocalFile
           \/ TakeLocalFileFails \/ TakeRemoteFile \/ AttachFileFails \/ WriteXmlFails \/ ZipRowAborts \/ EndSheetFails
  BY <1>2, SameMerge
  DEF RejectCell, AcceptCell, PathUnconvertible, CopyNeverEnds, TakeLocalFile,
      TakeLocalFileFails, TakeRemoteFile, AttachFileFails, WriteXmlFails, ZipRowAborts, EndSheetFails, AtPath, AtCell,
      ErrorInternal
<1>3. CASE SkipPack \/ NothingToPack \/ Pack \/ PackFails \/ PackAborts \/ Cleanup
  BY <1>3, SameMerge
  DEF SkipPack, NothingToPack, Pack, PackFails, PackAborts, Cleanup, ErrorInternal, End
<1>4. CASE Terminated
  BY <1>4, SameMerge DEF Terminated, vars
<1>5. CASE OpenSheet
  <2>1. /\ UNCHANGED <<mode, book, s, item_id, tmp>> /\ count' = item_id
        /\ pc = "sheets" /\ pc' = "rows"
    BY <1>5 DEF OpenSheet
  <2> QED
    BY <2>1 DEF MergedSoFar
<1>6. CASE AttachFile
  <2>1. tmp'.zips = tmp.zips /\ tmp'.xmls = tmp.xmls /\ tmp'.index = tmp.index
    BY <1>a, <1>6 DEF AttachFile, TypeOK, Contents
  <2> QED
    BY <1>6, <2>1, SameMerge DEF AttachFile, AtPath, AtCell
<1>7. CASE WriteXml
  <2>1. UNCHANGED <<mode, book, s, count>> /\ pc = "cells"
    BY <1>7 DEF WriteXml
  <2>2. CASE pc' = "zip" /\ UNCHANGED <<tmp, item_id>>
    BY <2>1, <2>2, SameMerge
  <2>3. CASE /\ tmp' = [tmp EXCEPT !.xmls = @ \cup {item_id}]
             /\ item_id' = item_id + 1 /\ pc' = "rows"
    <3>1. /\ tmp'.zips = tmp.zips /\ tmp'.xmls = tmp.xmls \cup {item_id}
          /\ tmp'.index = tmp.index
      BY <1>a, <2>3 DEF TypeOK, Contents
    <3>2. 1 .. item_id' - 1 = (1 .. item_id - 1) \cup {item_id}
      BY <1>a, <2>3
    <3> QED
      BY <2>1, <2>3, <3>1, <3>2 DEF MergedSoFar
  <2> QED
    BY <1>7, <2>2, <2>3 DEF WriteXml, NextItemId
<1>8. CASE ZipRow \/ ZipRowFails \/ EndRow
  <2>1. mode' = mode /\ ~mode.compat /\ ~mode.index
    BY <1>8 DEF ZipRow, ZipRowFails, EndRow, IInv, ModeFits
  <2> QED
    BY <2>1 DEF MergedSoFar
<1>9. CASE EndSheet
  <2>1. /\ UNCHANGED <<mode, book, item_id, count>> /\ pc = "endsheet" /\ tmp' = MergeRowset
        /\ (s' = s + 1 /\ pc' = "sheets") \/ (s' = s /\ pc' = "pack")
    BY <1>9 DEF EndSheet
  <2>2. tmp'.zips = tmp.zips
    BY <1>a, <2>1 DEF MergeRowset, TypeOK, Contents
  <2>3. mode.index => tmp'.xmls = tmp.xmls \ RowXmls /\ tmp'.index = {RowXmls}
    BY <1>a, <2>1 DEF MergeRowset, TypeOK, Contents
  <2>4. s' # 1 \/ pc' = "pack"
    BY <1>a, <2>1
  <2>5. ASSUME mode.index, Len(book) = 1, s' = 2
        PROVE  tmp'.index = {1 .. item_id - 1} /\ tmp'.xmls = {}
    <3>1. s = 1
      <4>1. s <= 1
        BY <1>a, <2>1, <2>5 DEF TypeOK, InSheet
      <4> QED
        BY <1>a, <4>1
    <3>2. count = 1 /\ tmp.xmls = 1 .. item_id - 1
      BY <2>1, <2>5, <3>1 DEF MergedSoFar
    <3>3. RowXmls = 1 .. item_id - 1
      BY <3>2 DEF RowXmls
    <3> QED
      BY <2>3, <2>5, <3>2, <3>3
  <2> QED
    BY <2>1, <2>2, <2>4, <2>5 DEF MergedSoFar
<1> QED
  BY <1>1, <1>2, <1>3, <1>4, <1>5, <1>6, <1>7, <1>8, <1>9 DEF Next

-----------------------------------------------------------------------------
(* There are as many copies as files the rows refer to: where no cell has  *)
(* a second line, the name of a copy tells which file it is.               *)
LEMMA OneCopyEach ==
  ASSUME TypeOK, \A y \in RowsDone : \A x \in RowFiles(y) : x[2] = 1,
         RowsDone = Before(Len(book) + 1), IsFiniteSet(FilesDone)
  PROVE  Cardinality(FilesDone) =
           Cardinality(UNION {{<<y, x>> : x \in RowFiles(y)} : y \in RowsDone})
<1> DEFINE T == UNION {{<<y, x>> : x \in RowFiles(y)} : y \in RowsDone}
           f == [t \in T |-> <<t[1][1], t[1][2], t[2][1]>>]
<1>1. ASSUME NEW y \in RowsDone
      PROVE  /\ y = <<y[1], y[2]>>
             /\ \A x \in RowFiles(y) : x = <<x[1], x[2]>>
  <2>1. PICK k \in 1 .. (Len(book) + 1) - 1 : y \in {k} \X DOMAIN Rows(k)
    BY DEF Before
  <2>2. k \in DOMAIN book
    <3>1. book \in Seq(SheetType)
      BY WorkbooksAssumption DEF TypeOK
    <3>2. 1 .. (Len(book) + 1) - 1 = 1 .. Len(book) /\ DOMAIN book = 1 .. Len(book)
      BY <3>1
    <3> QED
      BY <3>2
  <2>3. y = <<y[1], y[2]>> /\ y[1] = k /\ y[2] \in DOMAIN Rows(k)
    BY <2>1
  <2>4. Rows(y[1])[y[2]] \in Seq(CellType)
    <3>1. Rows(k) \in Seq(Seq(CellType))
      BY <2>2, BookTyped
    <3> QED
      BY <2>3, <3>1
  <2>5. \A x \in RowFiles(y) : x = <<x[1], x[2]>>
    BY <2>4, LocalPathsAre DEF RowFiles
  <2> QED
    BY <2>3, <2>5
<1>2. ASSUME NEW t \in T
      PROVE  /\ t = <<t[1], t[2]>> /\ t[1] \in RowsDone /\ t[2] \in RowFiles(t[1])
             /\ t[1] = <<t[1][1], t[1][2]>> /\ t[2] = <<t[2][1], 1>>
  <2>1. PICK y \in RowsDone : \E x \in RowFiles(y) : t = <<y, x>>
    OBVIOUS
  <2>2. PICK x \in RowFiles(y) : t = <<y, x>>
    BY <2>1
  <2> QED
    BY <1>1, <2>2
<1>3. f \in Injection(T, FilesDone)
  <2>1. ASSUME NEW t \in T PROVE f[t] \in FilesDone
    <3>1. f[t] \in Attached(t[1]) /\ t[1] \in RowsDone
      BY <1>2 DEF Attached
    <3> QED
      BY <3>1 DEF FilesDone
  <2>2. ASSUME NEW t \in T, NEW u \in T, f[t] = f[u] PROVE t = u
    <3>1. t[1][1] = u[1][1] /\ t[1][2] = u[1][2] /\ t[2][1] = u[2][1]
      BY <2>2
    <3>2. t[1] = u[1] /\ t[2] = u[2]
      BY <1>2, <3>1
    <3> QED
      BY <1>2, <3>2
  <2> HIDE DEF T
  <2> QED
    BY <2>1, <2>2 DEF Injection, IsInjective
<1>4. f \in Surjection(T, FilesDone)
  <2>1. ASSUME NEW z \in FilesDone PROVE \E t \in T : f[t] = z
    <3>1. PICK y \in RowsDone : z \in Attached(y)
      BY DEF FilesDone
    <3>2. PICK x \in RowFiles(y) : z = <<y[1], y[2], x[1]>>
      BY <3>1 DEF Attached
    <3>3. <<y, x>> \in T
      OBVIOUS
    <3>4. f[<<y, x>>] = z
      BY <3>2, <3>3
    <3> QED
      BY <3>3, <3>4
  <2>2. f \in [T -> FilesDone]
    BY <1>3 DEF Injection
  <2> HIDE DEF T, f
  <2> QED
    BY <2>1, <2>2 DEF Surjection
<1>5. ExistsBijection(FilesDone, T)
  <2> HIDE DEF T, f
  <2>1. f \in Bijection(T, FilesDone)
    BY <1>3, <1>4 DEF Bijection
  <2>2. ExistsBijection(T, FilesDone)
    BY <2>1 DEF ExistsBijection
  <2> QED
    BY <2>2, Fun_ExistsBijSymmetric
<1>6. Cardinality(T) = Cardinality(FilesDone)
  <2> HIDE DEF T
  <2> QED
    BY <1>5, FS_Bijection
<1> QED
  BY <1>6

(* What the temporary directory holds when the import file is made of it.  *)
LEMMA AllToPack ==
  ASSUME IInv, NumberedSoFar, AccountedSoFar, AttachedSoFar, MergedSoFar,
         pc = "pack", err = 0, mode.index => Len(book) = 1
  PROVE  /\ IdsIn(tmp) = Items \ reported
         /\ mode.compat => Cardinality(tmp.attached) =
                             Cardinality(UNION {{<<y, x>> : x \in LocalPaths(Rows(y[1])[y[2]])}
                                                 : y \in Before(Len(book) + 1)})
<1>a. TypeOK
  BY DEF IInv
<1>1. Items = 1 .. item_id - 1 /\ LastItem = item_id - 1
  <2> DEFINE n == Cardinality(Before(Len(book) + 1))
  <2>1. item_id = n + 1 /\ n \in Nat
    BY <1>a, RowsFinite, FS_CardinalityType DEF AccountedSoFar, Number
  <2> HIDE DEF n
  <2>2. 1 .. item_id - 1 = 1 .. n
    BY <2>1
  <2> QED
    BY <2>2 DEF n, Items, LastItem
<1>2. mode.compat => s = Len(book) + 1
  BY DEF AttachedSoFar
<1>3. IdsIn(tmp) = Items \ reported
  <2>1. CASE ~mode.index
    BY <1>1, <2>1 DEF AccountedSoFar
  <2>2. CASE mode.index
    <3>1. mode.compat /\ Len(book) = 1
      BY <2>2 DEF IInv, ModeFits
    <3>2. s = 2 /\ reported = {} /\ tmp.zips = {}
      BY <1>2, <3>1 DEF AccountedSoFar, MergedSoFar
    <3>3. tmp.index = {1 .. item_id - 1} /\ tmp.xmls = {}
      BY <2>2, <3>1, <3>2 DEF MergedSoFar
    <3>4. IdsIn(tmp) = 1 .. item_id - 1
      BY <3>2, <3>3 DEF IdsIn
    <3> QED
      BY <1>1, <3>2, <3>4
  <2> QED
    BY <2>1, <2>2
<1>4. ASSUME mode.compat
      PROVE  Cardinality(tmp.attached) =
               Cardinality(UNION {{<<y, x>> : x \in LocalPaths(Rows(y[1])[y[2]])}
                                   : y \in Before(Len(book) + 1)})
  <2>1. RowsDone = Before(Len(book) + 1)
    BY <1>2, <1>4 DEF RowsDone, InSheet
  <2>2. /\ \A y \in RowsDone : \A x \in RowFiles(y) : x[2] = 1
        /\ IsFiniteSet(tmp.attached) /\ tmp.attached = FilesDone
    BY <1>4 DEF AttachedSoFar
  <2>3. Cardinality(FilesDone) =
          Cardinality(UNION {{<<y, x>> : x \in RowFiles(y)} : y \in RowsDone})
    BY <1>a, <2>1, <2>2, OneCopyEach
  <2>4. UNION {{<<y, x>> : x \in RowFiles(y)} : y \in RowsDone}
          = UNION {{<<y, x>> : x \in LocalPaths(Rows(y[1])[y[2]])} : y \in Before(Len(book) + 1)}
    BY <2>1 DEF RowFiles
  <2> QED
    BY <2>2, <2>3, <2>4
<1> QED
  BY <1>3, <1>4

(* The import file holds what was there to be packed, from then on.        *)
LEMMA PublishStep ==
  IInv /\ NumberedSoFar /\ AccountedSoFar /\ AttachedSoFar /\ MergedSoFar
  /\ PublishedAccounts /\ [Next]_vars => PublishedAccounts'
<1> SUFFICES ASSUME IInv, NumberedSoFar, AccountedSoFar, AttachedSoFar, MergedSoFar,
                    PublishedAccounts, [Next]_vars,
                    out'.state = "complete", mode'.index => Len(book') = 1
             PROVE  PublishedAccounts'
  BY DEF PublishedAccounts
<1> USE DEF loops, counts
<1>1. mode' = mode /\ book' = book
  BY DEF Next, RefuseIndexOption, NoReadableSheet, MakeTempdir, MakeTempdirFails, OpenSheet,
         ConfigMissing, AllSheetsDone, BeginRow, BeginRowFails, AllRowsDone, RejectCell,
         AcceptCell, PathUnconvertible, CopyNeverEnds, TakeLocalFile, TakeLocalFileFails,
         TakeRemoteFile, AttachFile, AttachFileFails, WriteXml, WriteXmlFails, ZipRow, ZipRowFails, ZipRowAborts, EndRow,
         EndSheet, EndSheetFails, SkipPack, NothingToPack, Pack, PackFails, PackAborts,
         Cleanup, Terminated, vars
<1>2. /\ Items' = Items
      /\ UNION {{<<y, x>> : x \in LocalPaths(Rows(y[1])[y[2]])} : y \in Before(Len(book) + 1)}'
           = UNION {{<<y, x>> : x \in LocalPaths(Rows(y[1])[y[2]])} : y \in Before(Len(book) + 1)}
  BY <1>1 DEF Items, Before, Rows
<1>3. CASE Pack
  <2>1. pc = "pack" /\ err = 0 /\ out'.has = tmp /\ reported' = reported
    BY <1>3 DEF Pack
  <2>2. IdsIn(out.has)' = IdsIn(tmp)
    BY <2>1 DEF IdsIn
  <2> QED
    BY <1>1, <1>2, <2>1, <2>2, AllToPack DEF PublishedAccounts
<1>4. CASE out' = out
  <2>1. reported' = reported
    <3>1. pc \in {"cleanup", "done"}
      BY <1>4 DEF IInv, OutputInPhase
    <3> QED
      BY <3>1 DEF Next, RefuseIndexOption, NoReadableSheet, MakeTempdir, MakeTempdirFails,
         OpenSheet, ConfigMissing, AllSheetsDone, BeginRow, BeginRowFails, AllRowsDone,
         RejectCell, AcceptCell, PathUnconvertible, CopyNeverEnds, TakeLocalFile,
         TakeLocalFileFails, TakeRemoteFile, AttachFile, AttachFileFails, WriteXml, WriteXmlFails, ZipRow, ZipRowFails,
         ZipRowAborts, EndRow, EndSheet, EndSheetFails, SkipPack, NothingToPack, Pack,
         PackFails, PackAborts, Cleanup, Terminated, vars
  <2>2. IdsIn(out.has)' = IdsIn(out.has)
    BY <1>4 DEF IdsIn
  <2> QED
    BY <1>1, <1>2, <1>4, <2>1, <2>2 DEF PublishedAccounts
<1>5. CASE ~Pack /\ out' # out
  <2>1. out'.state = "partial"
    BY <1>5 DEF Next, RefuseIndexOption, NoReadableSheet, MakeTempdir, MakeTempdirFails,
         OpenSheet, ConfigMissing, AllSheetsDone, BeginRow, BeginRowFails, AllRowsDone,
         RejectCell, AcceptCell, PathUnconvertible, CopyNeverEnds, TakeLocalFile,
         TakeLocalFileFails, TakeRemoteFile, AttachFile, AttachFileFails, WriteXml, WriteXmlFails, ZipRow, ZipRowFails,
         ZipRowAborts, EndRow, EndSheet, EndSheetFails, SkipPack, NothingToPack,
         PackFails, PackAborts, Cleanup, Terminated, vars
  <2> QED
    BY <2>1
<1> QED
  BY <1>3, <1>4, <1>5

(* What the user is promised: a complete import file holds every item of   *)
(* the workbook that was not reported and, for XooNIps 3.4, a copy of each *)
(* file the rows refer to, for every workbook, option and fault.           *)
THEOREM EveryItemPublished == Spec => []PublishedAccounts
<1>1. Init => PublishedAccounts
  BY DEF Init, PublishedAccounts
<1>2. ASSUME AttachedSoFar, MergedSoFar, UNCHANGED vars
      PROVE  AttachedSoFar' /\ MergedSoFar'
  <2> USE DEF loops, counts
  <2>1. /\ \A y : RowFiles(y)' = RowFiles(y) /\ Attached(y)' = Attached(y)
        /\ RowsDone' = RowsDone /\ Copied' = Copied /\ Row' = Row
    BY <1>2 DEF RowFiles, Attached, Rows, RowsDone, Before, Copied, Passed, TheCell, Row, vars
  <2>2. FilesDone' = FilesDone
    BY <2>1 DEF FilesDone
  <2>3. AttachedSoFar'
    BY <1>2, <2>1, <2>2 DEF AttachedSoFar, vars
  <2>4. MergedSoFar'
    BY <1>2 DEF MergedSoFar, vars
  <2> QED
    BY <2>3, <2>4
<1>3. /\ IInv /\ IInv' /\ RowInv /\ AccountedSoFar
      /\ AttachedSoFar /\ MergedSoFar /\ PublishedAccounts /\ [Next]_vars
      => AttachedSoFar' /\ MergedSoFar' /\ PublishedAccounts'
  BY <1>2, AttachedStep, MergedStep, PublishStep DEF IInv, RowInv
<1> QED
  BY <1>1, <1>3, AttachedInit, MergedInit, Invariance, RowInvariance, AllAccounted, PTL
  DEF Spec
=============================================================================
