----------------------------- MODULE BiffReader -----------------------------
(***************************************************************************)
(* cexcel/cexcel.c and the record handlers cexcel/biff_*.c: the loop that  *)
(* reads the records of a workbook stream and fills the sheets of a book.  *)
(*                                                                         *)
(* A stream is a sequence of records; the offset of a record is its place  *)
(* in it.  Reading past the end stands for a stream that ends, is cut off, *)
(* or holds a record cexcel_record_read() refuses.  Bytes, string decoding *)
(* and number formats are left out: a record carries the texts it yields.  *)
(***************************************************************************)
EXTENDS Integers, Sequences, SequencesExt

CONSTANTS
  Streams,  \* the workbook streams the loop may be given
  Texts,    \* texts of cells and names of sheets, and NoText
  NoText,   \* a text whose code page is unknown or that cannot be converted
  Blank,    \* the empty text
  NoName,   \* name of the sheet of a file that has no workbook globals
  LastWord  \* highest number a column, a CEXCEL_WORD, can have: 0xffff

BofRecords   == [id : {"BOF"}, btype : STRING, stream : STRING]
SheetRecords == [id : {"BOUNDSHEET"}, name : Texts, offset : Nat, listed : BOOLEAN]
TextRecords  == [id : {"SST"}, texts : Seq(Texts)]
CellRecords  ==
  [id : {"BLANK", "BOOLERR", "LABEL", "INTEGER", "NUMBER", "RK", "RSTRING"},
   pos : Nat \X Nat, text : Texts, ixfe : BOOLEAN]
  \cup [id : {"LABELSST"}, pos : Nat \X Nat, idx : Nat]
  \cup [id : {"MULRK", "MULBLANK"}, pos : Nat \X Nat, texts : Seq(Texts)]
PlainRecords == [id : {"EOF", "FILEPASS", "OTHER"}] \cup [id : {"FORMAT"}, text : Texts]

ASSUME StreamsAssumption ==
  Streams \subseteq Seq(BofRecords \cup SheetRecords \cup TextRecords \cup CellRecords
                         \cup PlainRecords)

BiffTypes == {"BIFF2", "BIFF3", "BIFF4", "BIFF5", "BIFF8"}

VARIABLES
  stream,
  at,                   \* the record read next
  pc,                   \* "run" inside the loop, "done" after it; "adrift" in a
                        \* handler that does not return
  ret,                  \* CEXCEL_RETTYPE of the last record
  has_global, global_btype, sheet_btype,
  worksheet,            \* number of the sheet cells go to, 0 for NULL
  sheet,                \* context: <<offset, sheet number>> of BOUNDSHEETs
  sst,                  \* context: the shared strings
  book                  \* the sheets: name, offset and cells

ctx  == <<has_global, global_btype, sheet_btype, worksheet, sheet>>
vars == <<stream, at, pc, ret, ctx, sst, book>>

Init ==
  /\ stream \in Streams
  /\ at = 1 /\ pc = "run" /\ ret = "BADFILE"
  /\ has_global = FALSE
  /\ global_btype = "UNDEF" /\ sheet_btype = "UNDEF"
  /\ worksheet = 0 /\ sheet = {} /\ sst = <<>> /\ book = <<>>

-----------------------------------------------------------------------------
Record   == stream[at]
At(id)   == pc = "run" /\ at <= Len(stream) /\ Record.id = id

(* The loop goes on after a success and is left after anything else.       *)
Return(r) ==
  /\ ret' = r
  /\ at' = at + 1
  /\ pc' = IF r = "SUCCESS" THEN "run" ELSE "done"
  /\ UNCHANGED stream

EndOfStream ==
  /\ pc = "run" /\ at > Len(stream)
  /\ pc' = "done"
  /\ UNCHANGED <<stream, at, ret, ctx, sst, book>>

(* Records that change nothing modelled here: CONTINUE, CODEPAGE, XF and   *)
(* the ones the switch does not know.                                      *)
OtherRecord ==
  /\ At("OTHER")
  /\ Return("SUCCESS")
  /\ UNCHANGED <<ctx, sst, book>>

(* cexcel_record_data_str() returns NULL for a text it cannot convert; for *)
(* the handlers that is OUTOFMEMORY.                                       *)
Converted(text) == IF text = NoText THEN "OUTOFMEMORY" ELSE "SUCCESS"

Format ==
  /\ At("FORMAT")
  /\ Return(Converted(Record.text))
  /\ UNCHANGED <<ctx, sst, book>>

FilePass ==
  /\ At("FILEPASS")
  /\ Return("NOTIMPLEMENTED")
  /\ UNCHANGED <<ctx, sst, book>>

-----------------------------------------------------------------------------
AddSheet(name, offset) == Append(book, [name |-> name, offset |-> offset, cells |-> {}])
SheetsAt(offset)       == {k \in 1 .. Len(book) : <<offset, k>> \in sheet}

GlobalStream == Record.stream \in {"global", "workspace"}

(* The conditions biff_bof.c turns into BADFILE, in whatever order.        *)
BadBof ==
  \/ Record.btype \notin BiffTypes
  \/ Record.stream = "global" /\ Record.btype \notin {"BIFF5", "BIFF8"}
  \/ Record.stream = "workspace" /\ Record.btype = "BIFF2"
  \/ Record.stream # "other" /\ sheet_btype # "UNDEF"
  \/ GlobalStream /\ global_btype # "UNDEF"

BofRefused ==
  /\ At("BOF") /\ BadBof
  /\ Return("BADFILE")
  /\ UNCHANGED <<ctx, sst, book>>

(* A chart, macro or module substream.  The stream is moved behind the     *)
(* next EOF record, and then the loop is left because of the result.       *)
NextEof  == {n \in at + 1 .. Len(stream) : stream[n].id = "EOF"}
FirstEof == CHOOSE n \in NextEof : \A m \in NextEof : n <= m
AfterEof     == IF NextEof = {} THEN Len(stream) + 1 ELSE FirstEof + 1

BofUnsupported ==
  /\ At("BOF") /\ ~BadBof /\ Record.stream = "other"
  /\ ret' = IF NextEof = {} THEN "BADFILE" ELSE "NOTIMPLEMENTED"
  /\ at' = AfterEof /\ pc' = "done"
  /\ UNCHANGED <<stream, ctx, sst, book>>

BofGlobal ==
  /\ At("BOF") /\ ~BadBof /\ GlobalStream
  /\ global_btype' = Record.btype /\ has_global' = TRUE
  /\ Return("SUCCESS")
  /\ UNCHANGED <<sheet_btype, worksheet, sheet, sst, book>>

(* A sheet substream of a workbook that listed its sheets: cells go to the *)
(* sheet whose BOUNDSHEET named this offset.                               *)
BofSheet ==
  /\ At("BOF") /\ ~BadBof /\ Record.stream = "sheet" /\ has_global
  /\ sheet_btype' = Record.btype
  /\ \/ SheetsAt(at) = {} /\ worksheet' = worksheet /\ Return("BADFILE")
     \/ worksheet' \in SheetsAt(at) /\ Return("SUCCESS")
  /\ UNCHANGED <<has_global, global_btype, sheet, sst, book>>

(* The old formats have no workbook globals: the sheet is made here.  If a *)
(* BOUNDSHEET has come before and named this offset, its sheet is used.    *)
BofOldSheet ==
  /\ At("BOF") /\ ~BadBof /\ Record.stream = "sheet" /\ ~has_global
  /\ sheet_btype' = Record.btype /\ global_btype' = Record.btype
  /\ book' = AddSheet(NoName, at)
  /\ \/ /\ SheetsAt(at) = {}
        /\ sheet' = sheet \cup {<<at, Len(book) + 1>>} /\ worksheet' = Len(book) + 1
     \/ sheet' = sheet /\ worksheet' \in SheetsAt(at)
  /\ Return("SUCCESS")
  /\ UNCHANGED <<has_global, sst>>

\* Mutant: the worksheet is not let go of.
EofKeepingSheet ==
  /\ At("EOF")
  /\ sheet_btype' = "UNDEF"
  /\ Return(IF sheet_btype # "UNDEF" \/ global_btype # "UNDEF" THEN "SUCCESS" ELSE "BADFILE")
  /\ UNCHANGED <<has_global, global_btype, worksheet, sheet, sst, book>>
\* Mutant: the end of a substream is not noted.
EofUnnoticed ==
  /\ At("EOF")
  /\ worksheet' = 0
  /\ Return(IF sheet_btype # "UNDEF" \/ global_btype # "UNDEF" THEN "SUCCESS" ELSE "BADFILE")
  /\ UNCHANGED <<has_global, global_btype, sheet_btype, sheet, sst, book>>
Eof ==
  /\ At("EOF")
  /\ IF sheet_btype # "UNDEF"
     THEN sheet_btype' = "UNDEF" /\ worksheet' = 0 /\ Return("SUCCESS")
     ELSE /\ UNCHANGED <<sheet_btype, worksheet>>
          /\ Return(IF global_btype # "UNDEF" THEN "SUCCESS" ELSE "BADFILE")
  /\ UNCHANGED <<has_global, global_btype, sheet, sst, book>>

(* Hidden sheets, charts and macros are left out of the book.  A second    *)
(* sheet at an offset is in the book but not in the context.               *)
BoundSheet ==
  /\ At("BOUNDSHEET")
  /\ IF global_btype \notin {"BIFF5", "BIFF8"}
     THEN Return("BADFILE") /\ UNCHANGED <<sheet, book>>
     ELSE IF Record.name = NoText
     THEN Return("OUTOFMEMORY") /\ UNCHANGED <<sheet, book>>
     ELSE IF ~Record.listed
     THEN Return("SUCCESS") /\ UNCHANGED <<sheet, book>>
     ELSE /\ book' = AddSheet(Record.name, Record.offset)
          /\ IF SheetsAt(Record.offset) = {}
             THEN sheet' = sheet \cup {<<Record.offset, Len(book) + 1>>} /\ Return("SUCCESS")
             ELSE sheet' = sheet /\ Return("OUTOFMEMORY")
  /\ UNCHANGED <<has_global, global_btype, sheet_btype, worksheet, sst>>

(* The strings in front of one that cannot be converted stay.              *)
Sst ==
  /\ At("SST")
  /\ IF \E n \in DOMAIN Record.texts : Record.texts[n] = NoText
     THEN Return("OUTOFMEMORY") /\ \E n \in DOMAIN Record.texts :
            /\ Record.texts[n] = NoText /\ \A m \in 1 .. n - 1 : Record.texts[m] # NoText
            /\ sst' = sst \o SubSeq(Record.texts, 1, n - 1)
     ELSE Return("SUCCESS") /\ sst' = sst \o Record.texts
  /\ UNCHANGED <<ctx, book>>

-----------------------------------------------------------------------------
(* cexcel_sheet_set_cell() on the current worksheet: a cell that is there  *)
(* stays, a NULL worksheet is refused, and either way the record counts as *)
(* a success.                                                              *)
Taken(k, pos) == \E e \in book[k].cells : e[1] = pos

\* Mutants: a later record replaces the cell's entry; a run of cells loses its end.
AllOf(new)      == new
ButLastOf(new)  == {e \in new : Cardinality(new) = 1 \/ \E f \in new : f[1][2] > e[1][2]}
FirstOf(new) == {e \in new : ~Taken(worksheet, e[1])}

SetCells(new) ==
  IF worksheet = 0 THEN book' = book
  ELSE book' = [book EXCEPT ![worksheet].cells = @ \cup FirstOf(new)]

Cells(new) ==
  /\ SetCells(new)
  /\ Return("SUCCESS")
  /\ UNCHANGED <<ctx, sst>>

Refuse(r) == Return(r) /\ UNCHANGED <<ctx, sst, book>>

NoSheet == sheet_btype = "UNDEF"

BlankCell ==
  /\ At("BLANK")
  /\ IF NoSheet THEN Refuse("UNEXPECTED") ELSE Cells({<<Record.pos, Blank>>})

BoolErr ==
  /\ At("BOOLERR")
  /\ IF NoSheet THEN Refuse("UNEXPECTED") ELSE Cells({<<Record.pos, Record.text>>})

Label ==
  /\ At("LABEL")
  /\ IF NoSheet THEN Refuse("UNEXPECTED")
     ELSE IF Record.text = NoText THEN Refuse("OUTOFMEMORY")
     ELSE Cells({<<Record.pos, Record.text>>})

IntegerCell ==
  /\ At("INTEGER")
  /\ IF sheet_btype # "BIFF2" THEN Refuse("BADFILE") ELSE Cells({<<Record.pos, Record.text>>})

(* The format index of a BIFF2 number may lie in a record not supported.   *)
Number ==
  /\ At("NUMBER")
  /\ IF NoSheet THEN Refuse("BADFILE")
     ELSE IF sheet_btype = "BIFF2" /\ Record.ixfe THEN Refuse("NOTIMPLEMENTED")
     ELSE Cells({<<Record.pos, Record.text>>})

Rk ==
  /\ At("RK")
  /\ IF sheet_btype \in {"UNDEF", "BIFF2"} THEN Refuse("BADFILE")
     ELSE Cells({<<Record.pos, Record.text>>})

(* Only the workbook's type is looked at: outside a sheet the cell is lost *)
(* without an error.                                                       *)
RString ==
  /\ At("RSTRING")
  /\ IF global_btype \notin {"BIFF5", "BIFF8"} THEN Refuse("BADFILE")
     ELSE IF Record.text = NoText THEN Refuse("OUTOFMEMORY")
     ELSE Cells({<<Record.pos, Record.text>>})

LabelSst ==
  /\ At("LABELSST")
  /\ IF sheet_btype # "BIFF8" \/ Record.idx + 1 \notin DOMAIN sst
     THEN Refuse("UNEXPECTED")
     ELSE Cells({<<Record.pos, sst[Record.idx + 1]>>})

RunOfCells(pos, texts) ==
  {<<<<pos[1], pos[2] + n - 1>>, texts[n]>> : n \in DOMAIN texts}

(* The columns of MULRK and MULBLANK are counted from the first to the     *)
(* last of the record, by a counter of 16 bits: some number of that width  *)
(* has to be higher than the last column, or the counter starts over.      *)
LastColumn == Record.pos[2] + Len(Record.texts) - 1
ColumnsEnd == \E i \in 0 .. LastWord : i > LastColumn

MulRk ==
  /\ At("MULRK")
  /\ IF sheet_btype \notin {"BIFF5", "BIFF8"} THEN Refuse("BADFILE")
     ELSE ColumnsEnd /\ Cells(RunOfCells(Record.pos, Record.texts))

MulBlank ==
  /\ At("MULBLANK")
  /\ IF sheet_btype \notin {"BIFF5", "BIFF8"} THEN Refuse("BADFILE")
     ELSE ColumnsEnd /\ Cells(RunOfCells(Record.pos, [n \in DOMAIN Record.texts |-> Blank]))

(* What is read past the record, and set in a book nobody will see, is     *)
(* left out.                                                               *)
ColumnsNeverEnd ==
  /\ At("MULRK") \/ At("MULBLANK")
  /\ sheet_btype \in {"BIFF5", "BIFF8"} /\ ~ColumnsEnd
  /\ pc' = "adrift"
  /\ UNCHANGED <<stream, at, ret, ctx, sst, book>>

-----------------------------------------------------------------------------
Finished == pc \in {"done", "adrift"} /\ UNCHANGED vars

Next ==
  \/ EndOfStream \/ OtherRecord \/ Format \/ FilePass
  \/ BofRefused \/ BofUnsupported \/ BofGlobal \/ BofSheet \/ BofOldSheet
  \/ Eof \/ BoundSheet \/ Sst
  \/ BlankCell \/ BoolErr \/ Label \/ IntegerCell \/ Number \/ Rk \/ RString
  \/ LabelSst \/ MulRk \/ MulBlank \/ ColumnsNeverEnd
  \/ Finished

Spec == Init /\ [][Next]_vars

FairSpec == Spec /\ WF_vars(Next)

-----------------------------------------------------------------------------
Types == {"UNDEF"} \cup BiffTypes

(* Inside the loop there is a worksheet exactly while a sheet substream is *)
(* open: no handler that accepts a cell drops it for want of a sheet.  The *)
(* context leads an offset to one sheet of the book, each offset to its    *)
(* own, also after a list of sheets that was refused half way.             *)
WorksheetInSheet ==
  /\ pc = "run" => (worksheet # 0 <=> sheet_btype # "UNDEF")
  /\ worksheet \in 0 .. Len(book)
  /\ \A e, f \in sheet :
       e[2] \in 1 .. Len(book) /\ (e # f => e[1] # f[1] /\ e[2] # f[2])

(* n is in the substream that starts with the BOF of a worksheet at m.     *)
InSubstream(m, n) ==
  /\ m \in 1 .. n - 1 /\ m <= Len(stream)
  /\ stream[m].id = "BOF" /\ stream[m].stream = "sheet"
  /\ \A k \in m + 1 .. n - 1 : k <= Len(stream) => stream[k].id \notin {"BOF", "EOF"}

(* The shared strings of the first n records, in their order.              *)
TextsAt(n) == IF n <= Len(stream) /\ stream[n].id = "SST" THEN stream[n].texts ELSE <<>>
Strings[n \in Nat] == IF n = 0 THEN <<>> ELSE Strings[n - 1] \o TextsAt(n)

(* The cells record n describes, by position and text.                     *)
Shared(n, q) == IF q + 1 \in DOMAIN Strings[n - 1] THEN {Strings[n - 1][q + 1]} ELSE {}

Describes(n) ==
  LET x == stream[n] IN
  CASE x.id = "BLANK"    -> {<<x.pos, Blank>>}
    [] x.id = "LABELSST" -> {<<x.pos, text>> : text \in Shared(n, x.idx)}
    [] x.id = "MULRK"    -> RunOfCells(x.pos, x.texts)
    [] x.id = "MULBLANK" -> RunOfCells(x.pos, [q \in DOMAIN x.texts |-> Blank])
    [] x.id \in {"BOOLERR", "LABEL", "INTEGER", "NUMBER", "RK", "RSTRING"}
                         -> {<<x.pos, x.text>>}
    [] OTHER             -> {}

(* A sheet holds nothing but cells of its own substream, a shared string   *)
(* being the one its index meant; for a repeated position the first record *)
(* counts.                                                                 *)
CellsOfOwnSubstream ==
  \A k \in 1 .. Len(book) : \A e \in book[k].cells :
    \E n \in 1 .. at - 1 :
      /\ InSubstream(book[k].offset, n) /\ e \in Describes(n)
      /\ \A m \in book[k].offset .. n - 1 : \A f \in Describes(m) : f[1] # e[1]

(* Every cell of the first n records that is in a substream the context    *)
(* has a sheet for is in that sheet.                                       *)
Loaded(n) ==
  \A e \in sheet : \A m \in 1 .. n :
    InSubstream(e[1], m) => \A d \in Describes(m) : Taken(e[2], d[1])
LoadedAll == Loaded(Len(stream))

(* When the records ran out without an error nothing was lost.             *)
SuccessMeansLoaded ==
  pc = "done" /\ ret = "SUCCESS" /\ at > Len(stream) => LoadedAll

(* A workbook of the newer formats that has nothing in it the reader gives *)
(* up on: globals that list every worksheet at its place, the shared       *)
(* strings before their uses, and one substream after the other.           *)
ListedAt(o)   == {n \in DOMAIN stream : stream[n].id = "BOUNDSHEET" /\ stream[n].offset = o}
GlobalsEnd(g) == stream[g].id = "EOF" /\ \A n \in 2 .. g - 1 : stream[n].id # "EOF"

InGlobals(x) ==
  \/ x.id = "OTHER"
  \/ x.id = "FORMAT" /\ x.text # NoText
  \/ x.id = "BOUNDSHEET" /\ x.listed /\ x.name # NoText
  \/ x.id = "SST" /\ \A n \in DOMAIN x.texts : x.texts[n] # NoText

InWorksheet(x, btype, strings) ==
  \/ x.id \in {"OTHER", "BLANK", "BOOLERR", "NUMBER", "RK"}
  \/ x.id \in {"LABEL", "RSTRING"} /\ x.text # NoText
  \/ x.id = "LABELSST" /\ btype = "BIFF8" /\ x.idx < strings
  \/ x.id \in {"MULRK", "MULBLANK"} /\ x.pos[2] + Len(x.texts) <= LastWord

WellFormed ==
  \E g \in DOMAIN stream, btype \in {"BIFF5", "BIFF8"} :
    /\ GlobalsEnd(g) /\ stream[1] = [id |-> "BOF", btype |-> btype, stream |-> "global"]
    /\ \A n \in 2 .. g - 1 :
         /\ InGlobals(stream[n])
         /\ stream[n].id = "BOUNDSHEET" =>
              /\ ListedAt(stream[n].offset) = {n} /\ stream[n].offset \in g + 1 .. Len(stream)
              /\ stream[stream[n].offset].id = "BOF"
    /\ \A n \in g + 1 .. Len(stream) :
         \/ /\ stream[n] = [id |-> "BOF", btype |-> btype, stream |-> "sheet"]
            /\ stream[n - 1].id = "EOF" /\ ListedAt(n) # {}
         \/ /\ stream[n].id = "EOF" \/ InWorksheet(stream[n], btype, Len(Strings[g]))
            /\ stream[n - 1].id # "EOF"

(* Such a workbook is read to its end, without an error, and becomes a     *)
(* book of the listed sheets, in that order and with all their cells: what *)
(* BOF and EOF set for one substream does not stand in the way of another. *)
Listing == SelectSeq(stream, LAMBDA x : x.id = "BOUNDSHEET")
WellFormedLoads ==
  WellFormed =>
    <>(/\ pc = "done" /\ ret = "SUCCESS" /\ LoadedAll
       /\ Len(book) = Len(Listing)
       /\ \A k \in DOMAIN book :
            book[k].name = Listing[k].name /\ book[k].offset = Listing[k].offset)

(* biff_bof.c, before it gives up on a substream that is not a worksheet:  *)
(* "need to skip to eof".  The worksheets after it would then be read.     *)
UnsupportedSkipped ==
  pc = "done" => LoadedAll
=============================================================================
