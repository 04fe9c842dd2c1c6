-------------------------- MODULE BiffReaderProofs --------------------------
(***************************************************************************)
(* For every stream of records: the record loop of cexcel never handles a  *)
(* cell without a worksheet, a sheet is given the cells of its own         *)
(* substream only, and when the loop has come to the end they are all      *)
(* there.                                                                  *)
(***************************************************************************)
EXTENDS BiffReader, Recursion

(* The book is a sequence of something: what its sheets hold does not      *)
(* matter here, only how many there are.                                   *)
BookTyped == \E S : book \in Seq(S)

(* An entry of the context is a pair of an offset and a sheet's number.    *)
ContextTyped ==
  \A e \in sheet : e = <<e[1], e[2]>> /\ e[2] \in 1 .. Len(book)

OffsetsApart ==
  \A e, f \in sheet : e # f => e[1] # f[1] /\ e[2] # f[2]

CurrentSheet ==
  /\ worksheet \in 0 .. Len(book)
  /\ pc = "run" => (worksheet # 0 <=> sheet_btype # "UNDEF")

IInv == BookTyped /\ ContextTyped /\ OffsetsApart /\ CurrentSheet

(* A sheet that is appended has the next number.                           *)
LEMMA OneMoreSheet ==
  ASSUME BookTyped, NEW x, book' = Append(book, x)
  PROVE  BookTyped' /\ Len(book) \in Nat /\ Len(book') = Len(book) + 1
<1>1. PICK S : book \in Seq(S)
  BY DEF BookTyped
<1>2. book \in Seq(S \cup {x})
  BY <1>1
<1>3. book' \in Seq(S \cup {x}) /\ Len(book) \in Nat /\ Len(book') = Len(book) + 1
  BY <1>2
<1> QED
  BY <1>3 DEF BookTyped

(* Setting cells keeps the number of sheets.                               *)
LEMMA CellsKeepBook ==
  ASSUME BookTyped, NEW new, SetCells(new)
  PROVE  BookTyped' /\ Len(book') = Len(book)
<1>1. PICK S : book \in Seq(S)
  BY DEF BookTyped
<1>2. CASE worksheet = 0
  BY <1>1, <1>2 DEF SetCells, BookTyped
<1>3. CASE worksheet # 0
  <2> DEFINE x == [book[worksheet] EXCEPT !.cells = @ \cup FirstOf(new)]
             T == S \cup {x}
  <2>1. book' = [book EXCEPT ![worksheet] = x]
    BY <1>3 DEF SetCells
  <2>2. book \in Seq(T)
    BY <1>1
  <2> HIDE DEF x, T
  <2>3. x \in T
    BY DEF T
  <2>4. book' \in Seq(T) /\ Len(book') = Len(book)
    <3>1. book \in [1 .. Len(book) -> T] /\ Len(book) \in Nat
      BY <2>2
    <3>2. book' \in [1 .. Len(book) -> T]
      BY <2>1, <2>3, <3>1
    <3>3. book' \in Seq(T) /\ DOMAIN book' = 1 .. Len(book)
      BY <3>1, <3>2
    <3> QED
      BY <3>1, <3>3
  <2> QED
    BY <2>4 DEF BookTyped
<1> QED
  BY <1>2, <1>3

(* A step that leaves the context alone and keeps the number of sheets.    *)
LEMMA SameContext ==
  ASSUME IInv, UNCHANGED ctx, BookTyped', Len(book') = Len(book),
         pc = "run" \/ pc' = pc
  PROVE  IInv'
BY DEF IInv, ctx, ContextTyped, OffsetsApart, CurrentSheet

(* A record that cells are taken from, or one that is refused.             *)
LEMMA CellStep ==
  ASSUME IInv, pc = "run", NEW new, Cells(new)
  PROVE  IInv'
<1>1. SetCells(new) /\ UNCHANGED ctx
  BY DEF Cells
<1>2. BookTyped' /\ Len(book') = Len(book)
  BY <1>1, CellsKeepBook DEF IInv
<1> QED
  BY <1>1, <1>2, SameContext

LEMMA RefuseStep ==
  ASSUME IInv, pc = "run", UNCHANGED <<ctx, book>>
  PROVE  IInv'
<1>1. BookTyped' /\ Len(book') = Len(book)
  BY DEF IInv, BookTyped
<1> QED
  BY <1>1, SameContext

LEMMA InvInit == Init => IInv
<1> SUFFICES ASSUME Init PROVE IInv
  OBVIOUS
<1>1. book \in Seq({}) /\ Len(book) = 0
  BY DEF Init
<1> QED
  BY <1>1 DEF Init, IInv, BookTyped, ContextTyped, OffsetsApart, CurrentSheet

(* A listed sheet, or the sheet of an old file: appended to the book, and  *)
(* to the context unless its offset is taken.                              *)
LEMMA SheetAdded ==
  ASSUME IInv, NEW x, book' = Append(book, x), NEW o, SheetsAt(o) = {},
         sheet' = sheet \cup {<<o, Len(book) + 1>>}
  PROVE  BookTyped' /\ ContextTyped' /\ OffsetsApart'
<1>1. BookTyped' /\ Len(book) \in Nat /\ Len(book') = Len(book) + 1
  BY OneMoreSheet DEF IInv
<1>2. \A e \in sheet : e = <<e[1], e[2]>> /\ e[2] \in 1 .. Len(book) /\ e[1] # o
  BY DEF IInv, ContextTyped, SheetsAt
<1>3. ContextTyped'
  BY <1>1, <1>2 DEF ContextTyped
<1>4. OffsetsApart'
  <2> DEFINE new == <<o, Len(book) + 1>>
  <2>1. new[1] = o /\ new[2] = Len(book) + 1
    OBVIOUS
  <2>2. \A e \in sheet : e[1] # new[1] /\ e[2] # new[2]
    BY <1>1, <1>2, <2>1
  <2>3. \A e, f \in sheet : e # f => e[1] # f[1] /\ e[2] # f[2]
    BY DEF IInv, OffsetsApart
  <2> HIDE DEF new
  <2>4. sheet' = sheet \cup {new}
    BY DEF new
  <2> QED
    BY <2>2, <2>3, <2>4 DEF OffsetsApart
<1> QED
  BY <1>1, <1>3, <1>4

LEMMA SheetRefused ==
  ASSUME IInv, NEW x, book' = Append(book, x), sheet' = sheet
  PROVE  BookTyped' /\ ContextTyped' /\ OffsetsApart'
<1>1. BookTyped' /\ Len(book) \in Nat /\ Len(book') = Len(book) + 1
  BY OneMoreSheet DEF IInv
<1> QED
  BY <1>1 DEF IInv, ContextTyped, OffsetsApart

LEMMA InvStep == IInv /\ [Next]_vars => IInv'
<1> SUFFICES ASSUME IInv, [Next]_vars PROVE IInv'
  OBVIOUS
<1>1. CASE EndOfStream \/ ColumnsNeverEnd
  BY <1>1, RefuseStep DEF EndOfStream, ColumnsNeverEnd, At
<1>2. CASE OtherRecord \/ Format \/ FilePass \/ BofRefused \/ BofUnsupported \/ Sst
  BY <1>2, RefuseStep DEF OtherRecord, Format, FilePass, BofRefused, BofUnsupported, Sst, At
<1>3. CASE BofGlobal
  <2>1. UNCHANGED <<sheet_btype, worksheet, sheet, book>> /\ pc = "run"
    BY <1>3 DEF BofGlobal, At
  <2> QED
    BY <2>1 DEF IInv, BookTyped, ContextTyped, OffsetsApart, CurrentSheet
<1>4. CASE BofSheet
  <2>1. UNCHANGED <<sheet, book>> /\ sheet_btype' = Record.btype
    BY <1>4 DEF BofSheet
  <2>2. BookTyped' /\ ContextTyped' /\ OffsetsApart'
    BY <2>1 DEF IInv, BookTyped, ContextTyped, OffsetsApart
  <2>3. CASE worksheet' = worksheet /\ Return("BADFILE")
    BY <2>1, <2>2, <2>3 DEF IInv, CurrentSheet, Return
  <2>4. CASE worksheet' \in SheetsAt(at)
    <3>1. worksheet' \in 1 .. Len(book)
      BY <2>4 DEF SheetsAt
    <3>2. sheet_btype' # "UNDEF"
      BY <1>4, <2>1 DEF BofSheet, BadBof, BiffTypes
    <3> QED
      BY <2>1, <2>2, <3>1, <3>2 DEF IInv, CurrentSheet
  <2> QED
    BY <1>4, <2>3, <2>4 DEF BofSheet
<1>5. CASE BofOldSheet
  <2> DEFINE x == [name |-> NoName, offset |-> at, cells |-> {}]
  <2>1. book' = Append(book, x) /\ sheet_btype' = Record.btype
    BY <1>5 DEF BofOldSheet, AddSheet
  <2> HIDE DEF x
  <2>2. sheet_btype' # "UNDEF"
    BY <1>5, <2>1 DEF BofOldSheet, BadBof, BiffTypes
  <2>3. Len(book) \in Nat /\ Len(book') = Len(book) + 1
    BY <2>1, OneMoreSheet DEF IInv
  <2>4. CASE /\ SheetsAt(at) = {}
             /\ sheet' = sheet \cup {<<at, Len(book) + 1>>} /\ worksheet' = Len(book) + 1
    <3>1. BookTyped' /\ ContextTyped' /\ OffsetsApart'
      BY <2>1, <2>4, SheetAdded
    <3>2. CurrentSheet'
      BY <2>2, <2>3, <2>4 DEF CurrentSheet
    <3> QED
      BY <3>1, <3>2 DEF IInv
  <2>5. CASE sheet' = sheet /\ worksheet' \in SheetsAt(at)
    <3>1. BookTyped' /\ ContextTyped' /\ OffsetsApart'
      BY <2>1, <2>5, SheetRefused
    <3>2. CurrentSheet'
      BY <2>2, <2>3, <2>5 DEF CurrentSheet, SheetsAt
    <3> QED
      BY <3>1, <3>2 DEF IInv
  <2> QED
    BY <1>5, <2>4, <2>5 DEF BofOldSheet
<1>6. CASE Eof
  <2>1. UNCHANGED <<sheet, book>> /\ pc = "run"
    BY <1>6 DEF Eof, At
  <2>2. BookTyped' /\ ContextTyped' /\ OffsetsApart'
    BY <2>1 DEF IInv, BookTyped, ContextTyped, OffsetsApart
  <2>3. Len(book) \in Nat
    BY DEF IInv, BookTyped
  <2>4. \/ sheet_btype' = "UNDEF" /\ worksheet' = 0
        \/ UNCHANGED <<sheet_btype, worksheet>>
    BY <1>6 DEF Eof
  <2> QED
    BY <2>1, <2>2, <2>3, <2>4 DEF IInv, CurrentSheet
<1>7. CASE BoundSheet
  <2>1. UNCHANGED <<sheet_btype, worksheet>> /\ pc = "run"
    BY <1>7 DEF BoundSheet, At
  <2>2. CASE UNCHANGED <<sheet, book>>
    BY <2>1, <2>2 DEF IInv, BookTyped, ContextTyped, OffsetsApart, CurrentSheet
  <2>3. CASE book' = AddSheet(Record.name, Record.offset)
    <3> DEFINE x == [name |-> Record.name, offset |-> Record.offset, cells |-> {}]
    <3>1. book' = Append(book, x)
      BY <2>3 DEF AddSheet
    <3> HIDE DEF x
    <3>2. Len(book) \in Nat /\ Len(book') = Len(book) + 1
      BY <3>1, OneMoreSheet DEF IInv
    <3>3. \/ /\ SheetsAt(Record.offset) = {}
             /\ sheet' = sheet \cup {<<Record.offset, Len(book) + 1>>}
          \/ sheet' = sheet
      BY <1>7 DEF BoundSheet
    <3>4. BookTyped' /\ ContextTyped' /\ OffsetsApart'
      BY <3>1, <3>3, SheetAdded, SheetRefused
    <3>5. CurrentSheet'
      BY <2>1, <3>2 DEF IInv, CurrentSheet
    <3> QED
      BY <3>4, <3>5 DEF IInv
  <2> QED
    BY <1>7, <2>2, <2>3 DEF BoundSheet
<1>8. CASE BlankCell \/ BoolErr \/ Label \/ IntegerCell \/ Number \/ Rk \/ RString
  <2>1. pc = "run" /\ (UNCHANGED <<ctx, book>> \/ \E new : Cells(new))
    BY <1>8 DEF BlankCell, BoolErr, Label, IntegerCell, Number, Rk, RString, Refuse, At
  <2> QED
    BY <2>1, CellStep, RefuseStep
<1>9. CASE LabelSst \/ MulRk \/ MulBlank
  <2>1. pc = "run" /\ (UNCHANGED <<ctx, book>> \/ \E new : Cells(new))
    BY <1>9 DEF LabelSst, MulRk, MulBlank, Refuse, At
  <2> QED
    BY <2>1, CellStep, RefuseStep
<1>10. CASE UNCHANGED vars
  BY <1>10 DEF vars, ctx, IInv, BookTyped, ContextTyped, OffsetsApart, CurrentSheet
<1> QED
  BY <1>1, <1>2, <1>3, <1>4, <1>5, <1>6, <1>7, <1>8, <1>9, <1>10 DEF Next, Finished

(* For every stream of records, also malformed ones: while the loop runs   *)
(* there is a worksheet exactly inside a sheet substream, and the context  *)
(* keeps the sheets of different offsets apart.                            *)
THEOREM CellsHaveSheet == Spec => []WorksheetInSheet
<1>1. IInv => WorksheetInSheet
  BY DEF IInv, ContextTyped, OffsetsApart, CurrentSheet, WorksheetInSheet
<1>2. Spec => []IInv
  BY InvInit, InvStep, PTL DEF Spec
<1> QED
  BY <1>1, <1>2, PTL

-----------------------------------------------------------------------------
(* What goes into the sheets.  Record m begins the substream of a          *)
(* worksheet.                                                              *)
SheetBof(m) == m <= Len(stream) /\ stream[m].id = "BOF" /\ stream[m].stream = "sheet"

(* The reader is in a file, in front of a record of it or behind the last. *)
InFile == stream \in Streams /\ at \in Nat \ {0} /\ (pc = "run" => at <= Len(stream) + 1)

(* A sheet of the book is a record of a name, an offset and cells.         *)
SheetsFormed ==
  \A k \in 1 .. Len(book) :
    book[k] = [name |-> book[k].name, offset |-> book[k].offset, cells |-> book[k].cells]

(* The context holds the shared strings of the records that were read.     *)
StringsSoFar == pc = "run" => sst = Strings[at - 1]

(* An offset leads to the sheet that is made for it.                       *)
OffsetsLead == \A e \in sheet : book[e[2]].offset = e[1]

(* No worksheet's substream was begun that the context has no sheet for.   *)
BofsKnown == pc = "run" => \A m \in 1 .. at - 1 : SheetBof(m) => \E e \in sheet : e[1] = m

(* The current worksheet is the one whose substream the reader is in.      *)
OpenSubstream ==
  pc = "run" =>
    /\ \A e \in sheet : InSubstream(e[1], at) => worksheet = e[2]
    /\ worksheet # 0 => /\ <<book[worksheet].offset, worksheet>> \in sheet
                        /\ InSubstream(book[worksheet].offset, at)

(* Record n is the first of the substream at o to describe the cell e.     *)
FirstOfOwn(o, e, n) ==
  /\ InSubstream(o, n) /\ e \in Describes(n)
  /\ \A m \in o .. n - 1 : \A f \in Describes(m) : f[1] # e[1]

(* CellsOfOwnSubstream, with the offset of the sheet named by a variable.  *)
CellsPlaced ==
  \A k \in 1 .. Len(book) : \A e \in book[k].cells : \A o : o = book[k].offset =>
    \E n \in 1 .. at - 1 : FirstOfOwn(o, e, n)

(* Nothing is missing of the records that were read.                       *)
LoadedSoFar == pc = "run" \/ ret = "SUCCESS" => Loaded(at - 1)

(* The last two need the others: a cell is the first of its position when  *)
(* the earlier ones of its substream are all in the sheet, and a sheet     *)
(* whose worksheet was passed before it was listed would miss its cells.   *)
CInv ==
  /\ InFile /\ SheetsFormed /\ StringsSoFar /\ OffsetsLead /\ BofsKnown
  /\ OpenSubstream /\ CellsPlaced /\ LoadedSoFar

(* What the assumption on the streams says of a record of one of them.     *)
LEMMA StreamTyped ==
  ASSUME stream \in Streams
  PROVE  /\ Len(stream) \in Nat
         /\ \A n \in 1 .. Len(stream) : stream[n].id = "SST" => stream[n].texts \in Seq(Texts)
         /\ \A n \in Nat : TextsAt(n + 1) \in Seq(Texts)
<1>1. stream \in Seq(BofRecords \cup SheetRecords \cup TextRecords \cup CellRecords
                         \cup PlainRecords)
  BY StreamsAssumption
<1>2. ASSUME NEW n \in 1 .. Len(stream), stream[n].id = "SST"
      PROVE  stream[n].texts \in Seq(Texts)
  <2>1. stream[n] \in BofRecords \cup SheetRecords \cup TextRecords \cup CellRecords
                         \cup PlainRecords
    BY <1>1
  <2>2. stream[n] \in TextRecords
    BY <1>2, <2>1 DEF BofRecords, SheetRecords, CellRecords, PlainRecords
  <2> QED
    BY <2>2 DEF TextRecords
<1>3. Len(stream) \in Nat
  BY <1>1
<1>4. \A n \in Nat : TextsAt(n + 1) \in Seq(Texts)
  <2> TAKE n \in Nat
  <2>1. <<>> \in Seq(Texts)
    OBVIOUS
  <2>2. n + 1 <= Len(stream) => n + 1 \in 1 .. Len(stream)
    BY <1>3
  <2> QED
    BY <1>2, <2>1, <2>2 DEF TextsAt
<1> QED
  BY <1>2, <1>3, <1>4

(* The recursion of Strings has a solution, so Strings follows it.         *)
LEMMA StringsStep ==
  ASSUME stream \in Streams
  PROVE  Strings[0] = <<>> /\ \A n \in Nat : Strings[n + 1] = Strings[n] \o TextsAt(n + 1)
<1> DEFINE S    == Seq(Texts)
           step == [x \in Nat \X S |-> x[2] \o TextsAt(x[1] + 1)]
<1>1. <<>> \in S
  OBVIOUS
<1>2. step \in [Nat \X S -> S]
  <2> SUFFICES ASSUME NEW x \in Nat \X S PROVE x[2] \o TextsAt(x[1] + 1) \in S
    OBVIOUS
  <2>1. x[2] \in S /\ TextsAt(x[1] + 1) \in S
    BY StreamTyped
  <2> QED
    BY <2>1
<1>3. PICK f \in [Nat -> S] : f[0] = <<>> /\ \A n \in Nat : f[n + 1] = step[<<n, f[n]>>]
  <2> HIDE DEF S, step
  <2>1. Defined(S, <<>>, step)
    BY <1>1, <1>2, RecursionExists
  <2> QED
    BY <2>1 DEF Defined, Recursive
<1>4. \A n \in Nat : f[n + 1] = f[n] \o TextsAt(n + 1)
  <2> TAKE n \in Nat
  <2>1. <<n, f[n]>> \in Nat \X S /\ <<n, f[n]>>[1] = n /\ <<n, f[n]>>[2] = f[n]
    BY <1>3
  <2> QED
    BY <1>3, <2>1
<1>5. f = [n \in Nat |-> IF n = 0 THEN <<>> ELSE f[n - 1] \o TextsAt(n)]
  <2> SUFFICES ASSUME NEW n \in Nat
               PROVE  f[n] = IF n = 0 THEN <<>> ELSE f[n - 1] \o TextsAt(n)
    BY <1>3
  <2>1. n # 0 => n - 1 \in Nat /\ (n - 1) + 1 = n
    OBVIOUS
  <2> QED
    BY <1>3, <1>4, <2>1
<1>6. Strings = [n \in Nat |-> IF n = 0 THEN <<>> ELSE Strings[n - 1] \o TextsAt(n)]
  BY <1>5 DEF Strings
<1>7. ASSUME NEW n \in Nat PROVE Strings[n + 1] = Strings[n] \o TextsAt(n + 1)
  <2>1. n + 1 \in Nat /\ n + 1 # 0 /\ (n + 1) - 1 = n
    OBVIOUS
  <2> QED
    BY <1>6, <2>1
<1> QED
  BY <1>6, <1>7

(* What is said of the stream alone stays true, as the stream does.        *)
LEMMA SameStream ==
  ASSUME stream' = stream
  PROVE  /\ \A m : SheetBof(m)' <=> SheetBof(m)
         /\ \A m : TextsAt(m)' = TextsAt(m)
         /\ Strings' = Strings
         /\ \A m : Describes(m)' = Describes(m)
<1>2. \A m : SheetBof(m)' <=> SheetBof(m)
  BY DEF SheetBof
<1>3. \A m : TextsAt(m)' = TextsAt(m)
  BY DEF TextsAt
<1>4. Strings' = Strings
  BY DEF Strings, TextsAt
<1>5. \A m : Describes(m)' = Describes(m)
  BY <1>4 DEF Describes, Shared
<1> QED
  BY <1>2, <1>3, <1>4, <1>5

(* The parts of the invariant after a step, said of the same stream.       *)
LEMMA StringsPrimed ==
  ASSUME stream' = stream
  PROVE  StringsSoFar' <=> (pc' = "run" => sst' = Strings[at' - 1])
BY SameStream DEF StringsSoFar

LEMMA BofsPrimed ==
  ASSUME stream' = stream
  PROVE  BofsKnown' <=>
           (pc' = "run" =>
              \A m \in 1 .. at' - 1 : SheetBof(m) => \E e \in sheet' : e[1] = m)
BY DEF BofsKnown, SheetBof

LEMMA OpenPrimed ==
  ASSUME stream' = stream
  PROVE  OpenSubstream' <=>
           (pc' = "run" =>
              /\ \A e \in sheet' : InSubstream(e[1], at') => worksheet' = e[2]
              /\ worksheet' # 0 => /\ <<book'[worksheet'].offset, worksheet'>> \in sheet'
                                  /\ InSubstream(book'[worksheet'].offset, at'))
BY DEF OpenSubstream, InSubstream


LEMMA CellsPrimed ==
  ASSUME stream' = stream
  PROVE  CellsPlaced' <=>
           \A k \in 1 .. Len(book') : \A e \in book'[k].cells :
             \E n \in 1 .. at' - 1 : FirstOfOwn(book'[k].offset, e, n)
<1>1. \A o, e, n : FirstOfOwn(o, e, n)' <=> FirstOfOwn(o, e, n)
  <2>1. \A m : Describes(m)' = Describes(m)
    BY SameStream
  <2>2. \A m, n : InSubstream(m, n)' <=> InSubstream(m, n)
    BY DEF InSubstream
  <2> QED
    BY <2>1, <2>2 DEF FirstOfOwn
<1> QED
  BY <1>1 DEF CellsPlaced

LEMMA PlacedMeansOwn == CellsPlaced <=> CellsOfOwnSubstream
BY DEF CellsPlaced, CellsOfOwnSubstream, FirstOfOwn

LEMMA LoadedPrimed ==
  ASSUME stream' = stream
  PROVE  LoadedSoFar' <=>
           (pc' = "run" \/ ret' = "SUCCESS" =>
              \A e \in sheet' : \A m \in 1 .. at' - 1 :
                InSubstream(e[1], m) =>
                  \A d \in Describes(m) : \E c \in book'[e[2]].cells : c[1] = d[1])
<1>1. \A m : Describes(m)' = Describes(m)
  BY SameStream
<1>2. \A m, n : InSubstream(m, n)' <=> InSubstream(m, n)
  BY DEF InSubstream
<1>3. Loaded(at - 1)' <=>
        \A e \in sheet' : \A m \in 1 .. at' - 1 :
          InSubstream(e[1], m) =>
            \A d \in Describes(m) : \E c \in book'[e[2]].cells : c[1] = d[1]
  BY <1>1, <1>2 DEF Loaded, Taken
<1> QED
  BY <1>3 DEF LoadedSoFar

(* The cells of a record of each kind.                                     *)
LEMMA WhatIsDescribed ==
  ASSUME NEW n
  PROVE  /\ stream[n].id = "BLANK" => Describes(n) = {<<stream[n].pos, Blank>>}
         /\ stream[n].id = "LABELSST" =>
              Describes(n) = {<<stream[n].pos, text>> : text \in Shared(n, stream[n].idx)}
         /\ stream[n].id = "MULRK" => Describes(n) = RunOfCells(stream[n].pos, stream[n].texts)
         /\ stream[n].id = "MULBLANK" =>
              Describes(n) = RunOfCells(stream[n].pos, [q \in DOMAIN stream[n].texts |-> Blank])
         /\ stream[n].id \in {"BOOLERR", "LABEL", "INTEGER", "NUMBER", "RK", "RSTRING"} =>
              Describes(n) = {<<stream[n].pos, stream[n].text>>}
         /\ stream[n].id \in {"BOF", "EOF", "BOUNDSHEET", "SST", "FILEPASS", "OTHER", "FORMAT"} =>
              Describes(n) = {}
<1>1. CASE stream[n].id = "BLANK"
  BY <1>1 DEF Describes
<1>2. CASE stream[n].id = "LABELSST"
  BY <1>2 DEF Describes
<1>3. CASE stream[n].id = "MULRK"
  BY <1>3 DEF Describes
<1>4. CASE stream[n].id = "MULBLANK"
  BY <1>4 DEF Describes
<1>5. CASE stream[n].id \in {"BOOLERR", "LABEL", "INTEGER", "NUMBER", "RK", "RSTRING"}
  BY <1>5 DEF Describes
<1>6. CASE stream[n].id \in {"BOF", "EOF", "BOUNDSHEET", "SST", "FILEPASS", "OTHER", "FORMAT"}
  BY <1>6 DEF Describes
<1> QED
  BY <1>1, <1>2, <1>3, <1>4, <1>5, <1>6

(* All shared strings are texts.                                           *)
LEMMA StringsTyped ==
  ASSUME stream \in Streams
  PROVE  \A n \in Nat : Strings[n] \in Seq(Texts)
<1> DEFINE T == {n \in Nat : Strings[n] \in Seq(Texts)}
<1>1. 0 \in T
  <2>1. <<>> \in Seq(Texts)
    OBVIOUS
  <2> QED
    BY <2>1, StringsStep
<1>2. ASSUME NEW n \in T PROVE n + 1 \in T
  <2>1. n \in Nat /\ Strings[n] \in Seq(Texts) /\ TextsAt(n + 1) \in Seq(Texts)
    BY StreamTyped
  <2>2. Strings[n + 1] = Strings[n] \o TextsAt(n + 1)
    BY <2>1, StringsStep
  <2>3. Strings[n] \o TextsAt(n + 1) \in Seq(Texts) /\ n + 1 \in Nat
    BY <2>1
  <2> QED
    BY <2>1, <2>2, <2>3
<1>3. T \in SUBSET Nat
  OBVIOUS
<1>4. T = Nat
  <2> HIDE DEF T
  <2> QED
    BY <1>1, <1>2, <1>3, NatSetInduction
<1> QED
  BY <1>4

-----------------------------------------------------------------------------
(* What a step may do, as far as the cells are concerned.                  *)

(* Sheets without cells may have been appended to the book.                *)
SheetsAdded ==
  /\ Len(book) \in Nat /\ Len(book') \in Nat /\ Len(book') >= Len(book)
  /\ \A k \in 1 .. Len(book) : book'[k] = book[k]
  /\ \A k \in 1 .. Len(book') : k > Len(book) =>
       book'[k] = [name |-> book'[k].name, offset |-> book'[k].offset, cells |-> {}]

(* The loop is left with an error.                                         *)
Fails ==
  /\ pc' = "done" /\ ret' # "SUCCESS" /\ at' \in Nat /\ at' >= at
  /\ SheetsAdded /\ sheet' = sheet

(* The loop has come to the end of the stream, or stays in a handler.      *)
Ends == pc = "run" /\ pc' # "run" /\ UNCHANGED <<stream, at, ret, ctx, sst, book>>

(* The loop goes on to the next record.                                    *)
Advances == pc = "run" /\ pc' = "run" /\ at \in 1 .. Len(stream) /\ at' = at + 1

(* A record without cells, inside a substream or outside.                  *)
Passes ==
  /\ Advances
  /\ stream[at].id \notin {"BOF", "EOF"} /\ Describes(at) = {}
  /\ sst' = sst \o TextsAt(at)
  /\ UNCHANGED <<worksheet, sheet, book>>

(* No worksheet's substream is open any more.                              *)
Closes ==
  /\ Advances
  /\ stream[at].id \in {"BOF", "EOF"} /\ ~SheetBof(at)
  /\ worksheet' = 0
  /\ UNCHANGED <<sheet, sst, book>>

(* The substream of a worksheet begins.                                    *)
Opens ==
  /\ Advances
  /\ SheetBof(at) /\ <<at, worksheet'>> \in sheet'
  /\ SheetsAdded /\ sheet \subseteq sheet'
  /\ \A e \in sheet' \ sheet : e[1] = at /\ book'[e[2]].offset = at
  /\ sst' = sst

(* A sheet is listed whose offset is new to the context.                   *)
Lists ==
  /\ Advances
  /\ stream[at].id = "BOUNDSHEET"
  /\ SheetsAdded /\ sheet \subseteq sheet'
  /\ \A e \in sheet' \ sheet : SheetsAt(e[1]) = {} /\ book'[e[2]].offset = e[1]
  /\ UNCHANGED <<worksheet, sst>>

(* Cells are set on the current worksheet.                                 *)
Fills ==
  /\ Advances
  /\ stream[at].id \notin {"BOF", "EOF", "SST"}
  /\ SetCells(Describes(at))
  /\ UNCHANGED <<worksheet, sheet, sst>>

(* What a sheet at the end of the book leaves alone.                       *)
LEMMA Appended ==
  ASSUME BookTyped, NEW x, book' = Append(book, x)
  PROVE  /\ Len(book) \in Nat /\ Len(book') = Len(book) + 1
         /\ \A k \in 1 .. Len(book) : book'[k] = book[k]
         /\ book'[Len(book) + 1] = x
<1>1. PICK S : book \in Seq(S)
  BY DEF BookTyped
<1>2. book \in Seq(S \cup {x})
  BY <1>1
<1> QED
  BY <1>2

LEMMA AppendAdds ==
  ASSUME BookTyped, NEW n, NEW o, book' = AddSheet(n, o)
  PROVE  SheetsAdded /\ Len(book') = Len(book) + 1 /\ book'[Len(book) + 1].offset = o
<1> DEFINE x == [name |-> n, offset |-> o, cells |-> {}]
<1>1. book' = Append(book, x)
  BY DEF AddSheet
<1>2. x = [name |-> x.name, offset |-> x.offset, cells |-> {}] /\ x.offset = o
  OBVIOUS
<1> HIDE DEF x
<1>3. /\ Len(book) \in Nat /\ Len(book') = Len(book) + 1
      /\ \A k \in 1 .. Len(book) : book'[k] = book[k]
      /\ book'[Len(book) + 1] = x
  BY <1>1, Appended
<1>4. \A k \in 1 .. Len(book') : k > Len(book) => k = Len(book) + 1
  BY <1>3
<1> QED
  BY <1>2, <1>3, <1>4 DEF SheetsAdded

LEMMA SameAdds ==
  ASSUME BookTyped, book' = book
  PROVE  SheetsAdded
BY DEF BookTyped, SheetsAdded

(* Skipping to an EOF leads forward.                                       *)
LEMMA BehindEof ==
  ASSUME Len(stream) \in Nat, at \in Nat, at <= Len(stream)
  PROVE  AfterEof \in Nat /\ AfterEof > at
<1>1. NextEof \in SUBSET Nat /\ \A n \in NextEof : n > at
  BY DEF NextEof
<1>2. CASE NextEof # {}
  <2>1. \E n \in NextEof : \A m \in NextEof : n <= m
    BY <1>1, <1>2, SmallestExists
  <2>2. FirstEof \in NextEof
    BY <2>1 DEF FirstEof
  <2> QED
    BY <1>1, <1>2, <2>2 DEF AfterEof
<1> QED
  BY <1>2 DEF AfterEof

(* A handler that has not the success is the last one.                     *)
LEMMA Refused ==
  ASSUME IInv, InFile, NEW r, r # "SUCCESS", Return(r), UNCHANGED <<sheet, book>>
  PROVE  Fails
BY SameAdds DEF IInv, InFile, Return, Fails

LEMMA Accepted ==
  ASSUME InFile, pc = "run", at <= Len(stream), Return("SUCCESS")
  PROVE  Advances
BY StreamTyped DEF InFile, Return, Advances

(* The cells a handler sets are the ones its record describes.             *)
LEMMA CellsAsDescribed ==
  ASSUME CInv, NEW id, id \notin {"BOF", "EOF", "SST"}, At(id), Cells(Describes(at))
  PROVE  Fills /\ stream' = stream
BY Accepted DEF Return, CInv, Cells, At, Record, Fills, ctx

(* A record of no interest, or a sheet of another kind than a worksheet.   *)
LEMMA Unwanted ==
  ASSUME CInv, At(Record.id), Record.id \in {"OTHER", "FORMAT", "BOUNDSHEET"}, Return("SUCCESS"),
         UNCHANGED <<worksheet, sheet, sst, book>>
  PROVE  Passes
<1>1. sst \in Seq(Texts)
  BY StringsTyped DEF CInv, InFile, StringsSoFar, At
<1>2. TextsAt(at) = <<>> /\ sst \o <<>> = sst
  BY <1>1 DEF Record, TextsAt
<1> QED
  BY <1>2, WhatIsDescribed, Accepted DEF CInv, At, Record, Passes

LEMMA RefusedCell ==
  ASSUME IInv, CInv, NEW r, r # "SUCCESS", Refuse(r)
  PROVE  Fails /\ stream' = stream
BY Refused DEF CInv, Refuse, ctx, Return

(* Every step of the loop is one of these.                                 *)
LEMMA StepKinds ==
  ASSUME IInv, CInv, Next
  PROVE  /\ stream' = stream
         /\ Ends \/ Fails \/ Passes \/ Closes \/ Opens \/ Lists \/ Fills \/ UNCHANGED vars
<1>1. CASE EndOfStream \/ ColumnsNeverEnd \/ Finished
  BY <1>1 DEF EndOfStream, ColumnsNeverEnd, At, ctx, Ends, Finished, vars
<1>2. CASE FilePass \/ BofRefused
  BY <1>2, Refused DEF CInv, FilePass, BofRefused, ctx, Return
<1>3. CASE OtherRecord \/ Format
  <2>1. /\ At(Record.id) /\ Record.id \in {"OTHER", "FORMAT"}
        /\ UNCHANGED <<worksheet, sheet, sst, book>>
    BY <1>3 DEF OtherRecord, Format, At, ctx
  <2>2. CASE Return("SUCCESS")
    BY <2>1, <2>2, Unwanted DEF Return
  <2>3. CASE Return("OUTOFMEMORY")
    BY <2>1, <2>3, Refused DEF CInv, Return
  <2> QED
    BY <1>3, <2>2, <2>3 DEF OtherRecord, Format, Converted
<1>4. CASE BofUnsupported
  <2>1. at \in Nat /\ at <= Len(stream) /\ Len(stream) \in Nat
    BY <1>4, StreamTyped DEF BofUnsupported, At, CInv, InFile
  <2>2. at' \in Nat /\ at' >= at
    BY <1>4, <2>1, BehindEof DEF BofUnsupported
  <2>3. SheetsAdded
    BY <1>4, SameAdds DEF BofUnsupported, IInv
  <2> QED
    BY <1>4, <2>2, <2>3 DEF BofUnsupported, ctx, Fails
<1>5. CASE BofGlobal
  <2>1. Advances /\ UNCHANGED <<worksheet, sheet, sst, book>> /\ stream[at].id = "BOF"
    BY <1>5, Accepted DEF BofGlobal, CInv, At, Record
  <2>2. stream[at].stream # "sheet" /\ worksheet = 0
    BY <1>5 DEF BofGlobal, BadBof, GlobalStream, Record, IInv, CurrentSheet, At
  <2> QED
    BY <1>5, <2>1, <2>2 DEF Closes, SheetBof, BofGlobal, Return
<1>6. CASE BofSheet
  <2>1. CASE Return("BADFILE")
    BY <1>6, <2>1, Refused DEF BofSheet, CInv, Return
  <2>2. CASE worksheet' \in SheetsAt(at) /\ Return("SUCCESS")
    <3>1. Advances /\ sheet' = sheet /\ book' = book /\ sst' = sst /\ SheetBof(at)
      BY <1>6, <2>2, Accepted DEF BofSheet, CInv, At, Record, SheetBof
    <3>2. <<at, worksheet'>> \in sheet' /\ SheetsAdded
      BY <2>2, <3>1, SameAdds DEF SheetsAt, IInv
    <3> QED
      BY <2>2, <3>1, <3>2 DEF Opens, Return
  <2> QED
    BY <1>6, <2>1, <2>2 DEF BofSheet
<1>7. CASE BofOldSheet
  <2>1. Advances /\ sst' = sst /\ SheetBof(at) /\ book' = AddSheet(NoName, at)
    BY <1>7, Accepted DEF BofOldSheet, CInv, At, Record, SheetBof
  <2>2. SheetsAdded /\ book'[Len(book) + 1].offset = at
    BY <2>1, AppendAdds DEF IInv
  <2>3. /\ <<at, worksheet'>> \in sheet' /\ sheet \subseteq sheet'
        /\ \A e \in sheet' \ sheet : e = <<at, Len(book) + 1>>
    BY <1>7 DEF BofOldSheet, SheetsAt
  <2> QED
    BY <1>7, <2>1, <2>2, <2>3 DEF Opens, BofOldSheet, Return
<1>8. CASE Eof
  <2>1. CASE Return("BADFILE")
    BY <1>8, <2>1, Refused DEF Eof, CInv, Return
  <2>2. CASE Return("SUCCESS")
    <3>1. /\ Advances /\ UNCHANGED <<sheet, sst, book>>
          /\ stream[at].id = "EOF" /\ ~SheetBof(at)
      BY <1>8, <2>2, Accepted DEF Eof, CInv, At, Record, SheetBof
    <3>2. worksheet' = 0
      BY <1>8 DEF Eof, IInv, CurrentSheet, At
    <3> QED
      BY <2>2, <3>1, <3>2 DEF Closes, Return
  <2> QED
    BY <1>8, <2>1, <2>2 DEF Eof
<1>9. CASE BoundSheet
  <2>1. CASE /\ Return("BADFILE") \/ Return("OUTOFMEMORY")
             /\ UNCHANGED <<sheet, book>>
    BY <2>1, Refused DEF CInv, Return
  <2>2. CASE Return("SUCCESS") /\ UNCHANGED <<sheet, book>>
    BY <1>9, <2>2, Unwanted DEF BoundSheet, At, Return
  <2>3. CASE book' = AddSheet(Record.name, Record.offset)
    <3>1. SheetsAdded /\ book'[Len(book) + 1].offset = Record.offset
      BY <2>3, AppendAdds DEF IInv
    <3>2. CASE sheet' = sheet /\ Return("OUTOFMEMORY")
      <4>1. at' \in Nat /\ at' >= at
        BY <3>2 DEF CInv, InFile, Return
      <4> QED
        BY <3>1, <3>2, <4>1 DEF Fails, Return
    <3>3. CASE /\ SheetsAt(Record.offset) = {} /\ Return("SUCCESS")
               /\ sheet' = sheet \cup {<<Record.offset, Len(book) + 1>>}
      <4>1. Advances /\ stream[at].id = "BOUNDSHEET" /\ UNCHANGED <<worksheet, sst>>
        BY <1>9, <3>3, Accepted DEF BoundSheet, CInv, At, Record
      <4>2. /\ sheet \subseteq sheet'
            /\ \A e \in sheet' \ sheet : e = <<Record.offset, Len(book) + 1>>
        BY <3>3
      <4> QED
        BY <3>1, <3>3, <4>1, <4>2 DEF Lists, Return
    <3> QED
      BY <1>9, <2>1, <2>2, <2>3, <3>2, <3>3 DEF BoundSheet
  <2> QED
    BY <1>9, <2>1, <2>2, <2>3 DEF BoundSheet
<1>10. CASE Sst
  <2>1. CASE Return("OUTOFMEMORY")
    BY <1>10, <2>1, Refused DEF Sst, CInv, Return, ctx
  <2>2. CASE Return("SUCCESS") /\ sst' = sst \o Record.texts
    <3>1. /\ Advances /\ stream[at].id = "SST" /\ sst' = sst \o stream[at].texts
          /\ UNCHANGED <<worksheet, sheet, book>> /\ stream' = stream
      BY <1>10, <2>2, Accepted DEF Sst, CInv, At, Record, ctx, Return
    <3>2. TextsAt(at) = stream[at].texts
      BY <3>1 DEF Advances, TextsAt
    <3> QED
      BY <3>1, <3>2, WhatIsDescribed DEF Passes
  <2> QED
    BY <1>10, <2>1, <2>2 DEF Sst
<1>11. CASE BlankCell \/ BoolErr \/ Label \/ IntegerCell \/ Number \/ Rk \/ RString
  <2>1. PICK id \in {"BLANK", "BOOLERR", "LABEL", "INTEGER", "NUMBER", "RK", "RSTRING"} : At(id)
    BY <1>11 DEF BlankCell, BoolErr, Label, IntegerCell, Number, Rk, RString
  <2>2. Record.id = "BLANK" => Describes(at) = {<<Record.pos, Blank>>}
    BY WhatIsDescribed DEF Record
  <2>3. Record.id \in {"BOOLERR", "LABEL", "INTEGER", "NUMBER", "RK", "RSTRING"} =>
          Describes(at) = {<<Record.pos, Record.text>>}
    BY WhatIsDescribed DEF Record
  <2>4. (\E r : r # "SUCCESS" /\ Refuse(r)) \/ Cells(Describes(at))
    BY <1>11, <2>2, <2>3
    DEF BlankCell, BoolErr, Label, IntegerCell, Number, Rk, RString, At
  <2> QED
    BY <2>1, <2>4, RefusedCell, CellsAsDescribed
<1>12. CASE LabelSst
  <2>1. At("LABELSST") /\ at \in Nat \ {0} /\ sst = Strings[at - 1]
    BY <1>12 DEF LabelSst, CInv, InFile, StringsSoFar, At
  <2>2. CASE Record.idx + 1 \in DOMAIN sst
    <3>1. Describes(at) = {<<Record.pos, sst[Record.idx + 1]>>}
      <4>1. stream[at].id = "LABELSST" /\ Shared(at, Record.idx) = {sst[Record.idx + 1]}
        BY <2>1, <2>2 DEF Record, At, Shared
      <4>2. Describes(at) = {<<Record.pos, text>> : text \in Shared(at, Record.idx)}
        BY <4>1, WhatIsDescribed DEF Record
      <4> QED
        BY <4>1, <4>2
    <3> QED
      BY <1>12, <2>1, <2>2, <3>1, RefusedCell, CellsAsDescribed DEF LabelSst
  <2>3. CASE Record.idx + 1 \notin DOMAIN sst
    BY <1>12, <2>3, RefusedCell DEF LabelSst
  <2> QED
    BY <2>2, <2>3
<1>13. CASE MulRk \/ MulBlank
  <2>1. PICK id \in {"MULRK", "MULBLANK"} : At(id)
    BY <1>13 DEF MulRk, MulBlank
  <2>2. /\ Record.id = "MULRK" => Describes(at) = RunOfCells(Record.pos, Record.texts)
        /\ Record.id = "MULBLANK" =>
             Describes(at) = RunOfCells(Record.pos, [n \in DOMAIN Record.texts |-> Blank])
    BY WhatIsDescribed DEF Record
  <2>3. (\E r : r # "SUCCESS" /\ Refuse(r)) \/ Cells(Describes(at))
    BY <1>13, <2>2 DEF MulRk, MulBlank, At
  <2> QED
    BY <2>1, <2>3, RefusedCell, CellsAsDescribed
<1> QED
  BY <1>1, <1>2, <1>3, <1>4, <1>5, <1>6, <1>7, <1>8, <1>9, <1>10, <1>11, <1>12, <1>13
  DEF Next

-----------------------------------------------------------------------------
(* Every kind of step keeps the invariant.                                 *)

LEMMA RecordsBefore ==
  \A a, b \in Nat : a <= b => \A n \in 1 .. a - 1 : n \in 1 .. b - 1
OBVIOUS

(* Appended sheets disturb no cell that is there.                          *)
LEMMA AddedKeeps ==
  ASSUME SheetsFormed, CellsPlaced, SheetsAdded, stream' = stream,
         at \in Nat, at' \in Nat, at' >= at
  PROVE  SheetsFormed' /\ CellsPlaced'
<1>1. ASSUME NEW k \in 1 .. Len(book')
      PROVE  /\ book'[k] = [name |-> book'[k].name, offset |-> book'[k].offset,
                            cells |-> book'[k].cells]
             /\ \A e \in book'[k].cells :
                  \E n \in 1 .. at' - 1 : FirstOfOwn(book'[k].offset, e, n)
  <2>1. CASE k \in 1 .. Len(book)
    <3>1. book'[k] = book[k]
      BY <2>1 DEF SheetsAdded
    <3>2. \A e \in book[k].cells : \E n \in 1 .. at - 1 : FirstOfOwn(book[k].offset, e, n)
      BY <2>1 DEF CellsPlaced
    <3>3. \A n \in 1 .. at - 1 : n \in 1 .. at' - 1
      BY RecordsBefore
    <3>4. book[k] = [name |-> book[k].name, offset |-> book[k].offset, cells |-> book[k].cells]
      BY <2>1 DEF SheetsFormed
    <3> QED
      BY <3>1, <3>2, <3>3, <3>4
  <2>2. CASE k \notin 1 .. Len(book)
    <3>1. /\ book'[k] = [name |-> book'[k].name, offset |-> book'[k].offset, cells |-> {}]
          /\ book'[k].cells = {}
      BY <2>2 DEF SheetsAdded
    <3> QED
      BY <3>1
  <2> QED
    BY <2>1, <2>2
<1>2. SheetsFormed'
  BY <1>1 DEF SheetsFormed
<1> QED
  BY <1>1, <1>2, CellsPrimed

LEMMA NextInFile ==
  ASSUME InFile, stream' = stream, Advances
  PROVE  InFile' /\ at \in Nat \ {0} /\ at' \in Nat /\ at' >= at
BY StreamTyped DEF InFile, Advances

(* The shared strings after a record that has some, and after one without. *)
LEMMA StringsGrow ==
  ASSUME InFile, StringsSoFar, stream' = stream, Advances, sst' = sst \o TextsAt(at)
  PROVE  StringsSoFar'
<1>1. at \in Nat \ {0} /\ sst = Strings[at - 1] /\ at' - 1 = at
  BY DEF InFile, StringsSoFar, Advances
<1>2. at - 1 \in Nat /\ (at - 1) + 1 = at
  BY <1>1
<1>3. Strings[(at - 1) + 1] = Strings[at - 1] \o TextsAt((at - 1) + 1)
  BY <1>2, StringsStep DEF InFile
<1>4. Strings[at] = sst \o TextsAt(at)
  BY <1>1, <1>2, <1>3
<1> QED
  BY <1>1, <1>4, StringsPrimed

LEMMA StringsStay ==
  ASSUME InFile, StringsSoFar, stream' = stream, Advances, sst' = sst, stream[at].id # "SST"
  PROVE  StringsSoFar'
<1>1. sst \in Seq(Texts)
  BY StringsTyped DEF InFile, StringsSoFar, Advances
<1>2. sst' = sst \o TextsAt(at)
  BY <1>1 DEF TextsAt
<1> QED
  BY <1>2, StringsGrow

(* The position after a record is in the substream of the position before  *)
(* it, unless a substream ends or begins there.                            *)
LEMMA SubstreamGoesOn ==
  ASSUME InFile, Advances, NEW m, m # at
  PROVE  InSubstream(m, at + 1) <=>
           InSubstream(m, at) /\ stream[at].id \notin {"BOF", "EOF"}
BY StreamTyped, SMTT(30) DEF InFile, Advances, InSubstream

LEMMA SubstreamBegins ==
  ASSUME InFile, Advances
  PROVE  InSubstream(at, at + 1) <=> SheetBof(at)
BY StreamTyped DEF InFile, Advances, InSubstream, SheetBof

(* A substream begins in front of its records, and its BOF has no cells.   *)
LEMMA SubstreamBof ==
  ASSUME NEW m, NEW n, InSubstream(m, n)
  PROVE  SheetBof(m) /\ m \in 1 .. n - 1 /\ Describes(m) = {}
BY WhatIsDescribed DEF InSubstream, SheetBof

(* An error only ends the loop: what is in the sheets stays right.         *)
LEMMA Failed ==
  ASSUME IInv, CInv, Fails, stream' = stream
  PROVE  CInv'
<1>1. InFile'
  <2>1. at' # 0
    BY DEF CInv, InFile, Fails
  <2> QED
    BY <2>1 DEF CInv, InFile, Fails
<1>2. SheetsFormed' /\ CellsPlaced'
  BY AddedKeeps DEF CInv, InFile, Fails
<1>3. OffsetsLead'
  <2> SUFFICES ASSUME NEW e \in sheet PROVE book'[e[2]].offset = e[1]
    BY DEF OffsetsLead, Fails
  <2>1. e[2] \in 1 .. Len(book) /\ book[e[2]].offset = e[1]
    BY DEF IInv, ContextTyped, CInv, OffsetsLead
  <2> QED
    BY <2>1 DEF Fails, SheetsAdded
<1>4. pc' # "run" /\ ret' # "SUCCESS"
  BY DEF Fails
<1> QED
  BY <1>1, <1>2, <1>3, <1>4
  DEF CInv, StringsSoFar, BofsKnown, OpenSubstream, LoadedSoFar

LEMMA Passed ==
  ASSUME IInv, CInv, Passes, stream' = stream
  PROVE  CInv'
<1> USE DEF CInv
<1>1. /\ InFile' /\ at \in Nat \ {0} /\ at' = at + 1 /\ at' \in Nat /\ at' >= at /\ pc = "run"
      /\ Advances
  BY NextInFile DEF Passes, Advances
<1>2. StringsSoFar'
  BY <1>1, StringsGrow DEF Passes
<1>3. SheetsFormed' /\ CellsPlaced' /\ OffsetsLead'
  BY <1>1, SameAdds, AddedKeeps DEF Passes, IInv, OffsetsLead
<1>4. BofsKnown'
  <2> SUFFICES ASSUME NEW m \in 1 .. at, SheetBof(m) PROVE \E e \in sheet : e[1] = m
    BY <1>1, BofsPrimed DEF Passes
  <2>1. m # at
    BY DEF SheetBof, Passes
  <2> QED
    BY <1>1, <2>1 DEF BofsKnown
<1>5. OpenSubstream'
  <2>1. \A m : InSubstream(m, at + 1) <=> InSubstream(m, at)
    <3> SUFFICES ASSUME NEW m PROVE InSubstream(m, at + 1) <=> InSubstream(m, at)
      OBVIOUS
    <3>1. CASE m = at
      BY <1>1, <3>1, SubstreamBegins DEF SheetBof, Passes, InSubstream
    <3>2. CASE m # at
      BY <1>1, <3>2, SubstreamGoesOn DEF Passes
    <3> QED
      BY <3>1, <3>2
  <2> QED
    BY <1>1, <2>1, OpenPrimed DEF Passes, OpenSubstream
<1>6. LoadedSoFar'
  <2> SUFFICES ASSUME NEW e \in sheet, NEW m \in 1 .. at, InSubstream(e[1], m),
                      NEW d \in Describes(m)
               PROVE  \E c \in book[e[2]].cells : c[1] = d[1]
    BY <1>1, LoadedPrimed DEF Passes
  <2>1. m # at
    BY DEF Passes
  <2> QED
    BY <1>1, <2>1 DEF LoadedSoFar, Loaded, Taken
<1> QED
  BY <1>1, <1>2, <1>3, <1>4, <1>5, <1>6

LEMMA Closed ==
  ASSUME IInv, CInv, Closes, stream' = stream
  PROVE  CInv'
<1> USE DEF CInv
<1>1. /\ InFile' /\ at \in Nat \ {0} /\ at' = at + 1 /\ at' \in Nat /\ at' >= at /\ pc = "run"
      /\ Advances
  BY NextInFile DEF Closes, Advances
<1>2. StringsSoFar'
  BY <1>1, StringsStay DEF Closes
<1>3. SheetsFormed' /\ CellsPlaced' /\ OffsetsLead'
  BY <1>1, SameAdds, AddedKeeps DEF Closes, IInv, OffsetsLead
<1>4. BofsKnown'
  <2> SUFFICES ASSUME NEW m \in 1 .. at, SheetBof(m) PROVE \E e \in sheet : e[1] = m
    BY <1>1, BofsPrimed DEF Closes
  <2>1. m # at
    BY DEF Closes
  <2> QED
    BY <1>1, <2>1 DEF BofsKnown
<1>5. OpenSubstream'
  <2>1. \A m : ~InSubstream(m, at + 1)
    BY <1>1, SubstreamBegins, SubstreamGoesOn DEF Closes
  <2> QED
    BY <1>1, <2>1, OpenPrimed DEF Closes
<1>6. LoadedSoFar'
  <2> SUFFICES ASSUME NEW e \in sheet, NEW m \in 1 .. at, InSubstream(e[1], m),
                      NEW d \in Describes(m)
               PROVE  \E c \in book[e[2]].cells : c[1] = d[1]
    BY <1>1, LoadedPrimed DEF Closes
  <2>1. m # at
    BY WhatIsDescribed DEF Closes
  <2> QED
    BY <1>1, <2>1 DEF LoadedSoFar, Loaded, Taken
<1> QED
  BY <1>1, <1>2, <1>3, <1>4, <1>5, <1>6

(* The sheets that were there keep their place, offset and cells.          *)
LEMMA OldSheet ==
  ASSUME IInv, OffsetsLead, SheetsAdded, NEW e \in sheet
  PROVE  book'[e[2]] = book[e[2]] /\ book[e[2]].offset = e[1] /\ e[2] \in 1 .. Len(book)
BY DEF IInv, ContextTyped, OffsetsLead, SheetsAdded

LEMMA Opened ==
  ASSUME IInv, IInv', CInv, Opens, stream' = stream
  PROVE  CInv'
<1> USE DEF CInv
<1>1. /\ InFile' /\ at \in Nat \ {0} /\ at' = at + 1 /\ at' \in Nat /\ at' >= at /\ pc = "run"
      /\ Advances /\ SheetsAdded
  BY NextInFile DEF Opens, Advances
<1>2. StringsSoFar'
  BY <1>1, StringsStay DEF Opens, SheetBof
<1>3. SheetsFormed' /\ CellsPlaced'
  BY <1>1, AddedKeeps
<1>4. \A e \in sheet' : book'[e[2]].offset = e[1]
  BY <1>1, OldSheet DEF Opens
<1>5. OffsetsLead'
  BY <1>4 DEF OffsetsLead
<1>6. BofsKnown'
  <2> SUFFICES ASSUME NEW m \in 1 .. at, SheetBof(m) PROVE \E e \in sheet' : e[1] = m
    BY <1>1, BofsPrimed
  <2>1. CASE m = at
    BY <2>1 DEF Opens
  <2>2. CASE m # at
    BY <1>1, <2>2 DEF BofsKnown, Opens
  <2> QED
    BY <2>1, <2>2
<1>7. OpenSubstream'
  <2>1. \A m : InSubstream(m, at + 1) <=> m = at
    BY <1>1, SubstreamBegins, SubstreamGoesOn DEF Opens, SheetBof
  <2>2. <<at, worksheet'>>[1] = at /\ <<at, worksheet'>>[2] = worksheet'
    OBVIOUS
  <2>3. book'[worksheet'].offset = at
    BY <1>4, <2>2 DEF Opens
  <2>4. \A e \in sheet' : e[1] = at => worksheet' = e[2]
    BY <2>2 DEF Opens, IInv, OffsetsApart
  <2> QED
    BY <1>1, <2>1, <2>3, <2>4, OpenPrimed DEF Opens
<1>8. LoadedSoFar'
  <2> SUFFICES ASSUME NEW e \in sheet', NEW m \in 1 .. at, InSubstream(e[1], m),
                      NEW d \in Describes(m)
               PROVE  \E c \in book'[e[2]].cells : c[1] = d[1]
    BY <1>1, LoadedPrimed
  <2>1. m # at
    BY WhatIsDescribed DEF Opens, SheetBof
  <2>2. e[1] # at
    BY <1>1, <2>1, SubstreamBof
  <2>3. e \in sheet
    BY <2>2 DEF Opens
  <2>4. \E c \in book[e[2]].cells : c[1] = d[1]
    BY <1>1, <2>1, <2>3 DEF LoadedSoFar, Loaded, Taken
  <2> QED
    BY <1>1, <2>3, <2>4, OldSheet
<1> QED
  BY <1>1, <1>2, <1>3, <1>5, <1>6, <1>7, <1>8

LEMMA Listed ==
  ASSUME IInv, CInv, Lists, stream' = stream
  PROVE  CInv'
<1> USE DEF CInv
<1>1. /\ InFile' /\ at \in Nat \ {0} /\ at' = at + 1 /\ at' \in Nat /\ at' >= at /\ pc = "run"
      /\ Advances /\ SheetsAdded
  BY NextInFile DEF Lists, Advances
<1>2. StringsSoFar'
  BY <1>1, StringsStay DEF Lists
<1>3. SheetsFormed' /\ CellsPlaced'
  BY <1>1, AddedKeeps
<1>4. \A e \in sheet' : book'[e[2]].offset = e[1]
  BY <1>1, OldSheet DEF Lists
<1>5. OffsetsLead'
  BY <1>4 DEF OffsetsLead
(* The offset of the new sheet is none of a worksheet that was passed: its *)
(* BOF would have been refused.                                            *)
<1>6. ASSUME NEW e \in sheet', NEW n \in 1 .. at, InSubstream(e[1], n) PROVE e \in sheet
  <2>1. SheetBof(e[1]) /\ e[1] \in 1 .. at - 1
    BY <1>1, <1>6, SubstreamBof
  <2>2. PICK f \in sheet : f[1] = e[1]
    BY <1>1, <2>1 DEF BofsKnown
  <2>3. f[2] \in SheetsAt(e[1])
    BY <2>2 DEF SheetsAt, IInv, ContextTyped
  <2> QED
    BY <2>3 DEF Lists
<1>7. BofsKnown'
  <2> SUFFICES ASSUME NEW m \in 1 .. at, SheetBof(m) PROVE \E e \in sheet' : e[1] = m
    BY <1>1, BofsPrimed
  <2>1. m # at
    BY DEF SheetBof, Lists
  <2> QED
    BY <1>1, <2>1 DEF BofsKnown, Lists
<1>8. OpenSubstream'
  <2>1. \A m : InSubstream(m, at + 1) <=> InSubstream(m, at)
    <3> SUFFICES ASSUME NEW m PROVE InSubstream(m, at + 1) <=> InSubstream(m, at)
      OBVIOUS
    <3>1. CASE m = at
      BY <1>1, <3>1, SubstreamBegins DEF SheetBof, Lists, InSubstream
    <3>2. CASE m # at
      BY <1>1, <3>2, SubstreamGoesOn DEF Lists
    <3> QED
      BY <3>1, <3>2
  <2>2. \A e \in sheet' : InSubstream(e[1], at) => worksheet' = e[2]
    BY <1>1, <1>6 DEF Lists, OpenSubstream
  <2>3. worksheet # 0 => book'[worksheet] = book[worksheet]
    BY DEF IInv, CurrentSheet, Lists, SheetsAdded
  <2> QED
    BY <1>1, <2>1, <2>2, <2>3, OpenPrimed DEF Lists, OpenSubstream
<1>9. LoadedSoFar'
  <2> SUFFICES ASSUME NEW e \in sheet', NEW m \in 1 .. at, InSubstream(e[1], m),
                      NEW d \in Describes(m)
               PROVE  \E c \in book'[e[2]].cells : c[1] = d[1]
    BY <1>1, LoadedPrimed
  <2>1. m # at
    BY WhatIsDescribed DEF Lists
  <2>2. e \in sheet
    BY <1>6
  <2>3. \E c \in book[e[2]].cells : c[1] = d[1]
    BY <1>1, <2>1, <2>2 DEF LoadedSoFar, Loaded, Taken
  <2> QED
    BY <1>1, <2>2, <2>3, OldSheet
<1> QED
  BY <1>1, <1>2, <1>3, <1>5, <1>7, <1>8, <1>9

(* The current sheet gets the cells that were not there, and no sheet      *)
(* loses one.                                                              *)
LEMMA CellsSet ==
  ASSUME IInv, SheetsFormed, NEW new, SetCells(new)
  PROVE  /\ Len(book) \in Nat /\ Len(book') = Len(book)
         /\ \A k \in 1 .. Len(book) :
              /\ book'[k].offset = book[k].offset
              /\ book'[k] = [name |-> book'[k].name, offset |-> book'[k].offset,
                             cells |-> book'[k].cells]
              /\ book'[k].cells = IF k = worksheet THEN book[k].cells \cup FirstOf(new)
                                  ELSE book[k].cells
<1>1. /\ \E S : book \in Seq(S)
      /\ worksheet \in 0 .. Len(book)
  BY DEF IInv, BookTyped, CurrentSheet
<1>2. Len(book) \in Nat /\ DOMAIN book = 1 .. Len(book)
  BY <1>1
<1>3. Len(book') = Len(book)
  BY CellsKeepBook DEF IInv
<1>4. CASE worksheet = 0
  BY <1>2, <1>4 DEF SetCells, SheetsFormed
<1>5. CASE worksheet # 0
  <2> DEFINE x == [book[worksheet] EXCEPT !.cells = @ \cup FirstOf(new)]
  <2>1. book' = [book EXCEPT ![worksheet] = x]
    BY <1>5 DEF SetCells
  <2>2. worksheet \in 1 .. Len(book)
    BY <1>1, <1>2, <1>5
  <2>3. /\ x.offset = book[worksheet].offset
        /\ x.cells = book[worksheet].cells \cup FirstOf(new)
        /\ x = [name |-> x.name, offset |-> x.offset, cells |-> x.cells]
    <3>1. book[worksheet] = [name |-> book[worksheet].name, offset |-> book[worksheet].offset,
                             cells |-> book[worksheet].cells]
      BY <2>2 DEF SheetsFormed
    <3> QED
      BY <3>1
  <2> HIDE DEF x
  <2>4. ASSUME NEW k \in 1 .. Len(book)
        PROVE  book'[k] = IF k = worksheet THEN x ELSE book[k]
    BY <1>2, <2>1
  <2> QED
    BY <1>2, <1>3, <2>3, <2>4 DEF SheetsFormed
<1> QED
  BY <1>4, <1>5

LEMMA Filled ==
  ASSUME IInv, CInv, Fills, stream' = stream
  PROVE  CInv'
<1> USE DEF CInv
<1> DEFINE new == Describes(at)
<1>1. /\ InFile' /\ at \in Nat \ {0} /\ at' = at + 1 /\ at' \in Nat /\ at' >= at /\ pc = "run"
      /\ Advances
  BY NextInFile DEF Fills, Advances
<1>2. /\ Len(book) \in Nat /\ Len(book') = Len(book)
      /\ \A k \in 1 .. Len(book) :
           /\ book'[k].offset = book[k].offset
           /\ book'[k] = [name |-> book'[k].name, offset |-> book'[k].offset,
                          cells |-> book'[k].cells]
           /\ book'[k].cells = IF k = worksheet THEN book[k].cells \cup FirstOf(new)
                               ELSE book[k].cells
  BY CellsSet DEF Fills
<1>3. \A e \in sheet : e[2] \in 1 .. Len(book) /\ e = <<e[1], e[2]>>
  BY DEF IInv, ContextTyped
<1>4. StringsSoFar'
  BY <1>1, StringsStay DEF Fills
<1>5. SheetsFormed' /\ OffsetsLead'
  BY <1>2, <1>3 DEF SheetsFormed, OffsetsLead, Fills
<1>6. BofsKnown'
  <2> SUFFICES ASSUME NEW m \in 1 .. at, SheetBof(m) PROVE \E e \in sheet : e[1] = m
    BY <1>1, BofsPrimed DEF Fills
  <2>1. m # at
    BY DEF SheetBof, Fills
  <2> QED
    BY <1>1, <2>1 DEF BofsKnown
<1>7. OpenSubstream'
  <2>1. \A m : InSubstream(m, at + 1) <=> InSubstream(m, at)
    <3> SUFFICES ASSUME NEW m PROVE InSubstream(m, at + 1) <=> InSubstream(m, at)
      OBVIOUS
    <3>1. CASE m = at
      BY <1>1, <3>1, SubstreamBegins DEF SheetBof, Fills, InSubstream
    <3>2. CASE m # at
      BY <1>1, <3>2, SubstreamGoesOn DEF Fills
    <3> QED
      BY <3>1, <3>2
  <2>2. worksheet # 0 => book'[worksheet].offset = book[worksheet].offset
    <3>1. Len(book) \in Nat /\ \A k \in 1 .. Len(book) : book'[k].offset = book[k].offset
      BY <1>2
    <3>2. worksheet # 0 => worksheet \in 1 .. Len(book)
      BY <3>1 DEF IInv, CurrentSheet
    <3> QED
      BY <3>1, <3>2
  <2> QED
    BY <1>1, <2>1, <2>2, OpenPrimed DEF Fills, OpenSubstream
(* A cell that was taken from this record was described by no earlier one  *)
(* of its substream: all of those are in the sheet.                        *)
<1>8. ASSUME worksheet # 0, NEW e \in FirstOf(new)
      PROVE  FirstOfOwn(book[worksheet].offset, e, at)
  <2> DEFINE o == book[worksheet].offset
  <2>1. <<o, worksheet>> \in sheet /\ InSubstream(o, at)
    BY <1>1, <1>8 DEF OpenSubstream
  <2>2. <<o, worksheet>>[1] = o /\ <<o, worksheet>>[2] = worksheet
    OBVIOUS
  <2> HIDE DEF o
  <2>3. e \in Describes(at) /\ ~Taken(worksheet, e[1])
    BY <1>8 DEF FirstOf
  <2>4. ASSUME NEW m \in o .. at - 1, NEW f \in Describes(m), f[1] = e[1] PROVE FALSE
    <3>1. m # o /\ o \in 1 .. at - 1
      BY <2>1, SubstreamBof
    <3>2. InSubstream(o, m)
      BY <1>1, <2>1, <3>1 DEF InSubstream
    <3>3. m \in 1 .. at - 1
      BY <1>1, <3>1
    <3>4. Taken(worksheet, f[1])
      BY <1>1, <2>1, <2>2, <3>2, <3>3 DEF LoadedSoFar, Loaded
    <3> QED
      BY <2>3, <2>4, <3>4
  <2> QED
    BY <2>1, <2>3, <2>4 DEF FirstOfOwn, o
<1>9. CellsPlaced'
  <2> SUFFICES ASSUME NEW k \in 1 .. Len(book), NEW e \in book'[k].cells
               PROVE  \E n \in 1 .. at : FirstOfOwn(book'[k].offset, e, n)
    BY <1>1, <1>2, CellsPrimed
  <2>1. book'[k].offset = book[k].offset
    BY <1>2
  <2>2. CASE e \in book[k].cells
    <3>1. \E n \in 1 .. at - 1 : FirstOfOwn(book[k].offset, e, n)
      BY <2>2 DEF CellsPlaced
    <3> QED
      BY <1>1, <2>1, <3>1
  <2>3. CASE k = worksheet /\ e \in FirstOf(new)
    <3>1. worksheet # 0 /\ at \in 1 .. at
      BY <1>1, <2>3
    <3> QED
      BY <1>8, <2>1, <2>3, <3>1
  <2>4. e \in book[k].cells \/ (k = worksheet /\ e \in FirstOf(new))
    <3>1. book'[k].cells = IF k = worksheet THEN book[k].cells \cup FirstOf(new)
                           ELSE book[k].cells
      BY <1>2
    <3> HIDE DEF new
    <3> QED
      BY <3>1
  <2> QED
    BY <2>2, <2>3, <2>4
<1>10. LoadedSoFar'
  <2> SUFFICES ASSUME NEW e \in sheet, NEW m \in 1 .. at, InSubstream(e[1], m),
                      NEW d \in Describes(m)
               PROVE  \E c \in book'[e[2]].cells : c[1] = d[1]
    BY <1>1, LoadedPrimed DEF Fills
  <2>1. book[e[2]].cells \subseteq book'[e[2]].cells
    BY <1>2, <1>3
  <2>2. CASE m # at
    <3>1. \E c \in book[e[2]].cells : c[1] = d[1]
      BY <1>1, <2>2 DEF LoadedSoFar, Loaded, Taken
    <3> QED
      BY <2>1, <3>1
  <2>3. CASE m = at
    <3>1. worksheet = e[2]
      BY <1>1, <2>3 DEF OpenSubstream
    <3>2. book'[e[2]].cells = book[e[2]].cells \cup FirstOf(new)
      BY <1>2, <1>3, <3>1
    <3>3. (\E c \in book[e[2]].cells : c[1] = d[1]) \/ d \in FirstOf(new)
      BY <2>3, <3>1 DEF FirstOf, Taken
    <3> QED
      BY <3>2, <3>3
  <2> QED
    BY <2>2, <2>3
<1> QED
  BY <1>1, <1>4, <1>5, <1>6, <1>7, <1>9, <1>10

(* Nothing changes but that the loop goes no further.                      *)
LEMMA Ended ==
  ASSUME CInv, Ends \/ UNCHANGED vars
  PROVE  CInv'
<1> USE DEF CInv
<1>1. UNCHANGED <<stream, at, ret, sheet, worksheet, sst, book>>
  <2>1. CASE Ends
    BY <2>1 DEF Ends, ctx
  <2>2. CASE UNCHANGED vars
    BY <2>2 DEF vars, ctx
  <2> QED
    BY <2>1, <2>2
<1>2. pc' = pc \/ (pc = "run" /\ pc' # "run")
  BY DEF Ends, vars
<1>3. InFile' /\ SheetsFormed' /\ OffsetsLead'
  BY <1>1, <1>2 DEF InFile, SheetsFormed, OffsetsLead
<1>4. StringsSoFar' /\ BofsKnown' /\ OpenSubstream'
  BY <1>1, <1>2, StringsPrimed, BofsPrimed, OpenPrimed
  DEF StringsSoFar, BofsKnown, OpenSubstream
<1>5. CellsPlaced'
  BY <1>1, CellsPrimed DEF CellsPlaced
<1>6. LoadedSoFar'
  BY <1>1, <1>2, LoadedPrimed DEF LoadedSoFar, Loaded, Taken
<1> QED
  BY <1>3, <1>4, <1>5, <1>6

LEMMA CInvInit == Init => CInv
<1> SUFFICES ASSUME Init PROVE CInv
  OBVIOUS
<1>1. book = <<>> /\ Len(book) = 0 /\ sheet = {} /\ worksheet = 0 /\ sst = <<>> /\ at = 1
  BY DEF Init
<1>2. stream \in Streams /\ Len(stream) \in Nat
  BY StreamTyped DEF Init
<1>3. Strings[0] = <<>> /\ at - 1 = 0
  BY <1>1, <1>2, StringsStep
<1> QED
  BY <1>1, <1>2, <1>3
  DEF CInv, InFile, SheetsFormed, StringsSoFar, OffsetsLead, BofsKnown, OpenSubstream,
      CellsPlaced, LoadedSoFar, Loaded

(* The two invariants are kept together.                                   *)
LEMMA CInvStep == IInv /\ CInv /\ [Next]_vars => CInv'
<1> SUFFICES ASSUME IInv, CInv, [Next]_vars PROVE CInv'
  OBVIOUS
<1>1. CASE UNCHANGED vars
  BY <1>1, Ended
<1>2. CASE Next
  <2>1. /\ stream' = stream
        /\ Ends \/ Fails \/ Passes \/ Closes \/ Opens \/ Lists \/ Fills \/ UNCHANGED vars
    BY <1>2, StepKinds
  <2>2. IInv'
    BY InvStep
  <2> QED
    BY <2>1, <2>2, Ended, Failed, Passed, Closed, Opened, Listed, Filled
<1> QED
  BY <1>1, <1>2

LEMMA InvAlways == Spec => [](IInv /\ CInv)
<1>1. Init => IInv /\ CInv
  BY InvInit, CInvInit
<1>2. (IInv /\ CInv) /\ [Next]_vars => (IInv /\ CInv)'
  BY InvStep, CInvStep
<1> QED
  BY <1>1, <1>2, PTL DEF Spec

(* For every stream of records: a sheet of the book holds only cells that  *)
(* a record between the BOF at the sheet's offset and the next BOF or EOF  *)
(* describes, the first record for a position being the one that counts,   *)
(* and a LABELSST has given the string that its index meant.               *)
THEOREM SheetsHoldTheirCells == Spec => []CellsOfOwnSubstream
<1>1. CInv => CellsOfOwnSubstream
  BY PlacedMeansOwn DEF CInv
<1> QED
  BY <1>1, InvAlways, PTL

(* For every stream of records: when cexcel_file_load() has come to the    *)
(* end of the stream without an error, every cell of every substream that  *)
(* a sheet was listed for is in that sheet.                                *)
THEOREM NothingLost == Spec => []SuccessMeansLoaded
<1>1. CInv => SuccessMeansLoaded
  <2> SUFFICES ASSUME CInv, ret = "SUCCESS", at > Len(stream) PROVE Loaded(Len(stream))
    BY DEF SuccessMeansLoaded, LoadedAll
  <2>1. Len(stream) \in Nat /\ at \in Nat /\ Loaded(at - 1)
    BY StreamTyped DEF CInv, InFile, LoadedSoFar
  <2>2. \A m \in 1 .. Len(stream) : m \in 1 .. at - 1
    BY <2>1
  <2> QED
    BY <2>1, <2>2 DEF Loaded
<1> QED
  BY <1>1, InvAlways, PTL
=============================================================================
