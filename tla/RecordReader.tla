---------------------------- MODULE RecordReader ----------------------------
(***************************************************************************)
(* The layers of cexcel below the record handlers: stream.c and the reads  *)
(* and seeks of cole.c, record.c with its CONTINUE records and its two     *)
(* kinds of strings, and the conversion loop of iconv.c.                   *)
(*                                                                         *)
(* A file is a sequence of bytes, and every call that reads some of them   *)
(* is a step.  The loop of cexcel.c is here with the records whose length  *)
(* does not say how much of the file is read: the shared strings, the      *)
(* labels, and a chart to be skipped.  What becomes of sheets and cells is *)
(* BiffReader's matter: a sheet substream is taken to be listed, and the   *)
(* formats before BIFF5 are left out.                                      *)
(***************************************************************************)
EXTENDS Integers, Sequences, SequencesExt

CONSTANTS
  Files,     \* files: [bytes, ole, starts, ...], what they hold for the properties
  Fills,     \* bytes that may be found in memory nobody has written to
  MaxLen,    \* longest record cexcel_record_read() accepts
  MaxSkip,   \* longest record cexcel_record_goto_eof() accepts
  Slack      \* room for the conversion beyond the length of its input

ASSUME LengthsAssumption == MaxSkip \in Nat /\ MaxLen \in Nat /\ Slack \in Nat
ASSUME FillsAssumption   == Fills \subseteq 0 .. 255

ID_EOF == 10      \* 0x00a
ID_CONTINUE == 60 \* 0x03c
ID_CODEPAGE == 66 \* 0x042
ID_SST == 252     \* 0x0fc
ID_LABEL == 516   \* 0x204
ID_BOF58 == 2057  \* 0x809

Word(b) == b[1] + 256 * b[2]

(* Where the records of a file begin: at its beginning and behind every    *)
(* record that is there to its end.                                        *)
LengthAt(f, q)   == Word(SubSeq(f.bytes, q + 3, q + 4))
HeaderAt(f, q)   == q + 4 <= Len(f.bytes)
RecordAt(f, q, n) == HeaderAt(f, q) /\ n = q + 4 + LengthAt(f, q)

ASSUME FilesAssumption ==
  \A f \in Files :
    /\ f.bytes \in Seq(0 .. 255) /\ f.ole \in BOOLEAN
    /\ f.starts \subseteq 0 .. Len(f.bytes)
    /\ \A n \in 0 .. Len(f.bytes) :
         n \in f.starts <=> n = 0 \/ \E q \in f.starts : RecordAt(f, q, n)

VARIABLES
  file,     \* the file that is read
  fill,     \* what uninitialised memory holds
  stream,   \* pos: what tell() reports; fp: where the next read is made;
            \* eof: the flag of stdio
  record,   \* the record buffer and the offset its handler is at
  pc,       \* what the reader is doing
  caller,   \* who reads a record: the loop, a string, or the skip to EOF
  field,    \* [for, need, got]: the bytes a handler is waiting for
  ret,      \* the result of the last handler
  global_btype, has_global, sheet_btype, codepage,
  todo,     \* strings of the SST still to be read
  str,      \* the string in work
  conv,     \* the conversion in work
  sst,      \* the shared strings
  labels    \* the texts of the LABEL records

input == <<file, fill>>
io    == <<stream, record, caller>>
ctx   == <<global_btype, has_global, sheet_btype, codepage>>
texts == <<todo, str, conv, sst, labels>>
vars  == <<input, io, pc, field, ret, ctx, texts>>

NoField  == [for |-> "none", need |-> 0, got |-> <<>>]
NoString == [clen |-> 0, flags |-> 0, wide |-> FALSE, runs |-> 0, phonetic |-> 0,
             text |-> <<>>]
NoConv   == [at |-> 1, out |-> <<>>, left |-> 0, size |-> 0]

Init ==
  /\ file \in Files /\ fill \in Fills
  /\ stream = [pos |-> 0, fp |-> 0, eof |-> FALSE]
  /\ record = [id |-> 0, len |-> 0, data |-> <<>>, offset |-> 0]
  /\ pc = "id" /\ caller = "loop" /\ field = NoField /\ ret = "BADFILE"
  /\ global_btype = "UNDEF" /\ has_global = FALSE /\ sheet_btype = "UNDEF" /\ codepage = 367
  /\ todo = 0 /\ str = NoString /\ conv = NoConv
  /\ sst = <<>> /\ labels = <<>>

-----------------------------------------------------------------------------
(* stream.c.  cole_fread() stops at the size of the stream, fread() sets   *)
(* the end-of-file flag.                                                   *)
Least(a, b) == IF a < b THEN a ELSE b
Size        == Len(file.bytes)

Readable(n) ==
  Least(IF file.ole THEN Least(n, Size - stream.pos) ELSE n,
        IF stream.fp > Size THEN 0 ELSE Size - stream.fp)
StreamRead(n) == SubSeq(file.bytes, stream.fp + 1, stream.fp + Readable(n))
AfterRead(n)  ==
  [pos |-> stream.pos + Readable(n), fp |-> stream.fp + Readable(n),
   eof |-> ~file.ole /\ Readable(n) < n]

StreamEof == IF file.ole THEN stream.pos = Size ELSE stream.eof

(* cole_fseek() moves the position it reports and nothing else; fseek()    *)
(* goes anywhere and clears the flag.                                      *)
CanSeek(n)  == ~file.ole \/ n <= Size - stream.pos
AfterSeek(n) ==
  IF file.ole THEN [stream EXCEPT !.pos = @ + n]
  ELSE [pos |-> stream.pos + n, fp |-> stream.fp + n, eof |-> FALSE]

-----------------------------------------------------------------------------
(* record.c, cexcel_record_read() and the header part of _goto_eof(): what *)
(* could be read before a failure stays in the buffer.                     *)
PartOfWord(b, old) == IF Len(b) = 2 THEN Word(b)
                      ELSE IF Len(b) = 1 THEN b[1] + 256 * (old \div 256)
                      ELSE old
Overwrite(old, new) == new \o SubSeq(old, Len(new) + 1, Len(old))

Return(r) == ret' = r /\ pc' = (IF r = "SUCCESS" THEN "id" ELSE "done") /\ caller' = "loop"

(* A byte for the field in work.                                           *)
Deliver(b) ==
  /\ field' = [field EXCEPT !.need = @ - 1, !.got = Append(@, b)]
  /\ pc' = "fetch"

InBuffer(r) == IF r.offset < Len(r.data) THEN r.data[r.offset + 1] ELSE fill

(* The record could not be read: the loop ends; in the middle of a field   *)
(* the buffer is read on as it is.                                         *)
ReadOn(r) ==
  IF r.len = 0 THEN record' = r /\ Deliver(0)
  ELSE record' = [r EXCEPT !.offset = @ + 1] /\ Deliver(InBuffer(r))

\* Mutant: the skip goes on looking for an EOF record.
RecordFailsUnseen(r) ==
  \/ caller = "loop" /\ record' = r /\ pc' = "done" /\ UNCHANGED <<field, ret>>
  \/ caller = "string" /\ ReadOn(r) /\ UNCHANGED ret
  \/ caller = "skip" /\ record' = r /\ pc' = "id" /\ UNCHANGED <<field, ret>>
RecordFails(r) ==
  \/ caller = "loop" /\ record' = r /\ pc' = "done" /\ UNCHANGED <<field, ret>>
  \/ caller = "string" /\ ReadOn(r) /\ UNCHANGED ret
  \/ caller = "skip" /\ record' = r /\ pc' = "done" /\ ret' = "BADFILE" /\ UNCHANGED field

(* The record was read: its handler begins with it, or a field goes on in  *)
(* it if it is a CONTINUE record; anything else is used up and counts as a *)
(* null byte.                                                              *)
\* Mutant: the offset is not set back.
RestartedStale(r) == r
Restarted(r) == [r EXCEPT !.offset = 0]

RecordRead(r) ==
  \/ /\ caller = "loop"
     /\ record' = [r EXCEPT !.offset = 0] /\ pc' = "handler" /\ UNCHANGED field
  \/ /\ caller = "string" /\ r.id = ID_CONTINUE
     /\ ReadOn(Restarted(r))
  \/ /\ caller = "string" /\ r.id # ID_CONTINUE
     /\ record' = r /\ Deliver(0)

Eof ==
  /\ pc = "id" /\ StreamEof
  /\ RecordFails(record)
  /\ UNCHANGED <<input, stream, caller, ctx, texts>>

ReadId ==
  /\ pc = "id" /\ ~StreamEof
  /\ stream' = AfterRead(2)
  /\ LET r == [record EXCEPT !.id = PartOfWord(StreamRead(2), @)] IN
     IF Readable(2) # 2 THEN RecordFails(r)
     ELSE record' = r /\ pc' = "len" /\ UNCHANGED <<field, ret>>
  /\ UNCHANGED <<input, caller, ctx, texts>>

Longest == IF caller = "skip" THEN MaxSkip ELSE MaxLen

ReadLen ==
  /\ pc = "len"
  /\ stream' = AfterRead(2)
  /\ LET r == [record EXCEPT !.len = PartOfWord(StreamRead(2), @)] IN
     IF Readable(2) # 2 \/ r.len > Longest THEN RecordFails(r)
     ELSE IF caller = "skip" THEN record' = r /\ pc' = "seek" /\ UNCHANGED <<field, ret>>
     ELSE IF r.len = 0 THEN RecordRead(r) /\ UNCHANGED ret
     ELSE record' = r /\ pc' = "data" /\ UNCHANGED <<field, ret>>
  /\ UNCHANGED <<input, caller, ctx, texts>>

\* Mutant: a record that is no CONTINUE is put back, but not its header.
AfterPutBack == IF caller = "string" /\ record.id # ID_CONTINUE THEN stream
                ELSE AfterRead(record.len)
AfterData    == AfterRead(record.len)

ReadData ==
  /\ pc = "data"
  /\ stream' = AfterData
  /\ LET r == [record EXCEPT !.data = Overwrite(@, StreamRead(record.len))] IN
     IF Readable(record.len) # record.len THEN RecordFails(r)
     ELSE RecordRead(r) /\ UNCHANGED ret
  /\ UNCHANGED <<input, caller, ctx, texts>>

(* cexcel_record_data_uchar(): the next byte of the record or, where it is *)
(* used up, of the next one.                                               *)
UsedUp == record.len = record.offset

TakeByte ==
  /\ pc = "fetch" /\ field.need > 0 /\ ~UsedUp
  /\ record' = [record EXCEPT !.offset = @ + 1]
  /\ Deliver(InBuffer(record))
  /\ UNCHANGED <<input, stream, caller, ret, ctx, texts>>

ReadContinue ==
  /\ pc = "fetch" /\ field.need > 0 /\ UsedUp
  /\ pc' = "id" /\ caller' = "string"
  /\ UNCHANGED <<input, stream, record, field, ret, ctx, texts>>

(* How a handler asks for n bytes, and has them.                           *)
Ask(for, n) ==
  /\ pc' = "fetch" /\ caller' = "loop"
  /\ field' = [for |-> for, need |-> n, got |-> <<>>]
Has(for)  == pc = "fetch" /\ field.for = for /\ field.need = 0
WordAt(n) == Word(SubSeq(field.got, n, n + 1))
Given     == WordAt(1)

-----------------------------------------------------------------------------
(* cexcel.c: the loop ends with the records and with a handler that does   *)
(* not succeed.                                                            *)
Handles(id) == pc = "handler" /\ record.id = id
Quiet       == UNCHANGED <<input, stream, record>>

Handled == {ID_SST, ID_LABEL, ID_CODEPAGE, ID_BOF58, ID_EOF}
OtherRecord ==
  /\ pc = "handler" /\ record.id \notin Handled
  /\ Return("SUCCESS") /\ Quiet /\ UNCHANGED <<field, ctx, texts>>

CodepageRecord ==
  /\ Handles(ID_CODEPAGE)
  /\ Ask("codepage", 2) /\ Quiet /\ UNCHANGED <<ret, ctx, texts>>
Codepage ==
  /\ Has("codepage")
  /\ codepage' = Given
  /\ Return("SUCCESS") /\ Quiet /\ UNCHANGED <<field, global_btype, has_global, sheet_btype, texts>>

EofRecord ==
  /\ Handles(ID_EOF)
  /\ sheet_btype' = "UNDEF"
  /\ Return(IF {sheet_btype, global_btype} = {"UNDEF"} THEN "BADFILE" ELSE "SUCCESS")
  /\ Quiet /\ UNCHANGED <<field, global_btype, has_global, codepage, texts>>

(* BOF: the workbook globals, a sheet, or something that is skipped.       *)
BiffType(ver) ==
  IF ver = 1536 THEN "BIFF8" ELSE IF ver \in {0, 1280} THEN "BIFF5" ELSE "UNDEF"
BofType       == BiffType(Given)
BofStream     == WordAt(3)
GlobalStreams == {5, 256}
SheetStream   == 16

BofRecord ==
  /\ Handles(ID_BOF58)
  /\ Ask("bof", 4) /\ Quiet /\ UNCHANGED <<ret, ctx, texts>>

BofBad ==
  /\ Has("bof")
  /\ \/ BofType = "UNDEF"
     \/ BofStream = SheetStream /\ sheet_btype # "UNDEF"
     \/ BofStream \in GlobalStreams /\ {sheet_btype, global_btype} # {"UNDEF"}
  /\ Return("BADFILE") /\ Quiet /\ UNCHANGED <<field, ctx, texts>>

BofGlobal ==
  /\ Has("bof") /\ BofType # "UNDEF" /\ BofStream \in GlobalStreams
  /\ {sheet_btype, global_btype} = {"UNDEF"}
  /\ global_btype' = BofType /\ has_global' = TRUE
  /\ Return("SUCCESS") /\ Quiet /\ UNCHANGED <<field, sheet_btype, codepage, texts>>

BofSheet ==
  /\ Has("bof") /\ BofType # "UNDEF" /\ BofStream = SheetStream
  /\ sheet_btype = "UNDEF"
  /\ sheet_btype' = BofType
  /\ global_btype' = IF has_global THEN global_btype ELSE BofType
  /\ Return("SUCCESS") /\ Quiet /\ UNCHANGED <<field, has_global, codepage, texts>>

(* cexcel_record_goto_eof(): headers are read and data passed over until   *)
(* the data of an EOF record has been.                                     *)
BofUnsupported ==
  /\ Has("bof") /\ BofType # "UNDEF"
  /\ BofStream \notin GlobalStreams \cup {SheetStream}
  /\ ret' = "NOTIMPLEMENTED" /\ pc' = "id" /\ caller' = "skip"
  /\ Quiet /\ UNCHANGED <<field, ctx, texts>>

\* Mutant: only the header is passed over.
PastHeader == stream
PastData   == AfterSeek(record.len)

SkipData ==
  /\ pc = "seek" /\ CanSeek(record.len)
  /\ stream' = PastData
  /\ pc' = IF record.id = ID_EOF THEN "done" ELSE "id"
  /\ UNCHANGED <<input, record, caller, field, ret, ctx, texts>>

SkipFails ==
  /\ pc = "seek" /\ ~CanSeek(record.len)
  /\ ret' = "BADFILE" /\ pc' = "done"
  /\ UNCHANGED <<input, io, field, ctx, texts>>

-----------------------------------------------------------------------------
(* SST: two counts, then the strings.  What follows the strings in the     *)
(* record is left.                                                         *)
SstRecord ==
  /\ Handles(ID_SST)
  /\ Ask("sst", 8) /\ Quiet /\ UNCHANGED <<ret, ctx, texts>>

Sst ==
  /\ Has("sst")
  /\ todo' = WordAt(5) + 65536 * WordAt(7)
  /\ pc' = "sst" /\ Quiet /\ UNCHANGED <<caller, field, ret, ctx, str, conv, sst, labels>>

SstDone ==
  /\ pc = "sst" /\ todo = 0
  /\ Return("SUCCESS") /\ Quiet /\ UNCHANGED <<field, ctx, texts>>

SstString ==
  /\ pc = "sst" /\ todo > 0
  /\ Ask("header", 3) /\ Quiet /\ UNCHANGED <<ret, ctx, texts>>

(* cexcel_record_data_str(), CEXCEL_STYPE_UNICODE: the character count and *)
(* the flags, and what the flags announce.                                 *)
Flag(byte, bit) == (byte \div bit) % 2 = 1
Wide == 1
Phonetic == 4
Rich == 8

StringHeader ==
  /\ Has("header")
  /\ LET flags == field.got[3] IN
     /\ str' = [NoString EXCEPT !.clen = Given, !.flags = flags, !.wide = Flag(flags, Wide)]
     /\ Ask("sizes", (IF Flag(flags, Rich) THEN 2 ELSE 0) + (IF Flag(flags, Phonetic) THEN 4 ELSE 0))
  /\ Quiet /\ UNCHANGED <<ret, ctx, todo, conv, sst, labels>>

StringSizes ==
  /\ Has("sizes")
  /\ str' = [str EXCEPT
               !.runs = IF Flag(str.flags, Rich) THEN Given ELSE 0,
               !.phonetic = IF ~Flag(str.flags, Phonetic) THEN 0
                            ELSE LET n == Len(field.got) - 3
                                 IN  WordAt(n) + 65536 * WordAt(n + 2)]
  /\ pc' = "chars"
  /\ Quiet /\ UNCHANGED <<caller, field, ret, ctx, todo, conv, sst, labels>>

(* Where a record ends between two characters the next one begins with     *)
(* flags of its own.  A null character is lost in the C string.            *)
\* Mutant: the flags in front of the rest of a string are taken for a character.
NoFlagsAgain == FALSE
FlagsAgain   == UsedUp

Flags ==
  /\ pc = "chars" /\ str.clen > 0 /\ FlagsAgain
  /\ Ask("flags", 1) /\ Quiet /\ UNCHANGED <<ret, ctx, texts>>

NextChar ==
  /\ pc = "chars" /\ str.clen > 0 /\ ~FlagsAgain
  /\ Ask("char", IF str.wide THEN 2 ELSE 1) /\ Quiet /\ UNCHANGED <<ret, ctx, texts>>

FlagsRead ==
  /\ Has("flags")
  /\ str' = [str EXCEPT !.wide = Flag(field.got[1], Wide)]
  /\ Ask("char", IF Flag(field.got[1], Wide) THEN 2 ELSE 1)
  /\ Quiet /\ UNCHANGED <<ret, ctx, todo, conv, sst, labels>>

CharRead ==
  /\ Has("char")
  /\ LET ch == IF str.wide THEN Given ELSE field.got[1] IN
     str' = [str EXCEPT !.clen = @ - 1, !.text = IF ch = 0 THEN @ ELSE Append(@, ch)]
  /\ pc' = "chars"
  /\ Quiet /\ UNCHANGED <<caller, field, ret, ctx, todo, conv, sst, labels>>

(* Formatting runs and phonetic data are read and dropped.  The counter of *)
(* the three loops is a WORD.  So are the numbers of characters and runs;  *)
(* the size of the phonetic data is a DWORD, and from 65536 on the counter *)
(* never gets there: bytes are asked for until the process is stopped, the *)
(* later ones from behind the buffer.                                      *)
WordLimit == 65536
TailEnds  == str.phonetic < WordLimit

StringTail ==
  /\ pc = "chars" /\ str.clen = 0 /\ TailEnds
  /\ Ask("tail", 4 * str.runs + str.phonetic)
  /\ Quiet /\ UNCHANGED <<ret, ctx, texts>>

TailNeverEnds ==
  /\ pc = "chars" /\ str.clen = 0 /\ ~TailEnds
  /\ pc' = "adrift"
  /\ Quiet /\ UNCHANGED <<caller, field, ret, ctx, texts>>

SharedString ==
  /\ Has("tail") /\ todo > 0
  /\ sst' = Append(sst, str.text) /\ todo' = todo - 1 /\ str' = NoString
  /\ pc' = "sst"
  /\ Quiet /\ UNCHANGED <<caller, field, ret, ctx, conv, labels>>

-----------------------------------------------------------------------------
(* LABEL: row, column, XF, then a string like those of the SST in BIFF8,   *)
(* and a string of bytes in the code page before.  labels holds the        *)
(* characters of a text, each as the bytes or the code it came from.       *)
Characters(text) == [n \in DOMAIN text |-> <<text[n]>>]

LabelOutside ==
  /\ Handles(ID_LABEL) /\ sheet_btype = "UNDEF"
  /\ Return("UNEXPECTED") /\ Quiet /\ UNCHANGED <<field, ctx, texts>>

LabelRecord ==
  /\ Handles(ID_LABEL) /\ sheet_btype # "UNDEF"
  /\ Ask("position", 6) /\ Quiet /\ UNCHANGED <<ret, ctx, texts>>

LabelString ==
  /\ Has("position")
  /\ IF global_btype = "BIFF8" THEN Ask("header", 3) ELSE Ask("length", 2)
  /\ Quiet /\ UNCHANGED <<ret, ctx, texts>>

LabelTaken(text) ==
  /\ labels' = Append(labels, text)
  /\ str' = NoString /\ conv' = NoConv
  /\ Return("SUCCESS") /\ Quiet /\ UNCHANGED <<field, ctx, todo, sst>>

LabelUnicode == Has("tail") /\ todo = 0 /\ LabelTaken(Characters(str.text))

LabelLength ==
  /\ Has("length")
  /\ Ask("bytes", Given) /\ Quiet /\ UNCHANGED <<ret, ctx, texts>>

(* iconv.c: the code pages of the table stand for themselves, three of     *)
(* them for all: ASCII, CP932 and UTF-16, whose text is taken as it is.    *)
CodepageKnown == codepage \in {367, 932, 1200}
Input         == field.got
Lead(b)       == codepage = 932 /\ (b \in 129 .. 159 \/ b \in 224 .. 252)
CharBytes     == IF Lead(Input[conv.at]) THEN 2 ELSE 1
CharLegible ==
  /\ codepage = 367 => Input[conv.at] < 128
  /\ conv.at + CharBytes - 1 <= Len(Input)
Utf8Length  == IF Input[conv.at] < 128 THEN 1 ELSE 3
Char        == SubSeq(Input, conv.at, conv.at + CharBytes - 1)

TextRefused ==
  /\ conv' = NoConv
  /\ Return("OUTOFMEMORY") /\ Quiet /\ UNCHANGED <<field, ctx, todo, str, sst, labels>>

CodepageUnknown == Has("bytes") /\ ~CodepageKnown /\ TextRefused

TakenAsUtf16 ==
  /\ Has("bytes") /\ (codepage = 1200 \/ (CodepageKnown /\ Input = <<>>))
  /\ LabelTaken(Characters(Input))

BeginConversion ==
  /\ Has("bytes") /\ CodepageKnown /\ codepage # 1200 /\ Input # <<>>
  /\ conv' = [at |-> 1, out |-> <<>>,
              left |-> Len(Input) + Slack, size |-> Len(Input) + Slack]
  /\ pc' = "convert"
  /\ Quiet /\ UNCHANGED <<caller, field, ret, ctx, todo, str, sst, labels>>

Converting == pc = "convert" /\ conv.at <= Len(Input)

ConvertChar ==
  /\ Converting /\ CharLegible /\ Utf8Length <= conv.left
  /\ conv' = [conv EXCEPT !.at = @ + CharBytes, !.left = @ - Utf8Length,
                          !.out = Append(@, Char)]
  /\ Quiet /\ UNCHANGED <<pc, caller, field, ret, ctx, todo, str, sst, labels>>

(* E2BIG: the buffer grows by the length of the input.  out_size has not   *)
(* been set by then, so the output starts again at the buffer's beginning. *)
GrowOutput ==
  /\ Converting /\ CharLegible /\ Utf8Length > conv.left
  /\ conv' = [conv EXCEPT !.size = @ + Len(Input), !.left = conv.size + Len(Input),
                          !.out = <<>>]
  /\ Quiet /\ UNCHANGED <<pc, caller, field, ret, ctx, todo, str, sst, labels>>

TextIllegible == Converting /\ ~CharLegible /\ TextRefused

ConversionDone ==
  /\ pc = "convert" /\ conv.at > Len(Input)
  /\ LabelTaken(conv.out)

-----------------------------------------------------------------------------
Finished == pc \in {"done", "adrift"} /\ UNCHANGED vars

Next ==
  \/ Eof \/ ReadId \/ ReadLen \/ ReadData \/ TakeByte \/ ReadContinue
  \/ OtherRecord \/ CodepageRecord \/ Codepage \/ EofRecord
  \/ BofRecord \/ BofBad \/ BofGlobal \/ BofSheet \/ BofUnsupported
  \/ SkipData \/ SkipFails
  \/ SstRecord \/ Sst \/ SstString \/ StringHeader \/ StringSizes
  \/ Flags \/ FlagsRead \/ NextChar \/ CharRead \/ StringTail \/ TailNeverEnds
  \/ SharedString \/ SstDone
  \/ LabelOutside \/ LabelRecord \/ LabelString \/ LabelUnicode \/ LabelLength
  \/ CodepageUnknown \/ TakenAsUtf16 \/ BeginConversion
  \/ ConvertChar \/ GrowOutput \/ TextIllegible \/ ConversionDone
  \/ Finished

Spec == Init /\ [][Next]_vars

(* The reader is one thread: while it can step, it steps.                  *)
FairSpec == Spec /\ WF_vars(Next)

-----------------------------------------------------------------------------
(* A shared string is the one that was written, however the writer cut the *)
(* table into CONTINUE records, with one-byte and two-byte characters,     *)
(* formatting runs and phonetic data, and a reader that came to its end    *)
(* has it: the first file.intact of them, whose records are in the file to *)
(* their end and in a row.  What is missing behind them does not reach     *)
(* back.  (A record that cannot be read whole loses what of it is there:   *)
(* record.c does not set the offset back, and goes on with the bytes the   *)
(* buffer happens to hold.  Of the strings from there on nothing is said.) *)
StringsKept ==
  /\ \A n \in 1 .. Least(Len(sst), file.intact) : sst[n] = file.strings[n]
  /\ pc = "done" => Len(sst) >= file.intact

(* Whatever a string makes the reader consume, the loop goes on at the     *)
(* beginning of a record, or at the end of what there is: also when the    *)
(* table is cut off, or lacks a CONTINUE record and swallows another one.  *)
(* (A record longer than the buffer stops the loop, but not a string: the  *)
(* bytes of its data are then taken for records.)                          *)
(* The place reads are made from never runs ahead of the position that is  *)
(* told, and nothing is read into the record behind its buffer.            *)
RecordsFit == \A q \in file.starts : HeaderAt(file, q) => LengthAt(file, q) <= MaxLen
OnRecordBoundary ==
  /\ pc = "id" /\ caller = "loop" /\ RecordsFit => stream.pos \in file.starts \cup {Size}
  /\ stream.fp \in 0 .. stream.pos /\ Len(record.data) <= MaxLen

(* From a complete file all strings and all labels are read: no record is  *)
(* taken for the continuation of another one.  A label that fits the first *)
(* buffer is converted from its first to its last character, a double-byte *)
(* character never being torn apart.                                       *)
Utf8Size(text) ==
  FoldSeq(LAMBDA ch, n : n + (IF ch[1] < 128 THEN 1 ELSE 3), 0, text)
Roomy(text) == Utf8Size(text) <= Len(FlattenSeq(text)) + Slack
AllTextsRead ==
  pc = "done" /\ file.whole /\ ret = "SUCCESS" =>
    /\ sst = file.strings /\ Len(labels) = Len(file.labels)
    /\ \A n \in DOMAIN labels : Roomy(file.labels[n]) => labels[n] = file.labels[n]

(* A chart that was skipped ends where the reader stands: behind the first *)
(* EOF record that follows the chart's BOF record.  (In an OLE2 container  *)
(* cole_fseek() does not move the place of the next read; a BOF record of  *)
(* less than four bytes is read on in the next record, which may be EOF.)  *)
IdAt(f, q)  == Word(SubSeq(f.bytes, q + 1, q + 2))
EofAt(f, q) == q \in f.starts /\ HeaderAt(f, q) /\ IdAt(f, q) = ID_EOF
ChartAt(f, q) ==
  /\ q \in f.starts /\ q + 8 <= Len(f.bytes) /\ IdAt(f, q) = ID_BOF58
  /\ Word(SubSeq(f.bytes, q + 7, q + 8)) \notin GlobalStreams \cup {SheetStream}
NoEofBetween(f, b, q) == \A x \in f.starts : b < x /\ x < q => ~EofAt(f, x)

BofsWhole ==
  \A q \in file.starts :
    HeaderAt(file, q) /\ IdAt(file, q) = ID_BOF58 => LengthAt(file, q) >= 4
SkipInPlainFile ==
  pc = "done" /\ ret = "NOTIMPLEMENTED" /\ ~file.ole /\ RecordsFit /\ BofsWhole =>
    \E b, q \in file.starts :
      /\ ChartAt(file, b) /\ EofAt(file, q) /\ RecordAt(file, q, stream.pos)
      /\ b < q /\ NoEofBetween(file, b, q)

(* The reader comes to the end of every file, but for the loop over the    *)
(* phonetic data of a string that announces 64 KiB of it or more: no       *)
(* missing or torn record, no skip, no growing output keeps it from there. *)
Termination == <>(pc = "done") \/ <>[](pc = "adrift" /\ str.phonetic >= WordLimit)

-----------------------------------------------------------------------------
(* What the code says of itself and does not keep.                         *)

(* iconv.c, where the output is enlarged: "converted string is longer than *)
(* out buffer"; the conversion should then go on, not start its text anew. *)
LabelsWhole ==
  \A n \in DOMAIN labels :
    n <= Len(file.labels) /\ file.whole => labels[n] = file.labels[n]
=============================================================================
