------------------------- MODULE RecordReaderProofs -------------------------
(***************************************************************************)
(* For every file, whatever its records are and whatever is found in       *)
(* memory that was not written to: RecordReader keeps to the boundaries of *)
(* the records and of its buffer.                                          *)
(*                                                                         *)
(* A step is one of three kinds.  A handler takes bytes from the buffer    *)
(* and does not touch the file; a reading step moves the position over a   *)
(* part of a record, which part the phase tells; a skipping one moves it   *)
(* for good, as the loop is never entered again after it.                  *)
(*                                                                         *)
(* On these rests the second theorem: what the buffer holds is a record of *)
(* the file, and a skip goes from record to record.                        *)
(***************************************************************************)
EXTENDS RecordReader, Recursion

Byte == 0 .. 255

InHandler == {"handler", "fetch", "sst", "chars", "adrift", "convert"}

(* The types of what the position depends on, and who may be where.        *)
Typed ==
  /\ file \in Files
  /\ pc \in InHandler \cup {"id", "len", "data", "seek", "done"}
  /\ caller \in {"loop", "string", "skip"}
  /\ stream \in [pos : Nat, fp : Nat, eof : BOOLEAN]
  /\ record \in [id : Nat, len : Nat, data : Seq(Byte), offset : Nat]
  /\ caller = "skip" => pc \in {"id", "len", "seek", "done"}
  /\ pc = "seek" => caller = "skip"

(* The place of the next read and the position that is told go together as *)
(* long as nothing is skipped; a skip moves only one of them in a stream,  *)
(* and in a plain file it may move both behind the end.                    *)
Positions ==
  /\ stream.fp <= stream.pos
  /\ file.ole \/ caller # "skip" => stream.pos <= Size
  /\ ~file.ole \/ caller # "skip" => stream.fp = stream.pos

(* No more than MaxLen bytes of a record are read into the buffer.         *)
Buffered ==
  /\ Len(record.data) <= MaxLen
  /\ pc = "data" => record.len <= MaxLen

(* How far into a record the position is.                                  *)
Boundary == file.starts \cup {Size}
AtRecord ==
  RecordsFit /\ caller # "skip" =>
    /\ pc = "len" => \E q \in file.starts : stream.pos = q + 2
    /\ pc = "data" => \E q \in file.starts :
                        /\ HeaderAt(file, q) /\ stream.pos = q + 4
                        /\ record.len = LengthAt(file, q)
    /\ pc \in InHandler \cup {"id"} => stream.pos \in Boundary

ReaderInv == Typed /\ Positions /\ Buffered /\ AtRecord

-----------------------------------------------------------------------------
(* What the assumption says of the file that is read.                      *)
LEMMA FileTyped ==
  ASSUME Typed
  PROVE  /\ file.bytes \in Seq(Byte) /\ file.ole \in BOOLEAN /\ Size \in Nat
         /\ file.starts \subseteq 0 .. Size /\ 0 \in file.starts
         /\ \A q \in file.starts :
              HeaderAt(file, q) /\ q + 4 + LengthAt(file, q) \in 0 .. Size
                => q + 4 + LengthAt(file, q) \in file.starts
<1>1. file \in Files
  BY DEF Typed
<1>2. /\ file.bytes \in Seq(Byte) /\ file.ole \in BOOLEAN
      /\ file.starts \subseteq 0 .. Len(file.bytes)
      /\ \A n \in 0 .. Len(file.bytes) :
           n \in file.starts <=> n = 0 \/ \E q \in file.starts : RecordAt(file, q, n)
  BY <1>1, FilesAssumption DEF Byte
<1>3. Size \in Nat
  BY <1>2 DEF Size
<1>4. 0 \in file.starts
  BY <1>2, <1>3 DEF Size
<1>5. ASSUME NEW q \in file.starts, HeaderAt(file, q),
             q + 4 + LengthAt(file, q) \in 0 .. Size
      PROVE  q + 4 + LengthAt(file, q) \in file.starts
  BY <1>2, <1>5 DEF RecordAt, Size
<1> QED
  BY <1>2, <1>3, <1>4, <1>5 DEF Size

(* A read of n bytes stops at the end of the file, and nowhere before.     *)
LEMMA ReadStops ==
  ASSUME Typed, Positions, NEW n \in Nat
  PROVE  /\ Readable(n) \in 0 .. n
         /\ StreamRead(n) \in Seq(Byte) /\ Len(StreamRead(n)) = Readable(n)
         /\ AfterRead(n) \in [pos : Nat, fp : Nat, eof : BOOLEAN]
         /\ AfterRead(n).pos = stream.pos + Readable(n)
         /\ AfterRead(n).fp = stream.fp + Readable(n)
         /\ stream.pos <= Size => stream.pos + Readable(n) <= Size
         /\ stream.pos <= Size /\ stream.fp = stream.pos /\ Readable(n) # n
              => stream.pos + Readable(n) = Size
<1>1. file.bytes \in Seq(Byte) /\ file.ole \in BOOLEAN /\ Size \in Nat
  BY FileTyped
<1>2. stream.pos \in Nat /\ stream.fp \in Nat
  BY DEF Typed
<1>3. file.ole => stream.fp <= stream.pos /\ stream.pos <= Size
  BY DEF Positions
<1>4. ~file.ole => stream.fp = stream.pos
  BY DEF Positions
<1> DEFINE m == Readable(n)
           pos == stream.pos
           fp == stream.fp
<1>5. /\ m \in 0 .. n /\ (m > 0 => fp + m <= Size)
      /\ pos <= Size => pos + m <= Size
      /\ pos <= Size /\ fp = pos /\ m # n => pos + m = Size
  <2>1. CASE file.ole
    BY <1>1, <1>2, <1>3, <2>1 DEF Readable, Least
  <2>2. CASE ~file.ole
    BY <1>1, <1>2, <1>4, <2>2 DEF Readable, Least
  <2> QED
    BY <2>1, <2>2
<1>6. StreamRead(n) = SubSeq(file.bytes, fp + 1, fp + m)
  BY DEF StreamRead
<1>7. /\ AfterRead(n) = [pos |-> pos + m, fp |-> fp + m, eof |-> ~file.ole /\ m < n]
      /\ pos \in Nat /\ fp \in Nat /\ m \in Nat
  BY <1>2, <1>5 DEF AfterRead
<1>8. StreamRead(n) \in Seq(Byte) /\ Len(StreamRead(n)) = m
  <2> HIDE DEF m, fp
  <2>1. Len(file.bytes) = Size
    BY DEF Size
  <2>2. CASE m = 0
    <3>1. fp \in Nat
      BY <1>7
    <3>2. fp + 1 > fp + m
      BY <2>2, <3>1
    <3>3. SubSeq(file.bytes, fp + 1, fp + m) = <<>>
      BY <1>1, <2>2, <3>1, <3>2
    <3> QED
      BY <1>6, <2>2, <3>3, EmptySeq
  <2>3. CASE m > 0
    <3>1. fp + 1 \in Int /\ fp + m \in Int /\ fp + 1 <= fp + m
      BY <1>7, <2>3
    <3>2. \A i \in fp + 1 .. fp + m : i \in 1 .. Len(file.bytes)
      BY <1>1, <1>5, <1>7, <2>1, <2>3
    <3>3. \A i \in fp + 1 .. fp + m : file.bytes[i] \in Byte
      BY <1>1, <3>2, ElementOfSeq
    <3>4. /\ SubSeq(file.bytes, fp + 1, fp + m) \in Seq(Byte)
          /\ Len(SubSeq(file.bytes, fp + 1, fp + m)) = (fp + m) - (fp + 1) + 1
      BY <3>1, <3>3, SubSeqProperties
    <3>5. (fp + m) - (fp + 1) + 1 = m
      BY <1>7
    <3> QED
      BY <1>6, <3>4, <3>5
  <2> QED
    BY <1>7, <2>2, <2>3
<1> HIDE DEF m, pos, fp
<1>9. AfterRead(n) \in [pos : Nat, fp : Nat, eof : BOOLEAN]
  BY <1>7
<1>10. AfterRead(n).pos = pos + m /\ AfterRead(n).fp = fp + m
  BY <1>7
<1> QED
  BY <1>5, <1>8, <1>9, <1>10 DEF m, pos, fp

(* Two bytes make a number; one of them, the lower half of one.            *)
LEMMA WordTyped ==
  ASSUME NEW b \in Seq(Byte), Len(b) \in 0 .. 2, NEW old \in Nat
  PROVE  PartOfWord(b, old) \in Nat
<1>1. CASE Len(b) = 2
  <2>1. b[1] \in Byte /\ b[2] \in Byte
    BY <1>1, ElementOfSeq, SMTT(30)
  <2>2. \A x, y \in Byte : x + 256 * y \in Nat
    BY DEF Byte
  <2> QED
    BY <1>1, <2>1, <2>2 DEF PartOfWord, Word
<1>2. CASE Len(b) = 1
  <2>1. b[1] \in Byte
    BY <1>2, ElementOfSeq
  <2>2. \A x \in Byte, y \in Nat : x + 256 * (y \div 256) \in Nat
    BY DEF Byte
  <2> QED
    BY <1>2, <2>1, <2>2 DEF PartOfWord
<1>3. CASE Len(b) = 0
  BY <1>3 DEF PartOfWord
<1> QED
  BY <1>1, <1>2, <1>3

(* What is read is put over the beginning of the buffer.                   *)
LEMMA OverwriteLength ==
  ASSUME NEW old \in Seq(Byte), NEW new \in Seq(Byte), NEW n \in Nat,
         Len(old) <= n, Len(new) <= n
  PROVE  Overwrite(old, new) \in Seq(Byte) /\ Len(Overwrite(old, new)) <= n
<1> DEFINE rest == SubSeq(old, Len(new) + 1, Len(old))
<1>1. Len(old) \in Nat /\ Len(new) \in Nat
  OBVIOUS
<1>2. CASE Len(new) >= Len(old)
  <2>1. rest = <<>>
    BY <1>1, <1>2
  <2>2. Overwrite(old, new) = new
    BY <2>1, ConcatEmptySeq DEF Overwrite
  <2> QED
    BY <2>2
<1>3. CASE Len(new) < Len(old)
  <2>1. rest \in Seq(Byte) /\ Len(rest) = Len(old) - Len(new)
    BY <1>1, <1>3
  <2> HIDE DEF rest
  <2>2. new \o rest \in Seq(Byte) /\ Len(new \o rest) = Len(new) + Len(rest)
    BY <2>1
  <2>3. Len(new \o rest) = Len(old)
    BY <1>1, <2>1, <2>2
  <2> QED
    BY <2>2, <2>3 DEF Overwrite, rest
<1> QED
  BY <1>1, <1>2, <1>3

-----------------------------------------------------------------------------
(* A record that cannot be read ends the loop and the skip; a string reads *)
(* on in the buffer, which stays as it is.                                 *)
RecordType == [id : Nat, len : Nat, data : Seq(Byte), offset : Nat]

LEMMA ReadOnKeeps ==
  ASSUME NEW r \in RecordType, ReadOn(r)
  PROVE  /\ record' \in RecordType /\ record'.data = r.data /\ record'.len = r.len
         /\ pc' = "fetch"
<1>1. CASE r.len = 0
  BY <1>1 DEF ReadOn, Deliver
<1>2. CASE r.len # 0
  <2>1. record' = [r EXCEPT !.offset = @ + 1] /\ pc' = "fetch"
    BY <1>2 DEF ReadOn, Deliver
  <2> QED
    BY <2>1 DEF RecordType
<1> QED
  BY <1>1, <1>2

LEMMA FailKeeps ==
  ASSUME NEW r \in RecordType, RecordFails(r)
  PROVE  /\ record' \in RecordType /\ record'.data = r.data /\ record'.len = r.len
         /\ pc' \in {"done", "fetch"}
         /\ pc' = "fetch" => caller = "string"
<1>1. CASE caller = "string" /\ ReadOn(r)
  BY <1>1, ReadOnKeeps
<1>2. CASE record' = r /\ pc' = "done"
  BY <1>2
<1> QED
  BY <1>1, <1>2 DEF RecordFails

(* A record that was read goes to its handler, or to the string.           *)
LEMMA ReadKeeps ==
  ASSUME NEW r \in RecordType, RecordRead(r)
  PROVE  /\ record' \in RecordType /\ record'.data = r.data
         /\ pc' \in {"handler", "fetch"} /\ caller \in {"loop", "string"}
<1>1. [r EXCEPT !.offset = 0] \in RecordType /\ [r EXCEPT !.offset = 0].data = r.data
  BY DEF RecordType
<1>2. CASE /\ caller = "loop" /\ record' = [r EXCEPT !.offset = 0] /\ pc' = "handler"
  BY <1>1, <1>2
<1>3. CASE caller = "string" /\ ReadOn(Restarted(r))
  BY <1>1, <1>3, ReadOnKeeps DEF Restarted
<1>4. CASE caller = "string" /\ record' = r /\ Deliver(0)
  BY <1>4 DEF Deliver
<1> QED
  BY <1>2, <1>3, <1>4 DEF RecordRead

(* A read moves the two places together.                                   *)
LEMMA MovedOn ==
  ASSUME Typed, Positions, NEW n \in Nat,
         file' = file, caller' = caller, stream' = AfterRead(n)
  PROVE  Positions' /\ stream' \in [pos : Nat, fp : Nat, eof : BOOLEAN]
<1>1. /\ stream.pos \in Nat /\ stream.fp \in Nat /\ Size \in Nat
      /\ file.ole \in BOOLEAN
  BY FileTyped DEF Typed
<1> DEFINE m == Readable(n)
<1>2. /\ m \in Nat /\ stream' \in [pos : Nat, fp : Nat, eof : BOOLEAN]
      /\ stream'.pos = stream.pos + m /\ stream'.fp = stream.fp + m
      /\ stream.pos <= Size => stream.pos + m <= Size
  BY ReadStops
<1> HIDE DEF m
<1>3. Size' = Size
  BY DEF Size
<1>4. stream'.fp <= stream'.pos
  BY <1>1, <1>2 DEF Positions
<1>5. ~file.ole \/ caller # "skip" => stream'.fp = stream'.pos
  BY <1>1, <1>2 DEF Positions
<1>6. file.ole \/ caller # "skip" => stream'.pos <= Size
  BY <1>1, <1>2 DEF Positions
<1> QED
  BY <1>2, <1>3, <1>4, <1>5, <1>6 DEF Positions

(* What depends on the file alone stays with it.                           *)
LEMMA SameFile ==
  ASSUME file' = file
  PROVE  /\ Size' = Size /\ Boundary' = Boundary /\ RecordsFit' = RecordsFit
         /\ file'.starts = file.starts
BY DEF Size, Boundary, RecordsFit, HeaderAt, LengthAt

(* A step that takes from the buffer: the file is where it was.            *)
BufferStep ==
  /\ UNCHANGED <<file, stream>>
  /\ record' \in RecordType /\ record'.data = record.data
  /\ pc \in InHandler /\ pc' \in InHandler \cup {"id", "done"}
  /\ caller' \in {"loop", caller, "string"}

(* One of a handler, other than the first of BOF: it makes no record, and  *)
(* the fields it asks for are not those of a BOF record.                   *)
HandlerStep ==
  /\ BufferStep
  /\ pc' # "handler" /\ caller' \in {"loop", caller}
  /\ pc' = "fetch" => field'.for # "bof"
  /\ field' = field \/ \E x, n : field' = [for |-> x, need |-> n, got |-> <<>>]
  /\ caller' = "string" => field' = field
  /\ ret' \in {ret, "SUCCESS", "BADFILE", "UNEXPECTED", "OUTOFMEMORY"}

LEMMA BufferKeeps ==
  ASSUME ReaderInv, BufferStep
  PROVE  ReaderInv'
<1>1. file' = file /\ stream' = stream /\ pc' \in InHandler \cup {"id", "done"}
  BY DEF BufferStep
<1>2. caller # "skip" /\ caller' \in {"loop", "string"}
  BY DEF BufferStep, ReaderInv, Typed, InHandler
<1>3. Typed'
  BY <1>1, <1>2 DEF BufferStep, ReaderInv, Typed, RecordType, InHandler
<1>4. Positions'
  BY <1>1, <1>2, SameFile DEF ReaderInv, Positions
<1>5. Buffered'
  BY <1>1 DEF BufferStep, ReaderInv, Buffered, InHandler
<1>6. AtRecord'
  <2>1. SUFFICES ASSUME RecordsFit PROVE stream.pos \in Boundary
    BY <1>1, SameFile DEF AtRecord, InHandler
  <2> QED
    BY <1>2, <2>1 DEF BufferStep, ReaderInv, AtRecord
<1> QED
  BY <1>3, <1>4, <1>5, <1>6 DEF ReaderInv

-----------------------------------------------------------------------------
(* Where a reading step of the loop or of a string comes to: as far as it  *)
(* was asked to, or to the end of the file.                                *)
LEMMA Ahead ==
  ASSUME Typed, Positions, caller # "skip", NEW n \in Nat
  PROVE  /\ stream.pos \in 0 .. Size
         /\ Readable(n) # n => AfterRead(n).pos = Size
         /\ Readable(n) = n => AfterRead(n).pos = stream.pos + n /\ stream.pos + n <= Size
<1>1. stream.pos \in Nat /\ Size \in Nat
  BY FileTyped DEF Typed
<1>2. stream.pos <= Size /\ stream.fp = stream.pos
  BY DEF Positions
<1>3. AfterRead(n).pos = stream.pos + Readable(n)
  BY ReadStops
<1>4. Readable(n) # n => stream.pos + Readable(n) = Size
  BY <1>2, ReadStops
<1>5. stream.pos + Readable(n) <= Size
  BY <1>2, ReadStops
<1> QED
  BY <1>1, <1>2, <1>3, <1>4, <1>5

LEMMA EofKeeps ==
  ASSUME ReaderInv, Eof
  PROVE  ReaderInv'
<1>1. /\ file' = file /\ stream' = stream /\ caller' = caller /\ pc = "id"
      /\ RecordFails(record)
  BY DEF Eof, input
<1>2. record \in RecordType
  BY DEF ReaderInv, Typed, RecordType
<1>3. /\ record' \in RecordType /\ record'.data = record.data
      /\ pc' \in {"done", "fetch"} /\ (pc' = "fetch" => caller = "string")
  BY <1>1, <1>2, FailKeeps
<1>4. Typed'
  BY <1>1, <1>3 DEF ReaderInv, Typed, RecordType, InHandler
<1>5. Positions'
  BY <1>1, SameFile DEF ReaderInv, Positions
<1>6. Buffered'
  BY <1>3 DEF ReaderInv, Buffered
<1>7. AtRecord'
  <2>1. SUFFICES ASSUME RecordsFit, caller # "skip" PROVE stream.pos \in Boundary
    BY <1>1, <1>3, SameFile DEF AtRecord, InHandler
  <2> QED
    BY <1>1, <2>1 DEF ReaderInv, AtRecord
<1> QED
  BY <1>4, <1>5, <1>6, <1>7 DEF ReaderInv

(* The record number: a beginning of a record, with room behind it.        *)
LEMMA ReadIdKeeps ==
  ASSUME ReaderInv, ReadId
  PROVE  ReaderInv'
<1>1. file' = file /\ caller' = caller /\ stream' = AfterRead(2) /\ pc = "id"
  BY DEF ReadId, input
<1>2. Typed /\ Positions /\ Buffered /\ AtRecord /\ record \in RecordType
  BY DEF ReaderInv, Typed, RecordType
<1>3. PICK r : r = [record EXCEPT !.id = PartOfWord(StreamRead(2), @)]
  OBVIOUS
<1>4. r \in RecordType /\ r.data = record.data
  <2>1. PartOfWord(StreamRead(2), record.id) \in Nat
    BY <1>2, ReadStops, WordTyped DEF RecordType
  <2> QED
    BY <1>2, <1>3, <2>1 DEF RecordType
<1>5. \/ Readable(2) # 2 /\ RecordFails(r)
      \/ Readable(2) = 2 /\ record' = r /\ pc' = "len"
  BY <1>3 DEF ReadId
<1>6. /\ record' \in RecordType /\ record'.data = record.data
      /\ pc' \in {"done", "fetch", "len"}
      /\ pc' = "fetch" => caller = "string" /\ Readable(2) # 2
      /\ pc' = "len" => Readable(2) = 2
  BY <1>4, <1>5, FailKeeps
<1>7. Positions' /\ stream' \in [pos : Nat, fp : Nat, eof : BOOLEAN]
  BY <1>1, <1>2, MovedOn
<1>8. Typed'
  BY <1>1, <1>2, <1>6, <1>7 DEF Typed, RecordType, InHandler
<1>9. Buffered'
  BY <1>2, <1>6 DEF Buffered
<1>10. AtRecord'
  <2>1. SUFFICES ASSUME RecordsFit, caller # "skip"
                 PROVE  /\ pc' = "len" => \E q \in file.starts : stream'.pos = q + 2
                        /\ pc' = "fetch" => stream'.pos \in Boundary
    BY <1>1, <1>6, SameFile DEF AtRecord, InHandler
  <2>2. stream.pos \in Boundary
    BY <1>1, <1>2, <2>1 DEF AtRecord
  <2>3. ASSUME pc' = "len" PROVE \E q \in file.starts : stream'.pos = q + 2
    <3>1. stream'.pos = stream.pos + 2 /\ stream.pos # Size
      BY <1>1, <1>2, <1>6, <2>1, <2>3, Ahead, FileTyped
    <3> QED
      BY <2>2, <3>1 DEF Boundary
  <2>4. ASSUME pc' = "fetch" PROVE stream'.pos = Size
    BY <1>1, <1>2, <1>6, <2>1, <2>4, Ahead
  <2> QED
    BY <2>3, <2>4 DEF Boundary
<1> QED
  BY <1>7, <1>8, <1>9, <1>10 DEF ReaderInv

(* The length: behind it are the data, or the next record if there are     *)
(* none.                                                                   *)
LEMMA ReadLenKeeps ==
  ASSUME ReaderInv, ReadLen
  PROVE  ReaderInv'
<1>1. file' = file /\ caller' = caller /\ stream' = AfterRead(2) /\ pc = "len"
  BY DEF ReadLen, input
<1>2. Typed /\ Positions /\ Buffered /\ AtRecord /\ record \in RecordType
  BY DEF ReaderInv, Typed, RecordType
<1>3. PICK r : r = [record EXCEPT !.len = PartOfWord(StreamRead(2), @)]
  OBVIOUS
<1>4. r \in RecordType /\ r.data = record.data /\ r.len = PartOfWord(StreamRead(2), record.len)
  <2>1. PartOfWord(StreamRead(2), record.len) \in Nat
    BY <1>2, ReadStops, WordTyped DEF RecordType
  <2> QED
    BY <1>2, <1>3, <2>1 DEF RecordType
<1>5. \/ (Readable(2) # 2 \/ r.len > Longest) /\ RecordFails(r)
      \/ /\ Readable(2) = 2 /\ ~(r.len > Longest) /\ caller = "skip"
         /\ record' = r /\ pc' = "seek"
      \/ /\ Readable(2) = 2 /\ ~(r.len > Longest) /\ caller # "skip" /\ r.len = 0
         /\ RecordRead(r)
      \/ /\ Readable(2) = 2 /\ ~(r.len > Longest) /\ caller # "skip" /\ r.len # 0
         /\ record' = r /\ pc' = "data"
  BY <1>3 DEF ReadLen
<1>6. /\ record' \in RecordType /\ record'.data = record.data
      /\ pc' \in {"done", "fetch", "seek", "handler", "data"}
      /\ pc' \in {"fetch", "handler", "data"} => caller # "skip"
      /\ pc' = "seek" => caller = "skip"
      /\ pc' = "fetch" => \/ Readable(2) # 2 \/ r.len > Longest
                          \/ Readable(2) = 2 /\ r.len = 0
      /\ pc' = "handler" => Readable(2) = 2 /\ r.len = 0
      /\ pc' = "data" => Readable(2) = 2 /\ record'.len = r.len /\ ~(r.len > Longest)
  <2>1. CASE (Readable(2) # 2 \/ r.len > Longest) /\ RecordFails(r)
    BY <1>4, <2>1, FailKeeps
  <2>2. CASE /\ Readable(2) = 2 /\ caller = "skip" /\ record' = r /\ pc' = "seek"
    BY <1>4, <2>2
  <2>3. CASE Readable(2) = 2 /\ r.len = 0 /\ RecordRead(r)
    BY <1>4, <2>3, ReadKeeps
  <2>4. CASE /\ Readable(2) = 2 /\ ~(r.len > Longest) /\ caller # "skip"
             /\ record' = r /\ pc' = "data"
    BY <1>4, <2>4
  <2> QED
    BY <1>5, <2>1, <2>2, <2>3, <2>4
<1>7. Positions' /\ stream' \in [pos : Nat, fp : Nat, eof : BOOLEAN]
  BY <1>1, <1>2, MovedOn
<1>8. Typed'
  BY <1>1, <1>2, <1>6, <1>7 DEF Typed, RecordType, InHandler
<1>9. Buffered'
  <2>1. ASSUME pc' = "data" PROVE record'.len <= MaxLen
    BY <1>4, <1>6, <2>1, LengthsAssumption DEF Longest, RecordType
  <2> QED
    BY <1>2, <1>6, <2>1 DEF Buffered
<1>10. AtRecord'
  <2>1. SUFFICES ASSUME RecordsFit, caller # "skip"
                 PROVE  /\ pc' \in {"handler", "fetch"} => stream'.pos \in Boundary
                        /\ pc' = "data" => \E q \in file.starts :
                                            /\ HeaderAt(file, q) /\ stream'.pos = q + 4
                                            /\ record'.len = LengthAt(file, q)
    BY <1>1, <1>6, SameFile DEF AtRecord, InHandler
  <2>2. PICK q \in file.starts : stream.pos = q + 2
    BY <1>1, <1>2, <2>1 DEF AtRecord
  <2>3. q \in Nat /\ Size \in Nat
    BY <1>2, FileTyped
  <2>4. CASE Readable(2) # 2
    <3>1. stream'.pos = Size /\ pc' # "data"
      BY <1>1, <1>2, <1>6, <2>1, <2>4, Ahead
    <3> QED
      BY <3>1 DEF Boundary
  <2>5. CASE Readable(2) = 2
    <3>1. stream'.pos = q + 4 /\ q + 4 <= Size
      BY <1>1, <1>2, <2>1, <2>2, <2>3, <2>5, Ahead
    <3>2. HeaderAt(file, q)
      BY <3>1 DEF HeaderAt, Size
    <3>3. StreamRead(2) = SubSeq(file.bytes, q + 3, q + 4)
      <4>1. stream.fp + 1 = q + 3 /\ stream.fp + 2 = q + 4
        BY <1>2, <2>1, <2>2, <2>3 DEF Positions
      <4> QED
        BY <2>5, <4>1 DEF StreamRead
    <3>4. r.len = LengthAt(file, q)
      <4>1. Len(StreamRead(2)) = 2
        BY <1>2, <2>5, ReadStops
      <4> QED
        BY <1>4, <3>3, <4>1 DEF PartOfWord, LengthAt
    <3>5. ~(r.len > Longest)
      <4>1. r.len <= MaxLen
        BY <2>1, <3>2, <3>4 DEF RecordsFit
      <4> QED
        BY <1>4, <2>1, <4>1, LengthsAssumption DEF Longest, RecordType
    <3>6. r.len = 0 => q + 4 \in file.starts
      <4>1. SUFFICES ASSUME r.len = 0 PROVE q + 4 \in file.starts
        OBVIOUS
      <4>2. q + 4 + LengthAt(file, q) = q + 4 /\ q + 4 \in 0 .. Size
        BY <2>3, <3>1, <3>4, <4>1
      <4> QED
        BY <1>2, <3>2, <4>2, FileTyped
    <3> QED
      BY <1>6, <2>5, <3>1, <3>2, <3>4, <3>5, <3>6 DEF Boundary
  <2> QED
    BY <2>4, <2>5
<1> QED
  BY <1>7, <1>8, <1>9, <1>10 DEF ReaderInv

(* The data: the next record begins behind them.                           *)
LEMMA ReadDataKeeps ==
  ASSUME ReaderInv, ReadData
  PROVE  ReaderInv'
<1> DEFINE n == record.len
<1>1. file' = file /\ caller' = caller /\ stream' = AfterRead(n) /\ pc = "data"
  BY DEF ReadData, AfterData, input
<1>2. Typed /\ Positions /\ Buffered /\ AtRecord /\ record \in RecordType
  BY DEF ReaderInv, Typed, RecordType
<1>3. n \in Nat /\ caller # "skip" /\ n <= MaxLen
  BY <1>1, <1>2 DEF RecordType, Typed, Buffered
<1>4. PICK r : r = [record EXCEPT !.data = Overwrite(@, StreamRead(n))]
  OBVIOUS
<1>5. r \in RecordType /\ Len(r.data) <= MaxLen
  <2>1. /\ StreamRead(n) \in Seq(Byte) /\ Len(StreamRead(n)) = Readable(n)
        /\ Readable(n) \in 0 .. n
    BY <1>2, <1>3, ReadStops
  <2>2. Len(StreamRead(n)) <= MaxLen
    BY <1>3, <2>1, LengthsAssumption
  <2>3. record.data \in Seq(Byte) /\ Len(record.data) <= MaxLen
    BY <1>2 DEF RecordType, Buffered
  <2>4. /\ Overwrite(record.data, StreamRead(n)) \in Seq(Byte)
        /\ Len(Overwrite(record.data, StreamRead(n))) <= MaxLen
    BY <2>1, <2>2, <2>3, OverwriteLength, LengthsAssumption
  <2> QED
    BY <1>2, <1>4, <2>4 DEF RecordType
<1>6. \/ Readable(n) # n /\ RecordFails(r)
      \/ Readable(n) = n /\ RecordRead(r)
  BY <1>4 DEF ReadData
<1>7. /\ record' \in RecordType /\ Len(record'.data) <= MaxLen
      /\ pc' \in {"done", "fetch", "handler"}
  <2>1. CASE Readable(n) # n /\ RecordFails(r)
    BY <1>5, <2>1, FailKeeps
  <2>2. CASE Readable(n) = n /\ RecordRead(r)
    BY <1>5, <2>2, ReadKeeps
  <2> QED
    BY <1>6, <2>1, <2>2
<1>8. Positions' /\ stream' \in [pos : Nat, fp : Nat, eof : BOOLEAN]
  BY <1>1, <1>2, <1>3, MovedOn
<1>9. Typed'
  BY <1>1, <1>2, <1>3, <1>7, <1>8 DEF Typed, RecordType, InHandler
<1>10. Buffered'
  BY <1>7 DEF Buffered
<1>11. AtRecord'
  <2>1. SUFFICES ASSUME RecordsFit PROVE stream'.pos \in Boundary
    BY <1>7, SameFile, <1>1 DEF AtRecord, InHandler
  <2>2. PICK q \in file.starts : /\ HeaderAt(file, q) /\ stream.pos = q + 4
                                 /\ n = LengthAt(file, q)
    BY <1>1, <1>2, <1>3, <2>1 DEF AtRecord
  <2>3. CASE Readable(n) # n
    <3>1. stream'.pos = Size
      BY <1>1, <1>2, <1>3, <2>3, Ahead
    <3> QED
      BY <3>1 DEF Boundary
  <2>4. CASE Readable(n) = n
    <3>1. stream'.pos = q + 4 + n /\ q + 4 + n <= Size
      BY <1>1, <1>2, <1>3, <2>2, <2>4, Ahead
    <3>2. q \in Nat /\ Size \in Nat
      BY <1>2, FileTyped
    <3>3. q + 4 + n \in 0 .. Size
      BY <1>3, <3>1, <3>2
    <3>4. q + 4 + n \in file.starts
      BY <1>2, <2>2, <3>3, FileTyped
    <3> QED
      BY <3>1, <3>4 DEF Boundary
  <2> QED
    BY <2>3, <2>4
<1> QED
  BY <1>8, <1>9, <1>10, <1>11 DEF ReaderInv

(* What is passed over: the position moves, in a stream without the place  *)
(* of the next read.                                                       *)
LEMMA SkipDataKeeps ==
  ASSUME ReaderInv, SkipData
  PROVE  ReaderInv'
<1> DEFINE n == record.len
<1>1. /\ file' = file /\ caller' = caller /\ record' = record /\ pc = "seek"
      /\ pc' \in {"done", "id"} /\ stream' = AfterSeek(n) /\ CanSeek(n)
  BY DEF SkipData, input, PastData
<1>2. Typed /\ Positions /\ Buffered /\ record \in RecordType
  BY DEF ReaderInv, Typed, RecordType
<1>3. /\ caller = "skip" /\ n \in Nat /\ Size \in Nat /\ file.ole \in BOOLEAN
      /\ stream \in [pos : Nat, fp : Nat, eof : BOOLEAN]
      /\ stream.fp <= stream.pos
      /\ file.ole => stream.pos <= Size
      /\ ~file.ole => stream.fp = stream.pos
  BY <1>1, <1>2, FileTyped DEF Typed, RecordType, Positions
<1>4. /\ stream' \in [pos : Nat, fp : Nat, eof : BOOLEAN]
      /\ stream'.fp <= stream'.pos
      /\ file.ole => stream'.pos <= Size
      /\ ~file.ole => stream'.fp = stream'.pos
  <2> HIDE DEF n
  <2>1. CASE file.ole
    <3>1. stream' = [stream EXCEPT !.pos = @ + n] /\ n <= Size - stream.pos
      BY <1>1, <2>1 DEF AfterSeek, CanSeek
    <3> QED
      BY <1>3, <2>1, <3>1
  <2>2. CASE ~file.ole
    <3>1. stream' = [pos |-> stream.pos + n, fp |-> stream.fp + n, eof |-> FALSE]
      BY <1>1, <2>2 DEF AfterSeek
    <3> QED
      BY <1>3, <2>2, <3>1
  <2> QED
    BY <2>1, <2>2
<1>5. Typed'
  BY <1>1, <1>2, <1>3, <1>4 DEF Typed, InHandler
<1>6. Positions'
  BY <1>1, <1>3, <1>4, SameFile DEF Positions
<1>7. Buffered'
  BY <1>1, <1>2 DEF Buffered
<1>8. AtRecord'
  BY <1>1, <1>3 DEF AtRecord
<1> QED
  BY <1>5, <1>6, <1>7, <1>8 DEF ReaderInv

LEMMA SkipFailsKeeps ==
  ASSUME ReaderInv, SkipFails
  PROVE  ReaderInv'
<1>1. /\ file' = file /\ caller' = caller /\ record' = record /\ stream' = stream
      /\ pc = "seek" /\ pc' = "done" /\ caller = "skip"
  BY DEF SkipFails, input, io, ReaderInv, Typed
<1>2. Typed'
  BY <1>1 DEF ReaderInv, Typed, InHandler
<1>3. Positions' /\ Buffered' /\ AtRecord'
  BY <1>1, SameFile DEF ReaderInv, Positions, Buffered, AtRecord
<1> QED
  BY <1>2, <1>3 DEF ReaderInv

(* A chart to be skipped begins behind a BOF record that was read.         *)
LEMMA UnsupportedKeeps ==
  ASSUME ReaderInv, BofUnsupported
  PROVE  ReaderInv'
<1>1. /\ file' = file /\ stream' = stream /\ record' = record
      /\ pc = "fetch" /\ pc' = "id" /\ caller' = "skip"
  BY DEF BofUnsupported, Has, Quiet, input
<1>2. caller # "skip"
  BY <1>1 DEF ReaderInv, Typed
<1>3. Typed'
  BY <1>1 DEF ReaderInv, Typed, InHandler
<1>4. Positions'
  BY <1>1, <1>2, SameFile DEF ReaderInv, Positions
<1>5. Buffered' /\ AtRecord'
  BY <1>1 DEF ReaderInv, Buffered, AtRecord
<1> QED
  BY <1>3, <1>4, <1>5 DEF ReaderInv

-----------------------------------------------------------------------------
LEMMA ReaderInit == Init => ReaderInv
<1> SUFFICES ASSUME Init PROVE ReaderInv
  OBVIOUS
<1>1. /\ file \in Files /\ pc = "id" /\ caller = "loop"
      /\ stream = [pos |-> 0, fp |-> 0, eof |-> FALSE]
      /\ record = [id |-> 0, len |-> 0, data |-> <<>>, offset |-> 0]
  BY DEF Init
<1>2. <<>> \in Seq(Byte) /\ Len(<<>>) = 0
  BY EmptySeq
<1>3. Typed
  BY <1>1, <1>2 DEF Typed, InHandler
<1>4. Size \in Nat /\ 0 \in file.starts
  BY <1>3, FileTyped
<1>5. Positions
  BY <1>1, <1>4 DEF Positions
<1>6. Buffered
  BY <1>1, <1>2, LengthsAssumption DEF Buffered
<1>7. AtRecord
  BY <1>1, <1>4 DEF AtRecord, Boundary
<1> QED
  BY <1>3, <1>5, <1>6, <1>7 DEF ReaderInv

(* The steps there are.                                                    *)
LEMMA StepKinds ==
  ASSUME ReaderInv, [Next]_vars
  PROVE  \/ Eof \/ ReadId \/ ReadLen \/ ReadData \/ TakeByte \/ ReadContinue
         \/ BofRecord \/ BofUnsupported \/ SkipData \/ SkipFails
         \/ HandlerStep \/ UNCHANGED vars
<1>a. record \in RecordType
  BY DEF ReaderInv, Typed, RecordType
<1> USE <1>a DEF HandlerStep, BufferStep, InHandler, input
<1>1. ASSUME OtherRecord PROVE HandlerStep
  BY <1>1 DEF OtherRecord, Handles, Has, Return, Ask, Quiet
<1>2. ASSUME CodepageRecord PROVE HandlerStep
  BY <1>2 DEF CodepageRecord, Handles, Has, Return, Ask, Quiet
<1>3. ASSUME Codepage PROVE HandlerStep
  BY <1>3 DEF Codepage, Handles, Has, Return, Ask, Quiet
<1>4. ASSUME EofRecord PROVE HandlerStep
  BY <1>4 DEF EofRecord, Handles, Has, Return, Ask, Quiet
<1>5. ASSUME BofBad PROVE HandlerStep
  BY <1>5 DEF BofBad, Handles, Has, Return, Ask, Quiet
<1>6. ASSUME BofGlobal PROVE HandlerStep
  BY <1>6 DEF BofGlobal, Handles, Has, Return, Ask, Quiet
<1>7. ASSUME BofSheet PROVE HandlerStep
  BY <1>7 DEF BofSheet, Handles, Has, Return, Ask, Quiet
<1>8. ASSUME SstRecord PROVE HandlerStep
  BY <1>8 DEF SstRecord, Handles, Has, Return, Ask, Quiet
<1>9. ASSUME Sst PROVE HandlerStep
  BY <1>9 DEF Sst, Handles, Has, Return, Ask, Quiet
<1>10. ASSUME SstString PROVE HandlerStep
  BY <1>10 DEF SstString, Handles, Has, Return, Ask, Quiet
<1>11. ASSUME StringHeader PROVE HandlerStep
  BY <1>11 DEF StringHeader, Handles, Has, Return, Ask, Quiet
<1>12. ASSUME StringSizes PROVE HandlerStep
  BY <1>12 DEF StringSizes, Handles, Has, Return, Ask, Quiet
<1>13. ASSUME Flags PROVE HandlerStep
  BY <1>13 DEF Flags, Handles, Has, Return, Ask, Quiet
<1>14. ASSUME FlagsRead PROVE HandlerStep
  BY <1>14 DEF FlagsRead, Handles, Has, Return, Ask, Quiet
<1>15. ASSUME NextChar PROVE HandlerStep
  BY <1>15 DEF NextChar, Handles, Has, Return, Ask, Quiet
<1>16. ASSUME CharRead PROVE HandlerStep
  BY <1>16 DEF CharRead, Handles, Has, Return, Ask, Quiet
<1>17. ASSUME StringTail PROVE HandlerStep
  BY <1>17 DEF StringTail, Handles, Has, Return, Ask, Quiet
<1>32. ASSUME TailNeverEnds PROVE HandlerStep
  BY <1>32 DEF TailNeverEnds, Quiet
<1>18. ASSUME SharedString PROVE HandlerStep
  BY <1>18 DEF SharedString, Handles, Has, Return, Ask, Quiet
<1>19. ASSUME SstDone PROVE HandlerStep
  BY <1>19 DEF SstDone, Handles, Has, Return, Ask, Quiet
<1>20. ASSUME LabelOutside PROVE HandlerStep
  BY <1>20 DEF LabelOutside, Handles, Has, Return, Ask, Quiet
<1>21. ASSUME LabelRecord PROVE HandlerStep
  BY <1>21 DEF LabelRecord, Handles, Has, Return, Ask, Quiet
<1>22. ASSUME LabelString PROVE HandlerStep
  BY <1>22 DEF LabelString, Handles, Has, Return, Ask, Quiet
<1>23. ASSUME LabelUnicode PROVE HandlerStep
  BY <1>23 DEF LabelUnicode, LabelTaken, Handles, Has, Return, Ask, Quiet
<1>24. ASSUME LabelLength PROVE HandlerStep
  BY <1>24 DEF LabelLength, Handles, Has, Return, Ask, Quiet
<1>25. ASSUME CodepageUnknown PROVE HandlerStep
  BY <1>25 DEF CodepageUnknown, TextRefused, Handles, Has, Return, Ask, Quiet
<1>26. ASSUME TakenAsUtf16 PROVE HandlerStep
  BY <1>26 DEF TakenAsUtf16, LabelTaken, Handles, Has, Return, Ask, Quiet
<1>27. ASSUME BeginConversion PROVE HandlerStep
  BY <1>27 DEF BeginConversion, Handles, Has, Return, Ask, Quiet
<1>28. ASSUME ConvertChar PROVE HandlerStep
  BY <1>28 DEF ConvertChar, Converting, Handles, Has, Return, Ask, Quiet
<1>29. ASSUME GrowOutput PROVE HandlerStep
  BY <1>29 DEF GrowOutput, Converting, Handles, Has, Return, Ask, Quiet
<1>30. ASSUME TextIllegible PROVE HandlerStep
  BY <1>30 DEF TextIllegible, TextRefused, Converting, Handles, Has, Return, Ask, Quiet
<1>31. ASSUME ConversionDone PROVE HandlerStep
  BY <1>31 DEF ConversionDone, LabelTaken, Handles, Has, Return, Ask, Quiet
<1> QED
  BY <1>1, <1>2, <1>3, <1>4, <1>5, <1>6, <1>7, <1>8, <1>9, <1>10, <1>11,
     <1>12, <1>13, <1>14, <1>15, <1>16, <1>17, <1>18, <1>19, <1>20, <1>21,
     <1>22, <1>23, <1>24, <1>25, <1>26, <1>27, <1>28, <1>29, <1>30, <1>31, <1>32 DEF
     Next, Finished

LEMMA ReaderStep == ReaderInv /\ [Next]_vars => ReaderInv'
<1> SUFFICES ASSUME ReaderInv, [Next]_vars PROVE ReaderInv'
  OBVIOUS
<1>a. record \in RecordType
  BY DEF ReaderInv, Typed, RecordType
<1>1. ASSUME TakeByte PROVE BufferStep
  <2>1. [record EXCEPT !.offset = @ + 1] \in RecordType
    BY <1>a DEF RecordType
  <2> QED
    BY <1>1, <2>1 DEF TakeByte, Deliver, RecordType, BufferStep, InHandler, input
<1>2. ASSUME ReadContinue PROVE BufferStep
  BY <1>a, <1>2 DEF ReadContinue, BufferStep, InHandler, input
<1>3. ASSUME BofRecord PROVE BufferStep
  BY <1>a, <1>3 DEF BofRecord, Handles, Ask, Quiet, BufferStep, InHandler, input
<1>4. CASE BufferStep
  BY <1>4, BufferKeeps
<1>5. CASE UNCHANGED vars
  <2>1. UNCHANGED <<file, stream, record, pc, caller>>
    BY <1>5 DEF vars, io, input
  <2> QED
    BY <2>1, SameFile DEF ReaderInv, Typed, Positions, Buffered, AtRecord
<1>6. HandlerStep => BufferStep
  BY DEF HandlerStep
<1> QED
  BY <1>1, <1>2, <1>3, <1>4, <1>5, <1>6, StepKinds, EofKeeps, ReadIdKeeps, ReadLenKeeps,
     ReadDataKeeps, UnsupportedKeeps, SkipDataKeeps, SkipFailsKeeps

(* Whatever a string consumes - however it is cut into CONTINUE records,   *)
(* wherever the file is cut off, whatever the buffer and unwritten memory  *)
(* hold - the loop of cexcel.c goes on at the beginning of a record or at  *)
(* the end of the file, in a file without overlong records; and in every   *)
(* file the place of the next read never runs ahead of the told position   *)
(* and nothing is read behind the record's buffer.                         *)
THEOREM LoopOnBoundaries == Spec => []OnRecordBoundary
<1>1. ReaderInv => OnRecordBoundary
  <2> SUFFICES ASSUME ReaderInv PROVE OnRecordBoundary
    OBVIOUS
  <2>1. stream.fp \in 0 .. stream.pos /\ Len(record.data) <= MaxLen
    BY DEF ReaderInv, Typed, Positions, Buffered
  <2>2. pc = "id" /\ caller = "loop" /\ RecordsFit => stream.pos \in file.starts \cup {Size}
    BY DEF ReaderInv, AtRecord, Boundary
  <2> QED
    BY <2>1, <2>2 DEF OnRecordBoundary
<1> QED
  BY <1>1, ReaderInit, ReaderStep, PTL DEF Spec
-----------------------------------------------------------------------------
(* The skip of a chart, in a file whose records fit and whose BOF records  *)
(* are whole.  Record q is in the buffer, read to its end.                 *)
Sound == RecordsFit /\ BofsWhole

HeldAt(f, r, n, q) ==
  /\ q \in f.starts /\ HeaderAt(f, q) /\ n = q + 4 + LengthAt(f, q) /\ n <= Len(f.bytes)
  /\ r.id = IdAt(f, q) /\ r.len = LengthAt(f, q) /\ r.len <= Len(r.data)
  /\ \A i \in 1 .. r.len : r.data[i] = f.bytes[q + 4 + i]

(* The bytes d.got of the four a BOF handler asks for have been taken.     *)
BofTaken(f, r, n, d, q) ==
  /\ HeldAt(f, r, n, q) /\ r.id = ID_BOF58
  /\ d.got \in Seq(Byte) /\ Len(d.got) <= 4 /\ d.need = 4 - Len(d.got)
  /\ r.offset = Len(d.got)
  /\ \A i \in 1 .. Len(d.got) : d.got[i] = f.bytes[q + 4 + i]

(* What the loop reads is a record of the file, and a BOF handler has what *)
(* it needs in the record's buffer.                                        *)
FieldFormed == field = [for |-> field.for, need |-> field.need, got |-> field.got]
RecordHeld ==
  Sound =>
    /\ caller = "loop" /\ pc = "len" =>
         \E q \in file.starts : stream.pos = q + 2 /\ record.id = IdAt(file, q)
    /\ caller = "loop" /\ pc = "data" =>
         \E q \in file.starts : /\ HeaderAt(file, q) /\ stream.pos = q + 4
                                /\ record.id = IdAt(file, q) /\ record.len = LengthAt(file, q)
    /\ pc = "handler" =>
         caller = "loop" /\ record.offset = 0
           /\ \E q \in file.starts : HeldAt(file, record, stream.pos, q)
    /\ pc = "fetch" /\ field.for = "bof" =>
         \E q \in file.starts : BofTaken(file, record, stream.pos, field, q)
    /\ caller = "string" => field.for # "bof"

(* Record q is the last one passed behind the chart's BOF record b, and no *)
(* EOF record; or the one whose header is being read.                      *)
Passed(f, n, b, q) ==
  /\ ChartAt(f, b) /\ q \in f.starts /\ b <= q /\ NoEofBetween(f, b, q) /\ ~EofAt(f, q)
  /\ RecordAt(f, q, n)
Reached(f, r, b, q) ==
  /\ ChartAt(f, b) /\ q \in f.starts /\ b < q /\ NoEofBetween(f, b, q) /\ r.id = IdAt(f, q)

Skipping ==
  /\ ret = "NOTIMPLEMENTED" => caller = "skip"
  /\ Sound /\ caller = "skip" /\ ~file.ole =>
       /\ pc = "id" => \E b, q \in file.starts : Passed(file, stream.pos, b, q)
       /\ pc = "len" => \E b, q \in file.starts :
                          Reached(file, record, b, q) /\ stream.pos = q + 2
       /\ pc = "seek" => \E b, q \in file.starts :
                           /\ Reached(file, record, b, q) /\ HeaderAt(file, q)
                           /\ stream.pos = q + 4 /\ record.len = LengthAt(file, q)

SkipInv == FieldFormed /\ RecordHeld /\ Skipping /\ SkipInPlainFile

LEMMA TwoBytes == \A x, y \in Byte : x + 256 * y \in Nat
BY DEF Byte

(* The length of a record.                                                 *)
LEMMA LengthTyped ==
  ASSUME NEW f \in Files, NEW q \in f.starts, HeaderAt(f, q)
  PROVE  q \in Nat /\ LengthAt(f, q) \in Nat /\ q + 4 <= Len(f.bytes)
<1>1. f.bytes \in Seq(Byte) /\ f.starts \subseteq 0 .. Len(f.bytes)
  BY FilesAssumption DEF Byte
<1>2. Len(f.bytes) \in Nat /\ q \in Nat /\ q + 4 <= Len(f.bytes)
  BY <1>1 DEF HeaderAt
<1> DEFINE b == SubSeq(f.bytes, q + 3, q + 4)
<1>3. b[1] \in Byte /\ b[2] \in Byte
  <2>1. \A i \in q + 3 .. q + 4 : f.bytes[i] \in Byte
    <3>1. \A i \in q + 3 .. q + 4 : i \in 1 .. Len(f.bytes)
      BY <1>2
    <3> QED
      BY <1>1, <3>1, ElementOfSeq
  <2>2. b[1] = f.bytes[q + 3] /\ b[2] = f.bytes[q + 4]
    BY <1>1, <1>2
  <2> QED
    BY <1>2, <2>1, <2>2
<1> HIDE DEF b
<1>4. \A x, y \in Byte : x + 256 * y \in Nat
  BY TwoBytes
<1>5. LengthAt(f, q) = b[1] + 256 * b[2]
  BY DEF LengthAt, Word, b
<1> QED
  BY <1>2, <1>3, <1>4, <1>5

(* A record of a file ends before the next one begins.                     *)
LEMMA StartsApart ==
  ASSUME NEW f \in Files, NEW p \in f.starts, NEW x \in f.starts, p < x
  PROVE  HeaderAt(f, p) /\ p + 4 + LengthAt(f, p) <= x
<1> DEFINE Bad == {z \in f.starts : \E y \in f.starts :
                     y < z /\ ~(HeaderAt(f, y) /\ y + 4 + LengthAt(f, y) <= z)}
<1>1. /\ f.starts \subseteq Nat /\ Len(f.bytes) \in Nat /\ f.starts \subseteq 0 .. Len(f.bytes)
      /\ \A n \in f.starts : n = 0 \/ \E q \in f.starts : RecordAt(f, q, n)
  <2>1. /\ f.bytes \in Seq(0 .. 255) /\ f.starts \subseteq 0 .. Len(f.bytes)
        /\ \A n \in 0 .. Len(f.bytes) :
             n \in f.starts <=> n = 0 \/ \E q \in f.starts : RecordAt(f, q, n)
    BY FilesAssumption
  <2>2. Len(f.bytes) \in Nat
    BY <2>1
  <2> QED
    BY <2>1, <2>2
<1>2. SUFFICES Bad = {}
  BY <1>1
<1>3. SUFFICES ASSUME Bad # {} PROVE FALSE
  OBVIOUS
<1>4. PICK z \in Bad : \A w \in Bad : z <= w
  <2>1. Bad \in SUBSET Nat
    BY <1>1
  <2> QED
    BY <1>3, <2>1, SmallestExists
<1>5. PICK y \in f.starts : y < z /\ ~(HeaderAt(f, y) /\ y + 4 + LengthAt(f, y) <= z)
  OBVIOUS
<1>6. z \in f.starts /\ z \in Nat /\ y \in Nat
  BY <1>1
<1>7. PICK q \in f.starts : RecordAt(f, q, z)
  BY <1>1, <1>5, <1>6
<1>8. q \in Nat /\ HeaderAt(f, q) /\ z = q + 4 + LengthAt(f, q) /\ LengthAt(f, q) \in Nat
  <2>1. q \in Nat /\ HeaderAt(f, q) /\ z = q + 4 + LengthAt(f, q)
    BY <1>1, <1>7 DEF RecordAt
  <2>2. LengthAt(f, q) \in Nat
    BY <2>1, LengthTyped
  <2> QED
    BY <2>1, <2>2
<1>9. q < z
  BY <1>6, <1>8
<1> HIDE DEF Bad
<1>10. CASE y = q
  BY <1>5, <1>6, <1>8, <1>10
<1>11. CASE y < q
  <2>1. q \notin Bad
    BY <1>4, <1>6, <1>8, <1>9
  <2>2. HeaderAt(f, y) /\ y + 4 + LengthAt(f, y) <= q
    BY <1>11, <2>1 DEF Bad
  <2>3. LengthAt(f, y) \in Nat
    BY <2>2, LengthTyped
  <2> QED
    BY <1>5, <1>6, <1>8, <1>9, <2>2, <2>3
<1>12. CASE q < y
  <2>1. y \notin Bad
    BY <1>4, <1>5, <1>6
  <2>2. q + 4 + LengthAt(f, q) <= y
    BY <1>12, <2>1 DEF Bad
  <2> QED
    BY <1>5, <1>6, <1>8, <2>2
<1> QED
  BY <1>6, <1>8, <1>10, <1>11, <1>12


(* What the files promise does not change.                                 *)
LEMMA SameSound == ASSUME file' = file PROVE Sound' <=> Sound
BY SameFile DEF Sound, BofsWhole, HeaderAt, IdAt, LengthAt

(* A number that is read is that of the file, where the two places are     *)
(* one.                                                                    *)
LEMMA WordRead ==
  ASSUME Typed, Positions, stream.fp = stream.pos, Readable(2) = 2, NEW x
  PROVE  /\ PartOfWord(StreamRead(2), x) = Word(SubSeq(file.bytes, stream.pos + 1, stream.pos + 2))
         /\ AfterRead(2).pos = stream.pos + 2 /\ stream.pos + 2 <= Size
<1>1. StreamRead(2) = SubSeq(file.bytes, stream.pos + 1, stream.pos + 2) /\ Len(StreamRead(2)) = 2
  BY ReadStops DEF StreamRead
<1>2. AfterRead(2).pos = stream.pos + 2
  BY ReadStops
<1>3. stream.pos + 2 <= Size
  <2>1. stream.pos \in Nat /\ Size \in Nat /\ file.ole \in BOOLEAN
    BY FileTyped DEF Typed
  <2> QED
    BY <2>1 DEF Readable, Least
<1> QED
  BY <1>1, <1>2, <1>3 DEF PartOfWord

(* A byte that is delivered leaves the name of the field.                  *)
LEMMA Delivered ==
  ASSUME FieldFormed, NEW b, Deliver(b)
  PROVE  /\ FieldFormed' /\ field'.for = field.for /\ pc' = "fetch"
         /\ field'.need = field.need - 1 /\ field'.got = Append(field.got, b)
<1>1. field = [for |-> field.for, need |-> field.need, got |-> field.got]
  BY DEF FieldFormed
<1>2. field' = [for |-> field.for, need |-> field.need - 1, got |-> Append(field.got, b)]
  BY <1>1 DEF Deliver
<1> QED
  BY <1>2 DEF Deliver, FieldFormed

LEMMA ReadOnDelivers ==
  ASSUME FieldFormed, NEW r, ReadOn(r)
  PROVE  FieldFormed' /\ field'.for = field.for /\ pc' = "fetch"
BY Delivered DEF ReadOn

(* A step to a field other than those of BOF, outside a skip.              *)
LEMMA Elsewhere ==
  ASSUME SkipInv, file' = file, FieldFormed', caller' \in {"loop", "string"},
         ret' # "NOTIMPLEMENTED",
         pc' \notin {"len", "data", "handler"},
         Sound => /\ pc' = "fetch" => field'.for # "bof"
                  /\ caller' = "string" => field'.for # "bof"
  PROVE  SkipInv'
<1>1. RecordHeld'
  BY SameSound DEF RecordHeld
<1>2. Skipping' /\ SkipInPlainFile'
  BY DEF Skipping, SkipInPlainFile
<1> QED
  BY <1>1, <1>2 DEF SkipInv

LEMMA FailsHold ==
  ASSUME ReaderInv, SkipInv, file' = file, caller' = caller, NEW r, RecordFails(r)
  PROVE  SkipInv'
<1>1. caller \in {"loop", "string", "skip"} /\ FieldFormed
  BY DEF ReaderInv, Typed, SkipInv
<1>2. CASE caller = "loop" /\ pc' = "done" /\ UNCHANGED <<field, ret>>
  <2>1. ret # "NOTIMPLEMENTED" /\ FieldFormed'
    BY <1>1, <1>2 DEF SkipInv, Skipping, FieldFormed
  <2> QED
    BY <1>2, <2>1, Elsewhere
<1>3. CASE caller = "string" /\ ReadOn(r) /\ UNCHANGED ret
  <2>1. ret # "NOTIMPLEMENTED" /\ (Sound => field.for # "bof")
    BY <1>3 DEF SkipInv, Skipping, RecordHeld
  <2>2. FieldFormed' /\ field'.for = field.for /\ pc' = "fetch"
    BY <1>1, <1>3, ReadOnDelivers
  <2> QED
    BY <1>3, <2>1, <2>2, Elsewhere
<1>4. CASE caller = "skip" /\ pc' = "done" /\ ret' = "BADFILE" /\ UNCHANGED field
  <2>1. FieldFormed'
    BY <1>1, <1>4 DEF FieldFormed
  <2>2. RecordHeld' /\ Skipping' /\ SkipInPlainFile'
    BY <1>4 DEF RecordHeld, Skipping, SkipInPlainFile
  <2> QED
    BY <2>1, <2>2 DEF SkipInv
<1> QED
  BY <1>2, <1>3, <1>4 DEF RecordFails

(* A record that was read is held by the handler it goes to.               *)
LEMMA ReadsHold ==
  ASSUME ReaderInv, SkipInv, file' = file, caller' = caller, ret' = ret,
         NEW r \in RecordType, RecordRead(r),
         Sound /\ caller = "loop" => \E q \in file.starts : HeldAt(file, r, stream'.pos, q)
  PROVE  SkipInv'
<1>1. FieldFormed
  BY DEF SkipInv
<1>2. CASE caller = "loop" /\ record' = [r EXCEPT !.offset = 0] /\ pc' = "handler" /\ UNCHANGED field
  <2>1. ret # "NOTIMPLEMENTED" /\ FieldFormed'
    BY <1>1, <1>2 DEF SkipInv, Skipping, FieldFormed
  <2>2. /\ record'.offset = 0 /\ record'.id = r.id /\ record'.len = r.len
        /\ record'.data = r.data
    BY <1>2 DEF RecordType
  <2>3. ASSUME Sound PROVE \E q \in file.starts : HeldAt(file, record', stream'.pos, q)
    BY <1>2, <2>2, <2>3 DEF HeldAt
  <2>4. RecordHeld'
    BY <1>2, <2>2, <2>3, SameSound DEF RecordHeld
  <2>5. Skipping' /\ SkipInPlainFile'
    BY <1>2, <2>1 DEF Skipping, SkipInPlainFile
  <2> QED
    BY <2>1, <2>4, <2>5 DEF SkipInv
<1>3. CASE caller = "string" /\ pc' = "fetch" /\ field'.for = field.for /\ FieldFormed'
  <2>1. ret # "NOTIMPLEMENTED" /\ (Sound => field.for # "bof")
    BY <1>3 DEF SkipInv, Skipping, RecordHeld
  <2> QED
    BY <1>3, <2>1, Elsewhere
<1>4. ASSUME caller = "string", ReadOn(Restarted(r))
      PROVE  pc' = "fetch" /\ field'.for = field.for /\ FieldFormed'
  BY <1>1, <1>4, ReadOnDelivers
<1>5. ASSUME caller = "string", Deliver(0)
      PROVE  pc' = "fetch" /\ field'.for = field.for /\ FieldFormed'
  BY <1>1, <1>5, Delivered
<1> QED
  BY <1>2, <1>3, <1>4, <1>5 DEF RecordRead

LEMMA ReadIdHolds ==
  ASSUME ReaderInv, SkipInv, ReadId
  PROVE  SkipInv'
<1>1. /\ file' = file /\ caller' = caller /\ stream' = AfterRead(2) /\ pc = "id"
      /\ Typed /\ Positions
  BY DEF ReadId, input, ReaderInv
<1>2. PICK r : r = [record EXCEPT !.id = PartOfWord(StreamRead(2), @)]
  OBVIOUS
<1>3. CASE Readable(2) # 2
  BY <1>1, <1>2, <1>3, FailsHold DEF ReadId
<1>4. CASE Readable(2) = 2
  <2>1. record' = r /\ pc' = "len" /\ UNCHANGED <<field, ret>>
    BY <1>2, <1>4 DEF ReadId
  <2>2. record'.id = PartOfWord(StreamRead(2), record.id)
    BY <1>1, <1>2, <2>1 DEF Typed
  <2>3. ASSUME stream.fp = stream.pos
        PROVE  /\ record'.id = IdAt(file, stream.pos) /\ stream'.pos = stream.pos + 2
               /\ stream.pos + 2 <= Size
    BY <1>1, <1>4, <2>2, <2>3, WordRead DEF IdAt
  <2>4. FieldFormed'
    BY <2>1 DEF SkipInv, FieldFormed
  <2>5. RecordHeld'
    <3>1. ASSUME Sound, caller = "loop"
          PROVE  \E q \in file.starts : stream'.pos = q + 2 /\ record'.id = IdAt(file, q)
      <4>1. stream.pos \in Boundary /\ stream.fp = stream.pos
        BY <1>1, <3>1 DEF Sound, ReaderInv, AtRecord, Positions
      <4>2. stream.pos # Size
        BY <1>1, <2>3, <4>1, FileTyped DEF Typed
      <4> QED
        BY <2>3, <4>1, <4>2 DEF Boundary
    <3>2. Sound /\ caller = "string" => field.for # "bof"
      BY DEF SkipInv, RecordHeld
    <3> QED
      BY <1>1, <2>1, <3>1, <3>2, SameSound DEF RecordHeld
  <2>6. Skipping'
    <3>1. ASSUME Sound, caller = "skip", ~file.ole
          PROVE  \E b, q \in file.starts : Reached(file, record', b, q) /\ stream'.pos = q + 2
      <4>1. PICK b \in file.starts, q \in file.starts : Passed(file, stream.pos, b, q)
        BY <1>1, <3>1 DEF SkipInv, Skipping
      <4>2. stream.fp = stream.pos
        BY <1>1, <3>1 DEF Positions
      <4>3. file \in Files /\ stream.pos \in Nat /\ Size \in Nat /\ Size = Len(file.bytes)
        BY <1>1, FileTyped DEF Typed, Size
      <4>4. /\ ChartAt(file, b) /\ b <= q /\ NoEofBetween(file, b, q) /\ ~EofAt(file, q)
            /\ HeaderAt(file, q) /\ stream.pos = q + 4 + LengthAt(file, q)
        BY <4>1 DEF Passed, RecordAt
      <4>5. q \in Nat /\ LengthAt(file, q) \in Nat /\ b \in Nat
        <5>1. b \in Nat
          BY <1>1, <4>3, FileTyped
        <5> QED
          BY <4>3, <4>4, <5>1, LengthTyped
      <4>6. stream.pos \in file.starts
        <5>1. stream.pos \in 0 .. Size
          BY <2>3, <4>2, <4>3
        <5> QED
          BY <1>1, <4>4, <5>1, FileTyped
      <4>7. NoEofBetween(file, b, stream.pos)
        <5> SUFFICES ASSUME NEW x \in file.starts, b < x, x < stream.pos
                     PROVE  ~EofAt(file, x)
          BY DEF NoEofBetween
        <5>1. x \in Nat
          BY <1>1, FileTyped
        <5>2. CASE x < q
          BY <4>4, <5>2 DEF NoEofBetween
        <5>3. CASE x = q
          BY <4>4, <5>3
        <5>4. CASE q < x
          <6>1. q + 4 + LengthAt(file, q) <= x
            BY <4>3, <5>4, StartsApart
          <6> QED
            BY <4>3, <4>4, <4>5, <5>1, <6>1
        <5> QED
          BY <4>5, <5>1, <5>2, <5>3, <5>4
      <4>8. b < stream.pos
        BY <4>4, <4>5
      <4>9. Reached(file, record', b, stream.pos)
        BY <2>3, <4>2, <4>4, <4>6, <4>7, <4>8 DEF Reached
      <4> QED
        BY <2>3, <4>2, <4>6, <4>9
    <3>2. ret' = "NOTIMPLEMENTED" => caller' = "skip"
      BY <1>1, <2>1 DEF SkipInv, Skipping
    <3> QED
      BY <1>1, <2>1, <3>1, <3>2, SameSound DEF Skipping
  <2>7. SkipInPlainFile'
    BY <2>1 DEF SkipInPlainFile
  <2> QED
    BY <2>4, <2>5, <2>6, <2>7 DEF SkipInv
<1> QED
  BY <1>3, <1>4

LEMMA ReadLenHolds ==
  ASSUME ReaderInv, SkipInv, ReadLen
  PROVE  SkipInv'
<1>1. /\ file' = file /\ caller' = caller /\ stream' = AfterRead(2) /\ pc = "len"
      /\ Typed /\ Positions /\ record \in RecordType
  BY DEF ReadLen, input, ReaderInv, Typed, RecordType
<1>2. PICK r : r = [record EXCEPT !.len = PartOfWord(StreamRead(2), @)]
  OBVIOUS
<1>3. r \in RecordType /\ r.id = record.id /\ r.len = PartOfWord(StreamRead(2), record.len)
  <2>1. PartOfWord(StreamRead(2), record.len) \in Nat
    BY <1>1, ReadStops, WordTyped DEF RecordType
  <2> QED
    BY <1>1, <1>2, <2>1 DEF RecordType
<1>4. CASE Readable(2) # 2 \/ r.len > Longest
  BY <1>1, <1>2, <1>4, FailsHold DEF ReadLen
<1>5. ASSUME Readable(2) = 2, NEW q \in file.starts, stream.fp = stream.pos, stream.pos = q + 2
      PROVE  /\ r.len = LengthAt(file, q) /\ stream'.pos = q + 4 /\ HeaderAt(file, q)
             /\ q + 4 <= Len(file.bytes)
  <2>1. q \in Nat
    BY <1>1, FileTyped
  <2>2. /\ r.len = Word(SubSeq(file.bytes, q + 2 + 1, q + 2 + 2))
        /\ stream'.pos = q + 2 + 2 /\ q + 2 + 2 <= Size
    BY <1>1, <1>3, <1>5, WordRead
  <2>3. q + 2 + 1 = q + 3 /\ q + 2 + 2 = q + 4
    BY <2>1
  <2> QED
    BY <2>2, <2>3 DEF LengthAt, HeaderAt, Size
<1>6. CASE Readable(2) = 2 /\ ~(r.len > Longest) /\ caller = "skip"
  <2>1. record' = r /\ pc' = "seek" /\ UNCHANGED <<field, ret>>
    BY <1>2, <1>6 DEF ReadLen
  <2>2. FieldFormed' /\ RecordHeld' /\ SkipInPlainFile'
    BY <1>1, <1>6, <2>1, SameSound DEF SkipInv, FieldFormed, RecordHeld, SkipInPlainFile
  <2>3. ASSUME Sound, ~file.ole
        PROVE  \E b, q \in file.starts :
                 /\ Reached(file, record', b, q) /\ HeaderAt(file, q)
                 /\ stream'.pos = q + 4 /\ record'.len = LengthAt(file, q)
    <3>1. PICK b \in file.starts, q \in file.starts :
            Reached(file, record, b, q) /\ stream.pos = q + 2
      BY <1>1, <1>6, <2>3 DEF SkipInv, Skipping
    <3>2. stream.fp = stream.pos
      BY <1>1, <2>3 DEF Positions
    <3>3. Reached(file, record', b, q)
      BY <1>3, <2>1, <3>1 DEF Reached
    <3> QED
      BY <1>5, <1>6, <2>1, <3>1, <3>2, <3>3
  <2>4. Skipping'
    BY <1>1, <1>6, <2>1, <2>3, SameSound DEF Skipping
  <2> QED
    BY <2>2, <2>4 DEF SkipInv
<1>7. ASSUME Sound, Readable(2) = 2, caller = "loop"
      PROVE  \E q \in file.starts :
               /\ HeaderAt(file, q) /\ stream'.pos = q + 4 /\ q + 4 <= Len(file.bytes)
               /\ r.id = IdAt(file, q) /\ r.len = LengthAt(file, q)
  <2>1. PICK q \in file.starts : stream.pos = q + 2 /\ record.id = IdAt(file, q)
    BY <1>1, <1>7 DEF SkipInv, RecordHeld
  <2>2. stream.fp = stream.pos
    BY <1>1, <1>7 DEF Positions
  <2> QED
    BY <1>3, <1>5, <1>7, <2>1, <2>2
<1>8. CASE Readable(2) = 2 /\ ~(r.len > Longest) /\ caller # "skip" /\ r.len = 0
  <2>1. RecordRead(r) /\ UNCHANGED ret
    BY <1>2, <1>8 DEF ReadLen
  <2>2. ASSUME Sound, caller = "loop"
        PROVE  \E q \in file.starts : HeldAt(file, r, stream'.pos, q)
    <3>1. PICK q \in file.starts :
            /\ HeaderAt(file, q) /\ stream'.pos = q + 4 /\ q + 4 <= Len(file.bytes)
            /\ r.id = IdAt(file, q) /\ r.len = LengthAt(file, q)
      BY <1>7, <1>8, <2>2
    <3>2. q \in Nat /\ Len(r.data) \in Nat
      <4>1. q \in Nat
        BY <1>1, FileTyped
      <4>2. r.data \in Seq(Byte)
        BY <1>3 DEF RecordType
      <4> QED
        BY <4>1, <4>2, LenProperties
    <3>3. stream'.pos = q + 4 + LengthAt(file, q) /\ r.len <= Len(r.data) /\ 1 .. r.len = {}
      BY <1>8, <3>1, <3>2
    <3> QED
      BY <3>1, <3>3 DEF HeldAt
  <2> QED
    BY <1>1, <1>3, <2>1, <2>2, ReadsHold
<1>9. CASE Readable(2) = 2 /\ ~(r.len > Longest) /\ caller # "skip" /\ r.len # 0
  <2>1. record' = r /\ pc' = "data" /\ UNCHANGED <<field, ret>>
    BY <1>2, <1>9 DEF ReadLen
  <2>2. FieldFormed' /\ Skipping' /\ SkipInPlainFile'
    BY <1>1, <1>9, <2>1 DEF SkipInv, FieldFormed, Skipping, SkipInPlainFile
  <2>3. Sound /\ caller = "string" => field.for # "bof"
    BY DEF SkipInv, RecordHeld
  <2>4. RecordHeld'
    BY <1>1, <1>7, <1>9, <2>1, <2>3, SameSound DEF RecordHeld
  <2> QED
    BY <2>2, <2>4 DEF SkipInv
<1> QED
  BY <1>4, <1>6, <1>8, <1>9

(* What is read is the beginning of the buffer then.                       *)
LEMMA OverwriteBegins ==
  ASSUME NEW old \in Seq(Byte), NEW new \in Seq(Byte)
  PROVE  /\ Len(new) <= Len(Overwrite(old, new))
         /\ \A i \in 1 .. Len(new) : Overwrite(old, new)[i] = new[i]
<1> DEFINE rest == SubSeq(old, Len(new) + 1, Len(old))
<1>1. Len(new) \in Nat /\ Len(old) \in Nat
  OBVIOUS
<1>2. rest \in Seq(Byte)
  <2>1. \A i \in Len(new) + 1 .. Len(old) : old[i] \in Byte
    BY <1>1
  <2> QED
    BY <1>1, <2>1, SubSeqProperties
<1> HIDE DEF rest
<1>3. /\ Len(new \o rest) = Len(new) + Len(rest) /\ Len(rest) \in Nat
      /\ \A i \in 1 .. Len(new) : (new \o rest)[i] = new[i]
  BY <1>1, <1>2
<1>4. Overwrite(old, new) = new \o rest
  BY DEF Overwrite, rest
<1> QED
  BY <1>1, <1>3, <1>4

LEMMA EofHolds ==
  ASSUME ReaderInv, SkipInv, Eof
  PROVE  SkipInv'
BY FailsHold DEF Eof, input

LEMMA ReadDataHolds ==
  ASSUME ReaderInv, SkipInv, ReadData
  PROVE  SkipInv'
<1> DEFINE n == record.len
           new == StreamRead(n)
<1>1. /\ file' = file /\ caller' = caller /\ stream' = AfterRead(n) /\ pc = "data"
      /\ Typed /\ Positions /\ record \in RecordType /\ n \in Nat
  BY DEF ReadData, AfterData, input, ReaderInv, Typed, RecordType
<1>2. PICK r : r = [record EXCEPT !.data = Overwrite(@, StreamRead(n))]
  OBVIOUS
<1>3. /\ new \in Seq(Byte) /\ Len(new) = Readable(n)
      /\ new = SubSeq(file.bytes, stream.fp + 1, stream.fp + Readable(n))
      /\ AfterRead(n).pos = stream.pos + Readable(n)
  BY <1>1, ReadStops DEF StreamRead
<1>4. record.data \in Seq(Byte)
  BY <1>1 DEF RecordType
<1>5. /\ r \in RecordType /\ r.id = record.id /\ r.len = n
      /\ r.data = Overwrite(record.data, new)
  <2> HIDE DEF new
  <2>1. Len(record.data) \in Nat /\ Len(new) \in Nat
    BY <1>3, <1>4
  <2>2. PICK m \in Nat : Len(record.data) <= m /\ Len(new) <= m
    <3>1. Len(record.data) <= Len(record.data) + Len(new)
          /\ Len(new) <= Len(record.data) + Len(new) /\ Len(record.data) + Len(new) \in Nat
      BY <2>1
    <3> QED
      BY <3>1
  <2>3. Overwrite(record.data, new) \in Seq(Byte)
    BY <1>3, <1>4, <2>2, OverwriteLength
  <2> QED
    BY <1>1, <1>2, <2>3 DEF RecordType, new
<1>6. CASE Readable(n) # n
  BY <1>1, <1>2, <1>6, FailsHold DEF ReadData
<1>7. CASE Readable(n) = n
  <2>1. RecordRead(r) /\ UNCHANGED ret
    BY <1>2, <1>7 DEF ReadData
  <2>2. ASSUME Sound, caller = "loop"
        PROVE  \E q \in file.starts : HeldAt(file, r, stream'.pos, q)
    <3>1. PICK q \in file.starts :
            /\ HeaderAt(file, q) /\ stream.pos = q + 4
            /\ record.id = IdAt(file, q) /\ n = LengthAt(file, q)
      BY <1>1, <2>2 DEF SkipInv, RecordHeld
    <3>2. q \in Nat /\ Len(file.bytes) \in Nat /\ file.bytes \in Seq(Byte) /\ Size = Len(file.bytes)
      BY <1>1, FileTyped DEF Size
    <3>3. stream.fp = stream.pos /\ stream'.pos = q + 4 + n /\ q + 4 + n <= Len(file.bytes)
      <4>1. stream.fp = stream.pos
        BY <1>1, <2>2 DEF Positions
      <4>2. stream.pos + n <= Size /\ AfterRead(n).pos = stream.pos + n
        BY <1>1, <1>7, <2>2, Ahead
      <4> QED
        BY <1>1, <3>1, <3>2, <4>1, <4>2
    <3>4. n <= Len(r.data) /\ \A i \in 1 .. n : r.data[i] = new[i]
      <4>1. new \in Seq(Byte) /\ Len(new) = n /\ record.data \in Seq(Byte)
        BY <1>3, <1>4, <1>7
      <4> HIDE DEF new
      <4>2. /\ Len(new) <= Len(Overwrite(record.data, new))
            /\ \A i \in 1 .. Len(new) : Overwrite(record.data, new)[i] = new[i]
        BY <4>1, OverwriteBegins
      <4> QED
        BY <1>5, <4>1, <4>2
    <3>5. \A i \in 1 .. n : new[i] = file.bytes[q + 4 + i]
      <4>1. new = SubSeq(file.bytes, q + 4 + 1, q + 4 + n)
        BY <1>3, <1>7, <3>1, <3>3
      <4> QED
        BY <1>1, <3>2, <3>3, <4>1
    <3> QED
      BY <1>5, <3>1, <3>3, <3>4, <3>5 DEF HeldAt
  <2> QED
    BY <1>1, <1>5, <2>1, <2>2, ReadsHold
<1> QED
  BY <1>6, <1>7

(* The version and the kind of a substream lie within its BOF record.      *)
LEMMA WholeBof ==
  ASSUME BofsWhole, NEW q, HeldAt(file, record, stream.pos, q), record.id = ID_BOF58
  PROVE  record.len >= 4
BY DEF BofsWhole, HeldAt

LEMMA TakeByteHolds ==
  ASSUME ReaderInv, SkipInv, TakeByte
  PROVE  SkipInv'
<1>1. /\ file' = file /\ stream' = stream /\ caller' = caller /\ ret' = ret
      /\ pc = "fetch" /\ field.need > 0
      /\ record' = [record EXCEPT !.offset = @ + 1] /\ Deliver(InBuffer(record))
      /\ Typed /\ record \in RecordType /\ caller # "skip" /\ FieldFormed
  BY DEF TakeByte, input, ReaderInv, Typed, RecordType, SkipInv
<1>2. /\ FieldFormed' /\ field'.for = field.for /\ pc' = "fetch"
      /\ field'.need = field.need - 1 /\ field'.got = Append(field.got, InBuffer(record))
  BY <1>1, Delivered
<1>3. ret # "NOTIMPLEMENTED"
  BY <1>1 DEF SkipInv, Skipping
<1>4. ASSUME Sound, field.for = "bof"
      PROVE  \E q \in file.starts : BofTaken(file, record', stream.pos, field', q)
  <2>1. PICK q \in file.starts : BofTaken(file, record, stream.pos, field, q)
    BY <1>1, <1>4 DEF SkipInv, RecordHeld
  <2> DEFINE k == Len(field.got)
             b == InBuffer(record)
  <2>2. /\ HeldAt(file, record, stream.pos, q) /\ record.id = ID_BOF58
        /\ field.got \in Seq(Byte) /\ k <= 4 /\ field.need = 4 - k /\ record.offset = k
        /\ \A i \in 1 .. k : field.got[i] = file.bytes[q + 4 + i]
    BY <2>1 DEF BofTaken
  <2>3. record.len >= 4
    BY <1>4, <2>2, WholeBof DEF Sound
  <2>4. k \in Nat /\ k < 4 /\ record.len \in Nat /\ Len(record.data) \in Nat
        /\ record.data \in Seq(Byte)
    <3>1. k \in Nat /\ record.len \in Nat /\ record.data \in Seq(Byte)
      BY <1>1, <2>2 DEF RecordType
    <3> QED
      BY <1>1, <2>2, <3>1
  <2>5. record.len <= Len(record.data)
        /\ \A i \in 1 .. record.len : record.data[i] = file.bytes[q + 4 + i]
    BY <2>2 DEF HeldAt
  <2>6. b = record.data[k + 1] /\ b \in Byte /\ b = file.bytes[q + 4 + (k + 1)]
    <3>1. k < Len(record.data) /\ k + 1 \in 1 .. record.len /\ k + 1 \in 1 .. Len(record.data)
      BY <2>3, <2>4, <2>5
    <3>2. b = record.data[k + 1]
      BY <2>2, <3>1 DEF InBuffer
    <3> QED
      BY <2>4, <2>5, <3>1, <3>2, ElementOfSeq
  <2> HIDE DEF k, b
  <2>7. /\ field'.got \in Seq(Byte) /\ Len(field'.got) = k + 1
        /\ field'.got[k + 1] = b /\ \A i \in 1 .. k : field'.got[i] = field.got[i]
    <3>1. field'.got = Append(field.got, b)
      BY <1>2 DEF b
    <3> QED
      BY <2>2, <2>6, <3>1, AppendProperties DEF k
  <2>8. /\ record'.id = record.id /\ record'.len = record.len /\ record'.data = record.data
        /\ record'.offset = k + 1
    BY <1>1, <2>2 DEF RecordType
  <2>9. HeldAt(file, record', stream.pos, q)
    BY <2>2, <2>8 DEF HeldAt
  <2>10. \A i \in 1 .. k + 1 : field'.got[i] = file.bytes[q + 4 + i]
    BY <2>2, <2>4, <2>6, <2>7
  <2>11. k + 1 <= 4 /\ field'.need = 4 - (k + 1)
    BY <1>2, <2>2, <2>4
  <2> QED
    BY <2>2, <2>7, <2>8, <2>9, <2>10, <2>11 DEF BofTaken
<1>5. RecordHeld'
  <2>1. Sound /\ caller = "string" => field.for # "bof"
    BY DEF SkipInv, RecordHeld
  <2> QED
    BY <1>1, <1>2, <1>4, <2>1, SameSound DEF RecordHeld
<1>6. Skipping' /\ SkipInPlainFile'
  BY <1>1, <1>2, <1>3 DEF Skipping, SkipInPlainFile
<1> QED
  BY <1>2, <1>5, <1>6 DEF SkipInv

(* A BOF record that is whole is never used up while its handler reads.    *)
LEMMA ReadContinueHolds ==
  ASSUME ReaderInv, SkipInv, ReadContinue
  PROVE  SkipInv'
<1>1. /\ file' = file /\ ret' = ret /\ field' = field /\ pc = "fetch" /\ pc' = "id"
      /\ caller' = "string" /\ field.need > 0 /\ UsedUp
      /\ caller # "skip" /\ record \in RecordType
  BY DEF ReadContinue, input, ReaderInv, Typed, RecordType
<1>2. ASSUME Sound PROVE field.for # "bof"
  <2> SUFFICES ASSUME field.for = "bof" PROVE FALSE
    OBVIOUS
  <2>1. PICK q \in file.starts : BofTaken(file, record, stream.pos, field, q)
    BY <1>1, <1>2 DEF SkipInv, RecordHeld
  <2>2. /\ HeldAt(file, record, stream.pos, q) /\ record.id = ID_BOF58
        /\ field.got \in Seq(Byte) /\ field.need = 4 - Len(field.got)
        /\ record.offset = Len(field.got)
    BY <2>1 DEF BofTaken
  <2>3. record.len >= 4
    BY <1>2, <2>2, WholeBof DEF Sound
  <2>4. Len(field.got) \in Nat /\ record.len = Len(field.got)
    BY <1>1, <2>2 DEF UsedUp
  <2> QED
    BY <1>1, <2>2, <2>3, <2>4
<1>3. ret # "NOTIMPLEMENTED" /\ FieldFormed'
  BY <1>1 DEF SkipInv, Skipping, FieldFormed
<1> QED
  BY <1>1, <1>2, <1>3, Elsewhere

LEMMA BofRecordHolds ==
  ASSUME ReaderInv, SkipInv, BofRecord
  PROVE  SkipInv'
<1>1. /\ file' = file /\ stream' = stream /\ record' = record /\ ret' = ret
      /\ pc = "handler" /\ record.id = ID_BOF58
      /\ pc' = "fetch" /\ caller' = "loop"
      /\ field' = [for |-> "bof", need |-> 4, got |-> <<>>]
      /\ caller # "skip"
  BY DEF BofRecord, Handles, Ask, Quiet, input, ReaderInv, Typed
<1>2. FieldFormed'
  BY <1>1 DEF FieldFormed
<1>3. ASSUME Sound
      PROVE  \E q \in file.starts : BofTaken(file, record, stream.pos, field', q)
  <2>1. PICK q \in file.starts : HeldAt(file, record, stream.pos, q)
    BY <1>1, <1>3 DEF SkipInv, RecordHeld
  <2>2. record.offset = 0
    BY <1>1, <1>3 DEF SkipInv, RecordHeld
  <2>3. field'.got = <<>> /\ field'.need = 4
    BY <1>1
  <2>4. field'.got \in Seq(Byte) /\ Len(field'.got) = 0
    BY <2>3, EmptySeq
  <2>5. BofTaken(file, record, stream.pos, field', q)
    BY <1>1, <2>1, <2>2, <2>3, <2>4 DEF BofTaken
  <2> QED
    BY <2>5
<1>4. RecordHeld'
  BY <1>1, <1>3, SameSound DEF RecordHeld
<1>5. Skipping' /\ SkipInPlainFile'
  BY <1>1 DEF SkipInv, Skipping, SkipInPlainFile
<1> QED
  BY <1>2, <1>4, <1>5 DEF SkipInv

(* A skip begins behind the BOF record of a chart.                         *)
LEMMA UnsupportedHolds ==
  ASSUME ReaderInv, SkipInv, BofUnsupported
  PROVE  SkipInv'
<1>1. /\ file' = file /\ stream' = stream /\ field' = field
      /\ pc = "fetch" /\ field.for = "bof" /\ field.need = 0
      /\ BofStream \notin GlobalStreams \cup {SheetStream}
      /\ pc' = "id" /\ caller' = "skip" /\ Typed
  BY DEF BofUnsupported, Has, Quiet, input, ReaderInv
<1>2. FieldFormed' /\ RecordHeld' /\ SkipInPlainFile'
  BY <1>1 DEF SkipInv, FieldFormed, RecordHeld, SkipInPlainFile
<1>3. ASSUME Sound
      PROVE  \E b, q \in file.starts : Passed(file, stream.pos, b, q)
  <2>1. PICK q \in file.starts : BofTaken(file, record, stream.pos, field, q)
    BY <1>1, <1>3 DEF SkipInv, RecordHeld
  <2> DEFINE got == field.got
  <2>2. /\ HeldAt(file, record, stream.pos, q) /\ record.id = ID_BOF58
        /\ got \in Seq(Byte) /\ Len(got) = 4
        /\ \A i \in 1 .. Len(got) : got[i] = file.bytes[q + 4 + i]
    <3>1. /\ HeldAt(file, record, stream.pos, q) /\ record.id = ID_BOF58
          /\ got \in Seq(Byte) /\ field.need = 4 - Len(got)
          /\ \A i \in 1 .. Len(got) : got[i] = file.bytes[q + 4 + i]
      BY <2>1 DEF BofTaken
    <3>2. Len(got) \in Nat
      BY <3>1
    <3>3. 4 - Len(got) = 0
      BY <1>1, <3>1
    <3>4. Len(got) = 4
      BY <3>2, <3>3
    <3> QED
      BY <3>1, <3>4
  <2>3. record.len >= 4
    BY <1>3, <2>2, WholeBof DEF Sound
  <2>4. /\ HeaderAt(file, q) /\ stream.pos = q + 4 + LengthAt(file, q)
        /\ stream.pos <= Len(file.bytes)
        /\ IdAt(file, q) = ID_BOF58 /\ LengthAt(file, q) >= 4
    BY <2>2, <2>3 DEF HeldAt
  <2>5. /\ q \in Nat /\ LengthAt(file, q) \in Nat /\ Len(file.bytes) \in Nat
        /\ file.bytes \in Seq(Byte) /\ file.starts \subseteq Nat
    <3>1. file \in Files
      BY <1>1 DEF Typed
    <3>2. Size = Len(file.bytes)
      BY DEF Size
    <3> QED
      BY <1>1, <2>4, <3>1, <3>2, LengthTyped, FileTyped
  <2>6. q + 8 <= Len(file.bytes)
    BY <2>4, <2>5
  <2>7. Word(SubSeq(file.bytes, q + 7, q + 8)) = BofStream
    <3>1. got[3] = file.bytes[q + 7] /\ got[4] = file.bytes[q + 8]
      <4>1. got[3] = file.bytes[q + 4 + 3] /\ got[4] = file.bytes[q + 4 + 4]
        BY <2>2
      <4>2. q + 4 + 3 = q + 7 /\ q + 4 + 4 = q + 8
        BY <2>5
      <4> QED
        BY <4>1, <4>2
    <3> HIDE DEF got
    <3>2. SubSeq(got, 3, 4)[1] = got[3] /\ SubSeq(got, 3, 4)[2] = got[4]
      BY <2>2
    <3>3. /\ SubSeq(file.bytes, q + 7, q + 8)[1] = file.bytes[q + 7]
          /\ SubSeq(file.bytes, q + 7, q + 8)[2] = file.bytes[q + 8]
      BY <2>5, <2>6
    <3>4. BofStream = Word(SubSeq(got, 3, 4))
      BY DEF BofStream, WordAt, got
    <3> QED
      BY <3>1, <3>2, <3>3, <3>4 DEF Word
  <2>8. ChartAt(file, q)
    BY <1>1, <2>4, <2>6, <2>7 DEF ChartAt
  <2>9. ~EofAt(file, q)
    BY <2>4 DEF EofAt, ID_EOF, ID_BOF58
  <2>10. NoEofBetween(file, q, q) /\ q <= q
    BY <2>5 DEF NoEofBetween
  <2>11. Passed(file, stream.pos, q, q)
    BY <2>4, <2>8, <2>9, <2>10 DEF Passed, RecordAt
  <2> QED
    BY <2>11
<1>4. Skipping'
  BY <1>1, <1>3, SameSound DEF Skipping
<1> QED
  BY <1>2, <1>4 DEF SkipInv

(* A record is passed: it is the EOF record, or the next one is looked at. *)
LEMMA SkipDataHolds ==
  ASSUME ReaderInv, SkipInv, SkipData
  PROVE  SkipInv'
<1>1. /\ file' = file /\ record' = record /\ caller' = caller /\ field' = field /\ ret' = ret
      /\ pc = "seek" /\ stream' = AfterSeek(record.len)
      /\ pc' = IF record.id = ID_EOF THEN "done" ELSE "id"
      /\ Typed /\ caller = "skip"
  BY DEF SkipData, PastData, input, ReaderInv, Typed
<1>2. FieldFormed' /\ RecordHeld'
  BY <1>1 DEF SkipInv, FieldFormed, RecordHeld
<1>3. ASSUME Sound, ~file.ole
      PROVE  \E b, q \in file.starts :
               /\ Reached(file, record, b, q) /\ HeaderAt(file, q)
               /\ RecordAt(file, q, stream'.pos)
  <2>1. PICK b \in file.starts, q \in file.starts :
          /\ Reached(file, record, b, q) /\ HeaderAt(file, q)
          /\ stream.pos = q + 4 /\ record.len = LengthAt(file, q)
    BY <1>1, <1>3 DEF SkipInv, Skipping
  <2>2. stream'.pos = stream.pos + record.len
    BY <1>1, <1>3 DEF AfterSeek
  <2>3. RecordAt(file, q, stream'.pos)
    BY <2>1, <2>2 DEF RecordAt
  <2> QED
    BY <2>1, <2>3
<1>4. Skipping'
  <2>1. ASSUME Sound, ~file.ole, record.id # ID_EOF
        PROVE  \E b, q \in file.starts : Passed(file, stream'.pos, b, q)
    <3>1. PICK b \in file.starts, q \in file.starts :
            /\ Reached(file, record, b, q) /\ HeaderAt(file, q)
            /\ RecordAt(file, q, stream'.pos)
      BY <1>3, <2>1
    <3>2. ~EofAt(file, q)
      BY <2>1, <3>1 DEF Reached, EofAt
    <3>3. b \in Nat /\ q \in Nat
      BY <1>1, FileTyped
    <3>4. b <= q
      BY <3>1, <3>3 DEF Reached
    <3> QED
      BY <3>1, <3>2, <3>4 DEF Passed, Reached
  <2> QED
    BY <1>1, <2>1, SameSound DEF Skipping
<1>5. SkipInPlainFile'
  <2>1. ASSUME Sound, ~file.ole, record.id = ID_EOF
        PROVE  \E b, q \in file.starts :
                 /\ ChartAt(file, b) /\ EofAt(file, q) /\ RecordAt(file, q, stream'.pos)
                 /\ b < q /\ NoEofBetween(file, b, q)
    BY <1>3, <2>1 DEF Reached, EofAt
  <2>2. Sound' => Sound
    BY <1>1, SameSound
  <2> QED
    BY <1>1, <2>1, <2>2 DEF SkipInPlainFile, Sound
<1> QED
  BY <1>2, <1>4, <1>5 DEF SkipInv

LEMMA SkipFailsHolds ==
  ASSUME ReaderInv, SkipInv, SkipFails
  PROVE  SkipInv'
<1>1. /\ file' = file /\ caller' = caller /\ field' = field /\ ret' = "BADFILE"
      /\ pc' = "done" /\ caller = "skip"
  BY DEF SkipFails, input, io, ReaderInv, Typed
<1> QED
  BY <1>1 DEF SkipInv, FieldFormed, RecordHeld, Skipping, SkipInPlainFile

LEMMA HandlerHolds ==
  ASSUME ReaderInv, SkipInv, HandlerStep
  PROVE  SkipInv'
<1>1. /\ file' = file /\ caller # "skip" /\ pc \in InHandler
      /\ pc' \in InHandler \cup {"id", "done"} /\ pc' # "handler"
      /\ caller' \in {"loop", caller} /\ caller \in {"loop", "string"}
      /\ pc' = "fetch" => field'.for # "bof"
      /\ field' = field \/ \E x, n : field' = [for |-> x, need |-> n, got |-> <<>>]
      /\ caller' = "string" => field' = field
      /\ ret' \in {ret, "SUCCESS", "BADFILE", "UNEXPECTED", "OUTOFMEMORY"}
  BY DEF HandlerStep, BufferStep, ReaderInv, Typed, InHandler
<1>2. ret' # "NOTIMPLEMENTED"
  BY <1>1 DEF SkipInv, Skipping
<1>3. FieldFormed'
  <2>1. CASE field' = field
    BY <2>1 DEF SkipInv, FieldFormed
  <2>2. CASE \E x, n : field' = [for |-> x, need |-> n, got |-> <<>>]
    BY <2>2 DEF FieldFormed
  <2> QED
    BY <1>1, <2>1, <2>2
<1>4. Sound /\ caller' = "string" => field'.for # "bof"
  BY <1>1 DEF SkipInv, RecordHeld
<1> QED
  BY <1>1, <1>2, <1>3, <1>4, Elsewhere DEF InHandler

LEMMA SkipInit == Init => SkipInv
<1> SUFFICES ASSUME Init PROVE SkipInv
  OBVIOUS
<1>1. pc = "id" /\ caller = "loop" /\ field = NoField /\ ret = "BADFILE"
  BY DEF Init
<1>2. FieldFormed
  BY <1>1 DEF FieldFormed, NoField
<1> QED
  BY <1>1, <1>2 DEF SkipInv, RecordHeld, Skipping, SkipInPlainFile

LEMMA SkipStep == ReaderInv /\ SkipInv /\ [Next]_vars => SkipInv'
<1> SUFFICES ASSUME ReaderInv, SkipInv, [Next]_vars PROVE SkipInv'
  OBVIOUS
<1>1. CASE UNCHANGED vars
  <2>1. UNCHANGED <<file, stream, record, pc, caller, field, ret>>
    BY <1>1 DEF vars, io, input
  <2> QED
    BY <2>1, SameSound DEF SkipInv, FieldFormed, RecordHeld, Skipping, SkipInPlainFile, Sound
<1> QED
  BY <1>1, StepKinds, EofHolds, ReadIdHolds, ReadLenHolds, ReadDataHolds, TakeByteHolds,
     ReadContinueHolds, BofRecordHolds, UnsupportedHolds, SkipDataHolds, SkipFailsHolds,
     HandlerHolds

(* Whatever the chart holds, and wherever the file is cut off: a chart     *)
(* that is skipped ends behind the first EOF record after its BOF record,  *)
(* in a plain file whose records fit and whose BOF records are whole.      *)
THEOREM ChartSkipped == Spec => []SkipInPlainFile
<1>1. SkipInv => SkipInPlainFile
  BY DEF SkipInv
<1> QED
  BY <1>1, ReaderInit, ReaderStep, SkipInit, SkipStep, PTL DEF Spec
=============================================================================
