----------------------------- MODULE NumberText -----------------------------
(***************************************************************************)
(* What a number in a workbook becomes: the XF and FORMAT records and what *)
(* the context keeps of them (biff_xf.c, biff_format.c, ctx_xf.c,          *)
(* ctx_format.c), the three ways a number is stored (biff_number.c,        *)
(* record.c, biff_integer.c), its text (format.c) and the address of its   *)
(* cell (cell.c).                                                          *)
(*                                                                         *)
(* A double is a fraction whose denominator is a power of two and whose    *)
(* numerator has no more than Bits significant bits, with a sign of its    *)
(* own.  Its exponent has no limits here: no number is infinite, and none  *)
(* has fewer bits because it is small.  A decimal number is counted in     *)
(* units of 10^-Decimals.                                                  *)
(***************************************************************************)
EXTENDS Integers, Sequences, SequencesExt, FiniteSets

CONSTANTS
  Books,     \* [btype, records]: files up to the end of their first worksheet
  Decimals,  \* digits after the point that are printed, 9 in the code
  Bits,      \* significant bits of a double, 53
  RkBits     \* bits of an integer in an RK value, 30

ASSUME SizesAssumption ==
  /\ Decimals \in Nat \ {0, 1}
  /\ Bits \in Nat /\ Bits >= 6 /\ RkBits \in 1 .. Bits

-----------------------------------------------------------------------------
(* Arithmetic of doubles: the nearest one, of two as near the even one.    *)
TwoTo[k \in Nat] == IF k = 0 THEN 1 ELSE 2 * TwoTo[k - 1]

Nearest(a, b) ==
  LET q == a \div b
      r == a % b
  IN  IF 2 * r > b \/ (2 * r = b /\ q % 2 = 1) THEN q + 1 ELSE q

(* What the last of Bits bits of n is worth.                               *)
LastPlace[n \in Nat] == IF n < TwoTo[Bits] THEN 1 ELSE 2 * LastPlace[n \div 2]
Rounded(n) == Nearest(n, LastPlace[n]) * LastPlace[n]

(* The constant 0.01 is none exactly.                                      *)
Cent == [top |-> Nearest(64 * TwoTo[Bits], 100), bottom |-> 64 * TwoTo[Bits]]
Hundredth(d) ==
  [d EXCEPT !.top = Rounded(d.top * Cent.top), !.bottom = d.bottom * Cent.bottom]

IsDouble(d) ==
  /\ d.negative \in BOOLEAN
  /\ d.top \in Nat /\ Rounded(d.top) = d.top
  /\ \E k \in 0 .. d.bottom : d.bottom = TwoTo[k]

(* What is read into a record are unsigned numbers, doubles and flags.     *)
ASSUME BooksAssumption ==
  \A b \in Books :
    /\ b.btype \in Nat /\ b.records \in Seq(Range(b.records))
    /\ \A x \in Range(b.records) :
         /\ x.kind \in {"number", "rk", "integer"} => x.row \in Nat /\ x.col \in Nat
         /\ x.kind \in {"number", "rk"} => x.xf \in Nat
         /\ x.kind = "format" => x.index \in Nat
         /\ x.kind = "xf" => x.style \in BOOLEAN /\ x.own \in BOOLEAN /\ x.format \in Nat

ASSUME ValuesAssumption ==
  \A b \in Books : \A x \in Range(b.records) :
    /\ x.kind = "number" => IsDouble(x.data)
    /\ x.kind = "integer" => x.data \in Nat
    /\ x.kind = "rk" =>
         /\ x.integer \in BOOLEAN /\ x.hundredth \in BOOLEAN
         /\ IF x.integer THEN x.bits \in 0 .. TwoTo[RkBits] - 1 ELSE IsDouble(x.data)

VARIABLES
  book,
  at,        \* position in the records
  pc,
  sheet,     \* a worksheet has begun
  xf,        \* XF number n is at n + 1
  format,    \* texts of formats by their index
  cells      \* cells in the order they were set

vars == <<book, at, pc, sheet, xf, format, cells>>

Init ==
  /\ book \in Books
  /\ at = 1 /\ pc = "read" /\ sheet = FALSE
  /\ xf = <<>> /\ format = <<>> /\ cells = <<>>

Record   == book.records[at]
At(kind) == pc = "read" /\ at <= Len(book.records) /\ Record.kind = kind

-----------------------------------------------------------------------------
(* XF records.  The parent of a cell's XF is in the upper twelve bits of a *)
(* word whose other bits are flags; 0xfff0 >> 4 is the mask that is used.  *)
ParentWord(x) == x.parent * 16 + x.flags
ParentOf(x)   == ParentWord(x) % 4096

Xf(x) ==
  IF book.btype = 2
    THEN [style |-> TRUE, own |-> FALSE, parent |-> -1, format |-> x.format % 64]
    ELSE [style |-> x.style, own |-> x.own, parent |-> ParentOf(x), format |-> x.format]

XfRecord ==
  /\ At("xf")
  /\ xf' = Append(xf, Xf(Record)) /\ at' = at + 1
  /\ UNCHANGED <<book, pc, sheet, format, cells>>

(* cexcel_context_xf_get_format_index(), -1 for none.                      *)
\* Mutant: the bit of the attributes is read the other way round.
IndexSwapped(n) ==
  IF n \notin 0 .. Len(xf) - 1 THEN -1
  ELSE LET x == xf[n + 1] IN
       IF x.style \/ ~x.own THEN x.format
       ELSE IF x.parent \in 0 .. Len(xf) - 1 THEN xf[x.parent + 1].format ELSE -1
FormatIndex(n) ==
  IF n \notin 0 .. Len(xf) - 1 THEN -1
  ELSE LET x == xf[n + 1] IN
       IF x.style \/ x.own THEN x.format
       ELSE IF x.parent \in 0 .. Len(xf) - 1 THEN xf[x.parent + 1].format ELSE -1

-----------------------------------------------------------------------------
(* Formats.  The first text for an index stays.                            *)
Added(f, i, text) ==
  IF i \in DOMAIN f THEN f ELSE [j \in DOMAIN f \cup {i} |-> IF j = i THEN text ELSE f[j]]

FormatRecord ==
  /\ At("format")
  /\ format' = Added(format,
                     IF book.btype < 5 THEN Cardinality(DOMAIN format) ELSE Record.index,
                     Record.text)
  /\ at' = at + 1
  /\ UNCHANGED <<book, pc, sheet, xf, cells>>

BuiltinIndexes == (0 .. 22) \cup (27 .. 58)
Builtin(i) ==
  CASE i = 0 -> "General" [] i = 49 -> "@" [] OTHER -> "builtin"

WithBuiltins ==
  [i \in DOMAIN format \cup BuiltinIndexes |->
     IF i \in DOMAIN format THEN format[i] ELSE Builtin(i)]

(* The BOF record of a worksheet.                                          *)
SheetBegins ==
  /\ At("bof") /\ ~sheet
  /\ sheet' = TRUE
  /\ format' = IF book.btype >= 5 THEN WithBuiltins ELSE format
  /\ at' = at + 1
  /\ UNCHANGED <<book, pc, xf, cells>>

-----------------------------------------------------------------------------
(* "%.9f" prints the decimal number that is nearest to the double, and a   *)
(* sign also before a zero; then what is taken off its end.                *)
TenTo[k \in Nat] == IF k = 0 THEN 1 ELSE 10 * TenTo[k - 1]
Unit   == TenTo[Decimals]
Abs(n) == IF n < 0 THEN -n ELSE n

Digit == <<"0", "1", "2", "3", "4", "5", "6", "7", "8", "9">>
Digits[n \in Nat] ==
  IF n < 10 THEN <<Digit[n + 1]>> ELSE Append(Digits[n \div 10], Digit[(n % 10) + 1])
Padded(n) == [k \in 1 .. Decimals |-> Digit[((n \div TenTo[Decimals - k]) % 10) + 1]]
Printed(negative, n) ==
  (IF negative THEN <<"-">> ELSE <<>>)
    \o Digits[n \div Unit] \o <<".">> \o Padded(n % Unit)

LastNot(text, char) == SelectLastInSeq(text, LAMBDA x : x # char)
\* Mutant: the point stays when nothing is left behind it.
PointKept(text) == SubSeq(text, 1, LastNot(text, "0"))
Trimmed(text) ==
  LET short == SubSeq(text, 1, LastNot(text, "0")) IN
  IF Last(short) = "." THEN Front(short) ELSE short

General(d) == Trimmed(Printed(d.negative, Nearest(d.top * Unit, d.bottom)))

(* An RK value is a double or an integer of all but two bits, which is     *)
(* shifted down as an unsigned one; if the lowest bit is set, 0.01 times   *)
(* that number.                                                            *)
RkData(r) ==
  LET d == IF r.integer THEN [negative |-> FALSE, top |-> r.bits, bottom |-> 1] ELSE r.data
  IN  IF r.hundredth THEN Hundredth(d) ELSE d

(* The address of a cell: its column in letters, least significant first   *)
(* put in front, and its row.                                              *)
Letter(n) == (n - 1) % 26
Column[n \in Nat] ==
  IF n <= 26 THEN <<Letter(n)>> ELSE Append(Column[n \div 26], Letter(n))

\* Mutant: the number is divided before its letter is taken.
DividedFirst(row, col) ==
  LET n == (col + 1) \div 26 IN
  [letters |-> IF col < 26 THEN <<col>> ELSE <<Letter(n), Letter(n)>>, number |-> row + 1]
Address(row, col) == [letters |-> Column[col + 1], number |-> row + 1]

-----------------------------------------------------------------------------
SetCell(text, fmt) ==
  /\ cells' = Append(cells, [of |-> at, text |-> text, format |-> fmt,
                             address |-> Address(Record.row, Record.col)])
  /\ at' = at + 1
  /\ UNCHANGED <<book, pc, sheet, xf, format>>

(* cexcel_format_double() compares the text of the format with two known   *)
(* ones; without a format there is nothing to compare.                     *)
FormatDouble(data) ==
  LET i == FormatIndex(Record.xf) IN
  \/ i \in DOMAIN format /\ SetCell(General(data), format[i])
  \/ i \notin DOMAIN format /\ pc' = "crash"
     /\ UNCHANGED <<book, at, sheet, xf, format, cells>>

(* BIFF2: the format of the cell is in an IXFE record.                      *)
NeedsIxfe(x) == x.kind = "number" /\ book.btype = 2 /\ x.xf = 63
IxfeWanted == NeedsIxfe(Record)

NumberCell == At("number") /\ sheet /\ ~IxfeWanted /\ FormatDouble(Record.data)

(* An RK record, or one of the values of a MULRK record.                   *)
RkCell == At("rk") /\ sheet /\ book.btype # 2 /\ FormatDouble(RkData(Record))

IntegerCell ==
  /\ At("integer") /\ sheet /\ book.btype = 2
  /\ SetCell(Digits[Record.data], "none")

(* A record that has no place here ends the loop over the records.         *)
Unusable ==
  /\ pc = "read" /\ at <= Len(book.records)
  /\ \/ Record.kind \in {"number", "rk", "integer"} /\ ~sheet
     \/ Record.kind = "rk" /\ book.btype = 2
     \/ Record.kind = "integer" /\ book.btype # 2
     \/ Record.kind = "bof" /\ sheet
     \/ IxfeWanted
  /\ pc' = "end"
  /\ UNCHANGED <<book, at, sheet, xf, format, cells>>

Finished ==
  /\ pc # "read" \/ at > Len(book.records)
  /\ UNCHANGED vars

Next ==
  \/ XfRecord \/ FormatRecord \/ SheetBegins
  \/ NumberCell \/ RkCell \/ IntegerCell
  \/ Unusable \/ Finished

Spec == Init /\ [][Next]_vars

-----------------------------------------------------------------------------
(* The number a text stands for, in units.                                 *)
Value(char)  == (CHOOSE n \in DOMAIN Digit : Digit[n] = char) - 1
Behind(text) ==
  IF "." \in Range(text) THEN Len(text) - (CHOOSE k \in DOMAIN text : text[k] = ".") ELSE 0
NumberOf(text) ==
  LET upTo[k \in 0 .. Len(text)] ==
        IF k = 0 THEN 0
        ELSE IF text[k] \in Range(Digit) THEN 10 * upTo[k - 1] + Value(text[k])
        ELSE upTo[k - 1]
  IN  upTo[Len(text)] * TenTo[Decimals - Behind(text)] * (IF Head(text) = "-" THEN -1 ELSE 1)

(* The number a record holds, as a fraction.                               *)
NegativeInteger(x) == x.kind = "rk" /\ x.integer /\ x.bits >= TwoTo[RkBits - 1]
Multiplied(x)      == x.kind = "rk" /\ x.hundredth
Undivided(x) ==
  CASE x.kind = "integer"          -> [top |-> x.data, bottom |-> 1]
    [] x.kind = "rk" /\ x.integer ->
         [top |-> IF NegativeInteger(x) THEN x.bits - TwoTo[RkBits] ELSE x.bits, bottom |-> 1]
    [] OTHER -> [top    |-> IF x.data.negative THEN -x.data.top ELSE x.data.top,
                 bottom |-> x.data.bottom]
Held(x) == [top |-> Undivided(x).top, bottom |-> Undivided(x).bottom * (IF Multiplied(x) THEN 100 ELSE 1)]

(* t units are as near to a number as half the last decimal and, if it was *)
(* multiplied, two roundings of a double allow.                            *)
Near(t, x) ==
  LET h == Held(x) IN
  2 * Abs(t * h.bottom - h.top * Unit)
    <= h.bottom + (IF Multiplied(x) THEN (4 * Abs(h.top) * Unit) \div TwoTo[Bits] ELSE 0)

(* A record made for v units holds v as near as a double can.              *)
MadeFor(h, v) == Abs(v * h.bottom - h.top * Unit) <= (Abs(v) * h.bottom) \div TwoTo[Bits]
Short == -TwoTo[Bits - 3] .. TwoTo[Bits - 3]

Kept(c) ==
  LET t == NumberOf(c.text)
      x == book.records[c.of]
      h == Held(x)
  IN  /\ Near(t, x)
      /\ \A v \in Short : MadeFor(h, v) => t = v
      /\ "." \in Range(c.text) => Last(c.text) \notin {"0", "."}

(* Whichever way a number is stored, the text of its cell is the decimal   *)
(* number nearest to what the record holds, or next to that one if it was  *)
(* multiplied by 0.01, and has as few digits as it takes.  So a number     *)
(* typed with no more digits than that, one of up to a million with nine   *)
(* decimals, arrives as it was typed, though a double is seldom it exactly *)
(* (biff_number.c, record.c:293, format.c).  BUGS_ja.txt:3 says of large   *)
(* integers that they do not arrive: up to 2^53 they do, in this sense.    *)
(* Integers below zero in RK values are looked at below.                   *)
NumbersKept ==
  \A c \in Range(cells) : ~NegativeInteger(book.records[c.of]) => Kept(c)

(* record.c:291 and :305 say of an RK value that it holds a "signed        *)
(* integer": the sign must arrive.                                         *)
SignsKept ==
  \A c \in Range(cells) : NegativeInteger(book.records[c.of]) => Kept(c)

(* The record of a kind with a number, counted from 0.                     *)
Preceding(p, kind) == Cardinality({k \in 1 .. p - 1 : book.records[k].kind = kind})
PositionOf(n, kind) ==
  CHOOSE p \in DOMAIN book.records :
    book.records[p].kind = kind /\ Preceding(p, kind) = n

(* The format an index means in this file: that of its first FORMAT record *)
(* with that index, which was their number before BIFF5, else a built-in.  *)
OwnFormats(i) ==
  {p \in DOMAIN book.records :
     /\ book.records[p].kind = "format"
     /\ (IF book.btype < 5 THEN Preceding(p, "format") ELSE book.records[p].index) = i}
Meant(i) ==
  IF OwnFormats(i) # {} THEN book.records[Min(OwnFormats(i))].text ELSE Builtin(i)

(* In BIFF2 the index shares its byte with two flags.                      *)
XfOf(x)        == book.records[PositionOf(x.xf, "xf")]
IndexOf(x)     == IF book.btype = 2 THEN XfOf(x).format % 64 ELSE XfOf(x).format
OwnFormat(x)   == book.btype = 2 \/ XfOf(x).style \/ XfOf(x).own
HasXf(x)       == x.kind \in {"number", "rk"}

(* A file as it should be: what a cell refers to comes before the cell,    *)
(* and from BIFF5 on all FORMAT records come before the worksheet.         *)
Exists(i, p) ==
  IF book.btype < 5 THEN i < Preceding(p, "format")
  ELSE i \in BuiltinIndexes \/ \E k \in OwnFormats(i) : k < p
WellOrdered ==
  \A p \in DOMAIN book.records :
    /\ HasXf(book.records[p]) /\ ~NeedsIxfe(book.records[p]) =>
         /\ book.records[p].xf < Preceding(p, "xf")
         /\ OwnFormat(book.records[p]) => Exists(IndexOf(book.records[p]), p)
    /\ book.btype >= 5 /\ book.records[p].kind = "bof" =>
         \A k \in p .. Len(book.records) : book.records[k].kind # "format"

(* A cell with a format of its own is formatted by it: a text of the file, *)
(* wherever its record stands among the others, comes before the built-in  *)
(* one of the same index, and there always is one (ctx_format.c:160,       *)
(* ctx_xf.c:67).                                                           *)
FormatInForce ==
  WellOrdered =>
    /\ \A c \in Range(cells) :
         LET x == book.records[c.of] IN
         HasXf(x) /\ OwnFormat(x) => c.format = Meant(IndexOf(x))
    /\ pc = "crash" => ~OwnFormat(Record)

(* ctx_xf.c:82: "use parent style xf for number format index".             *)
ParentFormatUsed ==
  /\ \A c \in Range(cells) :
       LET x == book.records[c.of] IN
       HasXf(x) /\ ~OwnFormat(x)
         => c.format = Meant(book.records[PositionOf(XfOf(x).parent, "xf")].format)
  /\ pc # "crash"

(* Two cells never have the same address, by which attached files are      *)
(* named and errors reported (cell.c:87), and it is the one Excel shows,   *)
(* but for the columns behind Z that end in a Z: AZ is called BZ, BZ is    *)
(* called CZ (cell.c:101).                                                 *)
Positions == {<<book.records[c.of].row, book.records[c.of].col>> : c \in Range(cells)}
ExcelColumn(col) == IF col < 26 THEN <<col>> ELSE <<(col \div 26) - 1, col % 26>>
AsInExcel(c) ==
  LET x == book.records[c.of] IN
  x.col \in 0 .. 255 /\ (x.col < 26 \/ x.col % 26 # 25)
    => c.address = [letters |-> ExcelColumn(x.col), number |-> x.row + 1]
AddressesApart ==
  /\ Cardinality({c.address : c \in Range(cells)}) = Cardinality(Positions)
  /\ \A c \in Range(cells) : AsInExcel(c)
=============================================================================
