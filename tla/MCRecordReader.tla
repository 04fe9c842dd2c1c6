--------------------------- MODULE MCRecordReader ---------------------------
(***************************************************************************)
(* Files for RecordReader, written the way Excel writes them: a table of   *)
(* shared strings cut into CONTINUE records at any place where no          *)
(* character and no header is torn apart, then labels and charts; whole,   *)
(* cut off, or with one record of the table missing.                       *)
(***************************************************************************)
EXTENDS RecordReader, FiniteSets, TLC

W(n)  == <<n % 256, n \div 256>>
D(n)  == W(n) \o <<0, 0>>
D2(n) == W(n[1]) \o W(n[2])
Bytes(id, data) == W(id) \o W(Len(data)) \o data

(* A string: its characters and how many runs and phonetic bytes follow.   *)
Str(text, runs, phonetic) == [text |-> text, runs |-> runs, phonetic |-> phonetic]

(* What of a string must stay together.                                    *)
StrHead(x, wide) ==
  W(Len(x.text))
  \o <<(IF wide THEN 1 ELSE 0) + (IF x.phonetic > 0 THEN 4 ELSE 0) + (IF x.runs > 0 THEN 8 ELSE 0)>>
  \o (IF x.runs > 0 THEN W(x.runs) ELSE <<>>)
  \o (IF x.phonetic > 0 THEN D(x.phonetic) ELSE <<>>)

Atoms(x) ==
  <<[kind |-> "head", str |-> x]>>
  \o [n \in DOMAIN x.text |-> [kind |-> "char", code |-> x.text[n], last |-> n = Len(x.text)]]
  \o [n \in 1 .. x.runs |-> [kind |-> "tail", bytes |-> <<2, 1, 2, 1>>]]
  \o [n \in 1 .. x.phonetic |-> [kind |-> "tail", bytes |-> <<1>>]]

AllAtoms(strings) == FlattenSeq([n \in DOMAIN strings |-> Atoms(strings[n])])

(* The data of the table's records: a new one begins at the atoms of cuts, *)
(* with flags of its own before a character; wide[k] is the width of the   *)
(* characters of the k-th record where a string begins or goes on there.   *)
Table(strings, cuts, wide) ==
  LET atoms == AllAtoms(strings)
      Put(done, a, n) ==
        LET new == n \in cuts
            k   == Len(done) + (IF new THEN 1 ELSE 0)
            w   == wide[k]
            flg == IF a.kind = "char" /\ new THEN <<IF w THEN 1 ELSE 0>> ELSE <<>>
            b   == CASE a.kind = "head" -> StrHead(a.str, w)
                     [] a.kind = "char" -> IF w THEN W(a.code) ELSE <<a.code>>
                     [] OTHER           -> a.bytes
        IN  IF new THEN Append(done, flg \o b)
            ELSE [done EXCEPT ![k] = @ \o b]
  IN  FoldLeftDomain(LAMBDA done, n : Put(done, atoms[n], n),
                     <<D(Len(strings)) \o D(Len(strings))>>, atoms)

Narrow(strings) == \A n \in DOMAIN strings : \A c \in Range(strings[n].text) : c < 256

Records(parts) ==
  [k \in DOMAIN parts |-> Bytes(IF k = 1 THEN ID_SST ELSE ID_CONTINUE, parts[k])]

(* Layouts of a table: up to two cuts; one width only for wide characters. *)
Tables(strings) ==
  LET n == Len(AllAtoms(strings)) IN
  {Table(strings, cuts, wide) :
     cuts \in {c \in SUBSET (1 .. n) : Cardinality(c) <= 2},
     wide \in IF Narrow(strings)
              THEN {<<FALSE, FALSE, FALSE>>, <<TRUE, FALSE, TRUE>>, <<FALSE, TRUE, TRUE>>}
              ELSE {<<TRUE, TRUE, TRUE>>}}

BofRec(ver, type) == Bytes(ID_BOF58, W(ver) \o W(type))
EofRec            == Bytes(ID_EOF, <<>>)
BoundSheetRec     == Bytes(133, D(0) \o W(0) \o <<1, 65>>)
ExtSstRec         == Bytes(255, <<8, 0, 0, 0>>)
CodepageRec(n)    == Bytes(ID_CODEPAGE, W(n))
Label5Rec(text)   == LET b == FlattenSeq(text) IN
                     Bytes(ID_LABEL, W(0) \o W(1) \o W(15) \o W(Len(b)) \o b)
Label8Rec(text)   == Bytes(ID_LABEL, W(0) \o W(1) \o W(15) \o W(Len(text)) \o <<0>>
                                     \o FlattenSeq(text))

Ends(records) == {Len(FlattenSeq(SubSeq(records, 1, k))) : k \in 0 .. Len(records)}

(* A file of these records; see the properties for the rest.               *)
MCFile(records, ole, strings, written) ==
  [bytes |-> FlattenSeq(records), ole |-> ole, whole |-> TRUE,
   intact |-> Len(strings), strings |-> [n \in DOMAIN strings |-> strings[n].text],
   labels |-> written, starts |-> Ends(records)]

-----------------------------------------------------------------------------
(* BIFF8: globals with a table, a sheet with a label.                      *)
StringSets ==
  { <<Str(<<65, 66>>, 1, 0), Str(<<67>>, 0, 2)>>,
    <<Str(<<>>, 0, 0), Str(<<65, 300>>, 1, 1)>>,
    <<Str(<<65, 66, 67>>, 0, 0)>> }

Ascii == <<<<65>>, <<66>>>>
Sheet8 == <<BofRec(1536, 16), Label8Rec(Ascii), EofRec>>
Book8(table) ==
  <<BofRec(1536, 5), BoundSheetRec>> \o Records(table) \o <<ExtSstRec, EofRec>> \o Sheet8

WholeFiles ==
  UNION {{MCFile(Book8(t), ole, x, <<Ascii>>) : t \in Tables(x), ole \in BOOLEAN} :
           x \in StringSets}

(* The strings all of whose atoms are in the first k records of the table. *)
PartOf(j, cuts) == 1 + Cardinality({c \in cuts : c <= j})
LastAtom(strings, n) == Len(AllAtoms(SubSeq(strings, 1, n)))
Intact(strings, cuts, k) ==
  Cardinality({n \in DOMAIN strings : PartOf(LastAtom(strings, n), cuts) <= k})

(* The same without one of the CONTINUE records, the first or the second:  *)
(* strings and records after it are read as they come.                     *)
TornStrings == <<Str(<<65, 66>>, 1, 0), Str(<<67>>, 0, 2)>>
TornCuts    == {c \in SUBSET {2, 4, 6, 8} : Cardinality(c) = 2}
Widths      == {<<FALSE, FALSE, FALSE>>, <<TRUE, FALSE, TRUE>>}
Without(k, cuts, wide) ==
  [MCFile(RemoveAt(Book8(Table(TornStrings, cuts, wide)), 3 + k), FALSE, TornStrings, <<Ascii>>)
     EXCEPT !.whole = FALSE, !.intact = Intact(TornStrings, cuts, k)]
TornFiles == {Without(k, c, w) : k \in {1, 2}, c \in TornCuts, w \in Widths}

(* The same cut off somewhere behind the counts of the table; the table's  *)
(* records begin with the third of the file.                               *)
CutCuts     == {3, 7}
CutRecords  == Book8(Table(TornStrings, CutCuts, <<FALSE, TRUE, FALSE>>))
End(k)      == Len(FlattenSeq(SubSeq(CutRecords, 1, k)))
FirstString == End(2) + 4 + 8
CutAt(n, f) == [f EXCEPT !.bytes = SubSeq(@, 1, n), !.starts = {p \in @ : p <= n}]
CutFile(n, ole) ==
  CutAt(n, [MCFile(CutRecords, ole, TornStrings, <<Ascii>>) EXCEPT
              !.whole = FALSE,
              !.intact = Intact(TornStrings, CutCuts,
                                Cardinality({k \in 3 .. 5 : End(k) <= n}))])
CutFiles == {CutFile(n, ole) : n \in FirstString .. Len(FlattenSeq(CutRecords)), ole \in BOOLEAN}

(* A string that announces more phonetic data than its reader can count,   *)
(* in a table of its own or behind a string that is whole.                 *)
Endless(size) == W(1) \o <<4>> \o D2(size) \o <<65>>
EndlessFiles ==
  {[MCFile(<<BofRec(1536, 5), Bytes(ID_SST, D(n) \o D(n) \o before \o Endless(size)), EofRec>>,
           ole, <<Str(<<65>>, 0, 0)>>, <<>>) EXCEPT !.whole = FALSE, !.intact = n - 1] :
     <<n, before>> \in {<<1, <<>>>>, <<2, W(1) \o <<0, 65>>>>},
     size \in {<<0, 1>>, <<5, 2>>}, ole \in BOOLEAN}

(* BIFF5: a sheet of its own with labels in a code page.  The texts of     *)
(* double-byte characters outgrow the buffer from the third one on.        *)
Kanji == <<131, 65>>
Texts(cp) ==
  CASE cp = 367  -> {<<>>, Ascii, <<<<65>>, <<200>>>>}
    [] cp = 932  -> {<<Kanji>>, <<<<65>>, Kanji>>, <<Kanji, Kanji, Kanji>>,
                     <<<<65>>, Kanji, Kanji, Kanji>>, <<<<65>>, <<131>>>>}
    [] cp = 1200 -> {Ascii}
    [] OTHER     -> {Ascii}
LabelFiles ==
  UNION {{MCFile(<<BofRec(1280, 16), CodepageRec(cp), Label5Rec(u), Label5Rec(v), EofRec>>,
                 ole, <<>>, <<u, v>>) : u \in Texts(cp), v \in Texts(cp), ole \in BOOLEAN} :
           cp \in {367, 932, 1200, 720}}

(* Substreams in other places than Excel's, and a chart.                   *)
Chart == <<BofRec(1536, 32), Bytes(4100, <<10, 0, 0, 0>>), Bytes(4099, <<1, 2, 3>>), EofRec>>
Globals  == <<BofRec(1536, 5), CodepageRec(1200), EofRec>>
ChartFile(behind, ole) ==
  [MCFile(Globals \o Chart \o behind, ole, <<>>, <<>>) EXCEPT
     !.whole = FALSE]
ChartFiles == {ChartFile(b, ole) : b \in {<<>>, Sheet8}, ole \in BOOLEAN}
CutCharts ==
  {CutAt(Len(FlattenSeq(Globals \o Chart)) - n, ChartFile(<<>>, ole)) :
     n \in 1 .. 16, ole \in BOOLEAN}

Zeros(n) == [k \in 1 .. n |-> 0]
OddFiles ==
  {[MCFile(records, FALSE, <<>>, <<>>) EXCEPT !.whole = FALSE] :
     records \in {<<EofRec>>, Sheet8 \o Sheet8, <<BofRec(1536, 5)>> \o Sheet8,
                  <<BofRec(1536, 5), Label8Rec(Ascii)>>, <<BofRec(1536, 16)>> \o Sheet8,
                  <<BofRec(512, 16)>>, Globals \o Globals,
                  <<BofRec(1536, 16), Bytes(9, <<>>), EofRec>>,
                  Sheet8 \o <<Bytes(9, Zeros(MaxLen + 1))>> \o Sheet8,
                  <<BofRec(1536, 32), Bytes(9, Zeros(MaxSkip + 1)), EofRec>>}}

MCFiles == WholeFiles \cup TornFiles \cup CutFiles \cup EndlessFiles \cup LabelFiles
           \cup ChartFiles \cup CutCharts \cup OddFiles
MCFills == {0, 1}
=============================================================================
