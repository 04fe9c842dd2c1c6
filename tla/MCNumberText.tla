---------------------------- MODULE MCNumberText ----------------------------
(***************************************************************************)
(* Workbooks of all versions: every pair of a way to format a cell and a   *)
(* way to store its number, and a row of 256 columns.  Doubles have ten    *)
(* bits and RK integers seven in the place of 53 and 30, texts three       *)
(* decimals in the place of nine.                                          *)
(***************************************************************************)
EXTENDS NumberText, TLC

FormatRec(i, text)  == [kind |-> "format", index |-> i, text |-> text]
StyleXf(f)          == [kind |-> "xf", style |-> TRUE, own |-> FALSE,
                        parent |-> 4095, flags |-> 5, format |-> f]
CellXf(p, own, f)   == [kind |-> "xf", style |-> FALSE, own |-> own,
                        parent |-> p, flags |-> 1, format |-> f]
Bof == [kind |-> "bof"]

Place(n) == [row |-> n \div 256, col |-> n % 256]
Cell(kind, x, place) == [kind |-> kind, xf |-> x, row |-> place.row, col |-> place.col]

Double(negative, top, bottom) == [negative |-> negative, top |-> Rounded(top), bottom |-> bottom]

(* The double that is nearest to a decimal number of v units.              *)
Typed(v) ==
  LET n    == Abs(v)
      full == Unit * TwoTo[Bits - 1]
      k    == IF n = 0 \/ n >= full THEN 0
              ELSE CHOOSE i \in 1 .. 19 : n * TwoTo[i] >= full /\ n * TwoTo[i - 1] < full
  IN  Double(v < 0, Nearest(n * TwoTo[k], Unit), TwoTo[k])

NumberRec(x, d, place) == Cell("number", x, place) @@ [data |-> d]
FloatRec(x, d, hundredth, place) ==
  Cell("rk", x, place) @@ [integer |-> FALSE, hundredth |-> hundredth, data |-> d]
IntegerRec(x, n, hundredth, place) ==
  Cell("rk", x, place)
    @@ [integer |-> TRUE, hundredth |-> hundredth, bits |-> n % TwoTo[RkBits]]
WordRec(n, place) == Cell("integer", 0, place) @@ [data |-> n]

(* Two styles and four cells' XFs: a built-in format, one of the file, one *)
(* the file puts in the place of a built-in one, and one of the parent.    *)
Xfs == <<StyleXf(0), StyleXf(9), CellXf(0, TRUE, 4), CellXf(0, TRUE, 60),
         CellXf(0, TRUE, 5), CellXf(0, FALSE, 0), CellXf(1, FALSE, 0)>>
Formats == <<FormatRec(5, "mine5"), FormatRec(60, "mine60")>>

(* Decimals that are doubles and that are not, with as many digits as      *)
(* always arrive, one more and many more; and doubles between decimals,    *)
(* below the last one and above the last bit.                              *)
Values == {0, 1, 5, 70, 127, 128, 129, 999, 1000, 1001, 12340, 100000, 123457, -1, -128, -250, -12347}
Doubles ==
  {Typed(v) : v \in Values}
  \cup {Double(n, 0, 1) : n \in BOOLEAN}
  \cup {Double(n, top, 8192) : n \in BOOLEAN, top \in {3, 4, 5, 1023}}
  \cup {Double(FALSE, top, 16) : top \in {1, 3, 1001}}
  \cup {Double(FALSE, top, 1) : top \in {1023, 1024, 1025, 123456}}

CellChoices(place) ==
  {NumberRec(x, Typed(1500), place) : x \in 0 .. 6}
  \cup {IntegerRec(x, 20, FALSE, place) : x \in 0 .. 6}
  \cup {NumberRec(2, d, place) : d \in Doubles}
  \cup {FloatRec(3, d, h, place) : d \in {e \in Doubles : e.bottom <= 8192 /\ e.top < 2048}, h \in BOOLEAN}
  \cup {IntegerRec(4, n, h, place) : n \in (0 .. 63) \cup {-1, -20}, h \in BOOLEAN}

(* BIFF5 and BIFF8: formats and XFs are in the globals.                    *)
NewBooks ==
  {[btype |-> b, records |-> front \o <<Bof, c>>] :
     b \in {5, 8}, front \in {Formats \o Xfs, Xfs \o Formats},
     c \in CellChoices(Place(0))}

(* Before, everything is in the worksheet, and formats are counted.        *)
OldFormats == <<FormatRec(0, "General"), FormatRec(0, "mine1"), FormatRec(0, "mine2")>>
OldXfs == <<StyleXf(0), StyleXf(1), CellXf(0, TRUE, 2), CellXf(0, TRUE, 1)>>
OldChoices(place) ==
  {NumberRec(x, Typed(v), place) : x \in 0 .. 3, v \in {0, 1500}}
  \cup {WordRec(n, place) : n \in {0, 10, 65}}
  \cup {IntegerRec(2, 7, TRUE, place)}
OldBooks ==
  {[btype |-> b, records |-> <<Bof>> \o OldFormats \o OldXfs \o <<c, d>>] :
     b \in 2 .. 4, c \in OldChoices(Place(0)), d \in OldChoices(Place(256))}
  \cup {[btype |-> 2, records |-> <<Bof, StyleXf(0), NumberRec(63, Typed(5), Place(0))>>],
        [btype |-> 3, records |-> <<NumberRec(0, Typed(5), Place(0))>>],
        [btype |-> 4, records |-> <<Bof, Bof>>]}

WideBook ==
  [btype |-> 8, records |-> <<StyleXf(0), Bof>>
     \o [n \in 1 .. 270 |-> NumberRec(0, Typed(1000), Place(n - 1))]]

MCBooks == NewBooks \cup OldBooks \cup {WideBook}
=============================================================================
