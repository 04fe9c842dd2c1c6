----------------------------- MODULE CellProofs -----------------------------
(***************************************************************************)
(* The cells of a workbook and of a row.  For every workbook: two cells    *)
(* never have the same address, and a cell whose format is its own has the *)
(* one the file means.  For every INI file and every row: the columns are  *)
(* those of the file, and the datasets of an accepted row are aligned.     *)
(***************************************************************************)
EXTENDS NumberText, CellTypes, Recursion, FiniteSetTheorems

Letters == 0 .. 25

(* One step of the loop that makes the letters of a column.                *)
IsColumn(f) ==
  f = [n \in Nat |-> IF n <= 26 THEN <<Letter(n)>> ELSE Append(f[n \div 26], Letter(n))]

LEMMA DivisionFacts ==
  ASSUME NEW n \in Nat
  PROVE  /\ n \div 26 \in Nat /\ n = 26 * (n \div 26) + (n % 26) /\ n % 26 \in Letters
         /\ n > 0 => n \div 26 < n
         /\ n > 26 => n \div 26 > 0
BY DEF Letters

LEMMA LetterType ==
  ASSUME NEW n \in Nat
  PROVE  Letter(n) \in Letters
BY DEF Letter, Letters

(* The letters of every column are defined.                                *)
LEMMA ColumnDefined == IsColumn(Column) /\ Column \in [Nat -> Seq(Letters)]
<1> DEFINE base == [n \in Nat |-> <<Letter(n)>>]
           down == [n \in Nat |-> n \div 26]
           step == [p \in Nat \X Seq(Letters) |-> Append(p[2], Letter(p[1]))]
<1>1. base \in [Nat -> Seq(Letters)] /\ down \in [Nat -> Nat]
  BY LetterType, DivisionFacts
<1>2. step \in [Nat \X Seq(Letters) -> Seq(Letters)]
  BY LetterType
<1>3. \A n \in Nat : n > 26 => down[n] < n
  BY DivisionFacts
<1>4. PICK f \in [Nat -> Seq(Letters)] : Descends(f, 26, base, down, step)
  <2> HIDE DEF base, down, step
  <2> QED
    BY <1>1, <1>2, <1>3, DescentExists
<1>5. ASSUME NEW n \in Nat
      PROVE  f[n] = IF n <= 26 THEN <<Letter(n)>> ELSE Append(f[n \div 26], Letter(n))
  <2>1. f[n] = IF n <= 26 THEN base[n] ELSE step[<<n, f[down[n]]>>]
    <3> HIDE DEF base, down, step
    <3> QED
      BY <1>4 DEF Descends
  <2>2. down[n] = n \div 26 /\ n \div 26 \in Nat /\ base[n] = <<Letter(n)>>
    BY DivisionFacts
  <2>3. f[n \div 26] \in Seq(Letters)
    BY <2>2
  <2>4. step[<<n, f[n \div 26]>>] = Append(f[n \div 26], Letter(n))
    BY <2>3
  <2> HIDE DEF base, down, step
  <2> QED
    BY <2>1, <2>2, <2>4
<1>6. IsColumn(f)
  BY <1>5 DEF IsColumn
<1>7. Column = CHOOSE g : IsColumn(g)
  BY DEF Column, IsColumn
<1>8. IsColumn(Column)
  BY <1>6, <1>7
<1>9. ASSUME NEW n \in Nat
      PROVE  /\ n <= 26 => Column[n] = <<Letter(n)>>
             /\ n > 26 => Column[n] = Append(Column[n \div 26], Letter(n))
  <2>1. Column[n] = IF n <= 26 THEN <<Letter(n)>> ELSE Append(Column[n \div 26], Letter(n))
    BY <1>8 DEF IsColumn
  <2>2. n > 26 => ~(n <= 26)
    OBVIOUS
  <2> QED
    BY <2>1, <2>2, Zenon
<1> DEFINE T == {n \in Nat : Column[n] \in Seq(Letters)}
<1>10. T = Nat
  <2>1. ASSUME NEW n \in Nat, \A k \in Nat : k < n => k \in T PROVE n \in T
    <3>1. Letter(n) \in Letters
      BY LetterType
    <3>2. CASE n <= 26
      <4>1. Column[n] = <<Letter(n)>>
        BY <1>9, <3>2
      <4>2. <<Letter(n)>> \in Seq(Letters)
        BY <3>1
      <4> QED
        BY <4>1, <4>2, Zenon
    <3>3. CASE n > 26
      <4>1. n \div 26 \in Nat /\ n \div 26 < n
        BY <3>3, DivisionFacts
      <4>2. Column[n \div 26] \in Seq(Letters)
        BY <2>1, <4>1
      <4>3. Column[n] = Append(Column[n \div 26], Letter(n))
        BY <1>9, <3>3
      <4>4. Append(Column[n \div 26], Letter(n)) \in Seq(Letters)
        BY <3>1, <4>2, AppendProperties
      <4> QED
        BY <4>3, <4>4, Zenon
    <3> QED
      BY <3>2, <3>3
  <2>2. T \in SUBSET Nat
    OBVIOUS
  <2> HIDE DEF T
  <2> QED
    BY <2>1, <2>2, StrongInduction
<1>11. \A n \in Nat : n \in T
  BY <1>10, Zenon
<1>12. \A n \in Nat : Column[n] \in Seq(Letters)
  BY <1>11, Zenon
<1> QED
  BY <1>8, <1>12 DEF IsColumn

LEMMA ColumnSteps ==
  ASSUME NEW n \in Nat
  PROVE  /\ Column[n] \in Seq(Letters)
         /\ n <= 26 => Column[n] = <<Letter(n)>>
         /\ n > 26 => Column[n] = Append(Column[n \div 26], Letter(n))
<1>1. IsColumn(Column) /\ Column \in [Nat -> Seq(Letters)]
  BY ColumnDefined
<1>2. Column[n] = IF n <= 26 THEN <<Letter(n)>> ELSE Append(Column[n \div 26], Letter(n))
  BY <1>1 DEF IsColumn
<1>3. Column[n] \in Seq(Letters)
  BY <1>1
<1>4. n > 26 => ~(n <= 26)
  OBVIOUS
<1> QED
  BY <1>2, <1>3, <1>4, Zenon

(* No column is without letters, those behind Z have at least two.         *)
LEMMA ColumnLength ==
  ASSUME NEW n \in Nat
  PROVE  Len(Column[n]) > 0 /\ (n > 26 => Len(Column[n]) > 1)
<1> DEFINE T == {m \in Nat : Len(Column[m]) > 0}
<1>1. ASSUME NEW m \in Nat, m > 26
      PROVE  /\ m \div 26 \in Nat /\ m \div 26 < m
             /\ Column[m] \in Seq(Letters)
             /\ Len(Column[m]) = Len(Column[m \div 26]) + 1
  <2>1. m \div 26 \in Nat /\ m \div 26 < m /\ Letter(m) \in Letters
    BY <1>1, DivisionFacts, LetterType
  <2>2. Column[m \div 26] \in Seq(Letters) /\ Column[m] = Append(Column[m \div 26], Letter(m))
    BY <1>1, <2>1, ColumnSteps
  <2> QED
    BY <2>1, <2>2
<1>2. ASSUME NEW m \in Nat, m <= 26 PROVE Len(Column[m]) = 1
  <2>1. Column[m] = <<Letter(m)>>
    BY <1>2, ColumnSteps
  <2> QED
    BY <2>1
<1>3. T = Nat
  <2>1. ASSUME NEW m \in Nat, \A k \in Nat : k < m => k \in T PROVE m \in T
    <3>1. CASE m <= 26
      <4>1. Len(Column[m]) = 1
        BY <1>2, <3>1
      <4> QED
        BY <4>1
    <3>2. CASE m > 26
      <4>1. m \div 26 \in Nat /\ m \div 26 < m /\ Len(Column[m]) = Len(Column[m \div 26]) + 1
        BY <1>1, <3>2
      <4>2. Column[m \div 26] \in Seq(Letters) /\ Len(Column[m \div 26]) > 0
        BY <2>1, <4>1, ColumnSteps
      <4>3. Len(Column[m \div 26]) \in Nat
        BY <4>2
      <4>4. Len(Column[m]) > 0
        BY <4>1, <4>2, <4>3
      <4> QED
        BY <4>4
    <3> QED
      BY <3>1, <3>2
  <2>2. T \in SUBSET Nat
    OBVIOUS
  <2> HIDE DEF T
  <2> QED
    BY <2>1, <2>2, StrongInduction
<1>4. ASSUME NEW m \in Nat PROVE Len(Column[m]) > 0
  <2>1. m \in T
    <3> HIDE DEF T
    <3> QED
      BY <1>3
  <2> QED
    BY <2>1
<1>5. ASSUME n > 26 PROVE Len(Column[n]) > 1
  <2>1. n \div 26 \in Nat /\ Len(Column[n]) = Len(Column[n \div 26]) + 1
    BY <1>1, <1>5
  <2>2. Len(Column[n \div 26]) > 0 /\ Column[n \div 26] \in Seq(Letters)
    BY <1>4, <2>1, ColumnSteps
  <2>3. Len(Column[n \div 26]) \in Nat
    BY <2>2
  <2> QED
    BY <2>1, <2>2, <2>3
<1> QED
  BY <1>4, <1>5

LEMMA AppendsApart ==
  ASSUME NEW S, NEW a \in Seq(S), NEW b \in Seq(S), NEW x \in S, NEW y \in S,
         Append(a, x) = Append(b, y)
  PROVE  a = b /\ x = y
<1>1. Len(a) = Len(b)
  OBVIOUS
<1>2. \A k \in 1 .. Len(a) : a[k] = b[k]
  <2> TAKE k \in 1 .. Len(a)
  <2>1. Append(a, x)[k] = a[k] /\ Append(b, y)[k] = b[k]
    BY <1>1
  <2> QED
    BY <2>1
<1>3. a = b
  BY <1>1, <1>2, SeqEqual
<1>4. Append(a, x)[Len(a) + 1] = x /\ Append(b, y)[Len(a) + 1] = y
  BY <1>1
<1> QED
  BY <1>3, <1>4

LEMMA LettersApart ==
  ASSUME NEW i \in Nat, NEW j \in Nat, i > 0, j > 0, Letter(i) = Letter(j)
  PROVE  /\ i <= 26 /\ j <= 26 => i = j
         /\ i \div 26 = j \div 26 => i = j
<1>1. (i - 1) % 26 = (j - 1) % 26
  BY DEF Letter
<1>2. /\ i \div 26 \in Nat /\ i = 26 * (i \div 26) + (i % 26) /\ i % 26 \in 0 .. 25
      /\ j \div 26 \in Nat /\ j = 26 * (j \div 26) + (j % 26) /\ j % 26 \in 0 .. 25
  BY DivisionFacts DEF Letters
<1>3. i <= 26 /\ j <= 26 => i = j
  BY <1>1
<1>4. i \div 26 = j \div 26 => i = j
  BY <1>1, <1>2
<1> QED
  BY <1>3, <1>4

(* Two columns never have the same letters.                                *)
Apart(i) == \A j \in Nat : i > 0 /\ j > 0 /\ Column[i] = Column[j] => i = j

LEMMA ColumnsApart ==
  ASSUME NEW n \in Nat, NEW m \in Nat, n > 0, m > 0, Column[n] = Column[m]
  PROVE  n = m
<1> DEFINE T == {k \in Nat : Apart(k)}
<1>1. ASSUME NEW i \in Nat, \A k \in Nat : k < i => Apart(k) PROVE Apart(i)
  <2> SUFFICES ASSUME NEW j \in Nat, i > 0, j > 0, Column[i] = Column[j] PROVE i = j
    BY DEF Apart
  <2>1. Letter(i) \in Letters /\ Letter(j) \in Letters
    BY LetterType
  <2>2. CASE i <= 26 /\ j <= 26
    <3>1. Column[i] = <<Letter(i)>> /\ Column[j] = <<Letter(j)>>
      BY <2>2, ColumnSteps
    <3>2. <<Letter(i)>> = <<Letter(j)>>
      BY <3>1, Zenon
    <3>3. Letter(i) = Letter(j)
      BY <3>2, Zenon
    <3> QED
      BY <2>2, <3>3, LettersApart
  <2>3. CASE i <= 26 /\ j > 26
    <3>1. Column[i] = <<Letter(i)>> /\ Len(Column[j]) > 1
      BY <2>3, ColumnSteps, ColumnLength
    <3>2. Len(Column[i]) = 1
      BY <3>1
    <3> QED
      BY <3>1, <3>2
  <2>4. CASE i > 26 /\ j <= 26
    <3>1. Column[j] = <<Letter(j)>> /\ Len(Column[i]) > 1
      BY <2>4, ColumnSteps, ColumnLength
    <3>2. Len(Column[j]) = 1
      BY <3>1
    <3> QED
      BY <3>1, <3>2
  <2>5. CASE i > 26 /\ j > 26
    <3>1. i \div 26 \in Nat /\ i \div 26 < i /\ i \div 26 > 0
      BY <2>5, DivisionFacts
    <3>2. j \div 26 \in Nat /\ j \div 26 > 0
      BY <2>5, DivisionFacts
    <3>3. Column[i \div 26] \in Seq(Letters) /\ Column[j \div 26] \in Seq(Letters)
      BY <3>1, <3>2, ColumnSteps
    <3>4. /\ Column[i] = Append(Column[i \div 26], Letter(i))
          /\ Column[j] = Append(Column[j \div 26], Letter(j))
      BY <2>5, ColumnSteps
    <3>5. Append(Column[i \div 26], Letter(i)) = Append(Column[j \div 26], Letter(j))
      BY <3>4
    <3>6. Column[i \div 26] = Column[j \div 26] /\ Letter(i) = Letter(j)
      <4> DEFINE a == Column[i \div 26]
                 b == Column[j \div 26]
      <4>1. a \in Seq(Letters) /\ b \in Seq(Letters) /\ Append(a, Letter(i)) = Append(b, Letter(j))
        BY <3>3, <3>5, Zenon
      <4> HIDE DEF a, b
      <4>2. a = b /\ Letter(i) = Letter(j)
        BY <2>1, <4>1, AppendsApart
      <4> QED
        BY <4>2 DEF a, b
    <3>7. i \div 26 = j \div 26
      BY <1>1, <3>1, <3>2, <3>6 DEF Apart
    <3> QED
      BY <3>6, <3>7, LettersApart
  <2> QED
    BY <2>2, <2>3, <2>4, <2>5
<1>2. T = Nat
  <2>1. T \in SUBSET Nat
    OBVIOUS
  <2>2. ASSUME NEW i \in Nat, \A k \in Nat : k < i => k \in T PROVE i \in T
    BY <1>1, <2>2
  <2> HIDE DEF T
  <2> QED
    BY <2>1, <2>2, StrongInduction
<1>3. n \in T
  <2> HIDE DEF T
  <2> QED
    BY <1>2
<1> QED
  BY <1>3 DEF Apart
-----------------------------------------------------------------------------
(* What the assumption says of the records that are read.                  *)
LEMMA RecordsTyped ==
  ASSUME book \in Books
  PROVE  /\ book.btype \in Nat /\ Len(book.records) \in Nat
         /\ DOMAIN book.records = 1 .. Len(book.records)
         /\ \A p \in 1 .. Len(book.records) :
              LET x == book.records[p] IN
              /\ x.kind \in {"number", "rk", "integer"} => x.row \in Nat /\ x.col \in Nat
              /\ x.kind \in {"number", "rk"} => x.xf \in Nat
              /\ x.kind = "format" => x.index \in Nat
              /\ x.kind = "xf" => x.style \in BOOLEAN /\ x.own \in BOOLEAN /\ x.format \in Nat
<1> DEFINE r == book.records
<1>1. book.btype \in Nat /\ r \in Seq(Range(r))
  BY BooksAssumption
<1>2. Len(r) \in Nat /\ DOMAIN r = 1 .. Len(r)
  <2> HIDE DEF r
  <2> QED
    BY <1>1
<1>3. \A p \in 1 .. Len(r) : r[p] \in Range(r)
  <2> HIDE DEF r
  <2> QED
    BY <1>2 DEF Range
<1>4. \A x \in Range(r) :
        /\ x.kind \in {"number", "rk", "integer"} => x.row \in Nat /\ x.col \in Nat
        /\ x.kind \in {"number", "rk"} => x.xf \in Nat
        /\ x.kind = "format" => x.index \in Nat
        /\ x.kind = "xf" => x.style \in BOOLEAN /\ x.own \in BOOLEAN /\ x.format \in Nat
  BY BooksAssumption
<1> HIDE DEF r
<1>5. ASSUME NEW p \in 1 .. Len(r)
      PROVE  /\ r[p].kind \in {"number", "rk", "integer"} => r[p].row \in Nat /\ r[p].col \in Nat
             /\ r[p].kind \in {"number", "rk"} => r[p].xf \in Nat
             /\ r[p].kind = "format" => r[p].index \in Nat
             /\ r[p].kind = "xf" =>
                  r[p].style \in BOOLEAN /\ r[p].own \in BOOLEAN /\ r[p].format \in Nat
  BY <1>3, <1>4, Zenon
<1> QED
  BY <1>1, <1>2, <1>5, Zenon DEF r

-----------------------------------------------------------------------------
(* Each cell has the address of the record it was made of.                 *)
Placed(c) ==
  /\ c.of \in 1 .. Len(book.records)
  /\ book.records[c.of].kind \in {"number", "rk", "integer"}
  /\ c.address = Address(book.records[c.of].row, book.records[c.of].col)

PlaceInv ==
  /\ book \in Books /\ at \in 1 .. Len(book.records) + 1
  /\ \E S : cells \in Seq(S)
  /\ \A c \in Range(cells) : Placed(c)

LEMMA PlaceInit == Init => PlaceInv
<1> SUFFICES ASSUME Init PROVE PlaceInv
  OBVIOUS
<1>1. Len(book.records) \in Nat
  BY RecordsTyped DEF Init
<1>2. <<>> \in Seq({}) /\ DOMAIN <<>> = {}
  OBVIOUS
<1>3. cells \in Seq({}) /\ Range(cells) = {}
  BY <1>2 DEF Init, Range
<1> QED
  BY <1>1, <1>3 DEF Init, PlaceInv

LEMMA SetCellPlaced ==
  ASSUME PlaceInv, NEW text, NEW fmt, SetCell(text, fmt), at <= Len(book.records),
         Record.kind \in {"number", "rk", "integer"}
  PROVE  PlaceInv'
<1>1. PICK c0 : c0 = [of |-> at, text |-> text, format |-> fmt,
                      address |-> Address(Record.row, Record.col)]
  OBVIOUS
<1>2. /\ book' = book /\ at' = at + 1 /\ at \in 1 .. Len(book.records)
      /\ cells' = Append(cells, c0) /\ Len(book.records) \in Nat
  BY <1>1, RecordsTyped DEF SetCell, PlaceInv
<1>3. c0.of = at /\ c0.address = Address(Record.row, Record.col)
  BY <1>1
<1>4. Placed(c0)'
  BY <1>2, <1>3 DEF Placed, Record
<1>5. Range(cells') = Range(cells) \cup {c0} /\ \E S : cells' \in Seq(S)
  BY <1>2, Lengthened DEF PlaceInv
<1>6. \A c \in Range(cells) : Placed(c)'
  BY <1>2 DEF PlaceInv, Placed
<1>7. \A c \in Range(cells') : Placed(c)'
  BY <1>4, <1>5, <1>6
<1>8. at' \in 1 .. Len(book.records) + 1 /\ book' \in Books
  BY <1>2 DEF PlaceInv
<1> QED
  BY <1>2, <1>5, <1>7, <1>8 DEF PlaceInv

LEMMA PlaceNext == PlaceInv /\ [Next]_vars => PlaceInv'
<1> SUFFICES ASSUME PlaceInv, [Next]_vars PROVE PlaceInv'
  OBVIOUS
<1>1. Len(book.records) \in Nat
  BY RecordsTyped DEF PlaceInv
<1>2. ASSUME book' = book, cells' = cells, at' = at \/ (at' = at + 1 /\ at <= Len(book.records))
      PROVE  PlaceInv'
  BY <1>1, <1>2 DEF PlaceInv, Placed
<1>3. CASE XfRecord
  BY <1>2, <1>3 DEF XfRecord, At
<1>4. CASE FormatRecord
  BY <1>2, <1>4 DEF FormatRecord, At
<1>5. CASE SheetBegins
  BY <1>2, <1>5 DEF SheetBegins, At
<1>6. ASSUME NEW data, FormatDouble(data), at <= Len(book.records), Record.kind \in {"number", "rk"}
      PROVE  PlaceInv'
  <2>1. CASE SetCell(General(data), format[FormatIndex(Record.xf)])
    BY <1>6, <2>1, SetCellPlaced
  <2>2. CASE UNCHANGED <<book, at, sheet, xf, format, cells>>
    BY <1>2, <2>2
  <2> QED
    BY <1>6, <2>1, <2>2 DEF FormatDouble
<1>7. CASE NumberCell
  BY <1>6, <1>7 DEF NumberCell, At
<1>8. CASE RkCell
  BY <1>6, <1>8 DEF RkCell, At
<1>9. CASE IntegerCell
  BY <1>9, SetCellPlaced DEF IntegerCell, At
<1>10. CASE Unusable
  BY <1>2, <1>10 DEF Unusable
<1>11. CASE Finished \/ UNCHANGED vars
  BY <1>2, <1>11 DEF Finished, vars
<1> QED
  BY <1>3, <1>4, <1>5, <1>7, <1>8, <1>9, <1>10, <1>11 DEF Next

LEMMA PlaceAlways == Spec => []PlaceInv
BY PlaceInit, PlaceNext, PTL DEF Spec

(* Addresses are as far apart as the places they are made of.              *)
LEMMA AddressesOnce ==
  ASSUME NEW r \in Nat, NEW c \in Nat, NEW s \in Nat, NEW d \in Nat,
         Address(r, c) = Address(s, d)
  PROVE  r = s /\ c = d
<1>1. Column[c + 1] = Column[d + 1] /\ r + 1 = s + 1
  BY DEF Address
<1>2. c + 1 = d + 1
  BY <1>1, ColumnsApart
<1> QED
  BY <1>1, <1>2

(* The letters of the 256 columns are those of Excel, unless the last of   *)
(* two is a Z.                                                             *)
LEMMA ColumnAsInExcel ==
  ASSUME NEW k \in 0 .. 255, k < 26 \/ k % 26 # 25
  PROVE  Column[k + 1] = ExcelColumn(k)
<1>1. PICK n \in Nat : n = k + 1 /\ n > 0 /\ n - 1 = k
  <2>1. k + 1 \in Nat /\ k + 1 > 0 /\ (k + 1) - 1 = k
    OBVIOUS
  <2> QED
    BY <2>1
<1>2. CASE k < 26
  <2>1. Letter(n) = k
    BY <1>1, <1>2 DEF Letter
  <2>2. n <= 26
    BY <1>1, <1>2
  <2>3. Column[n] = <<Letter(n)>>
    BY <2>2, ColumnSteps
  <2> QED
    BY <1>1, <1>2, <2>1, <2>3 DEF ExcelColumn
<1>3. CASE ~(k < 26)
  <2>1. PICK q \in 1 .. 9 : q = n \div 26 /\ q = k \div 26
    <3>1. n \div 26 \in 1 .. 9 /\ n \div 26 = k \div 26
      BY <1>1, <1>3
    <3> QED
      BY <3>1
  <2>2. n > 26 /\ q \in Nat /\ q <= 26
    BY <1>1, <1>3
  <2>3. Column[n] = Append(Column[q], Letter(n)) /\ Column[q] = <<Letter(q)>>
    BY <2>1, <2>2, ColumnSteps
  <2>4. Letter(q) = q - 1 /\ Letter(n) = k % 26
    BY <1>1, <2>1 DEF Letter
  <2>5. PICK l, m : l = q - 1 /\ m = k % 26
    OBVIOUS
  <2>6. Append(<<l>>, m) = <<l, m>>
    <3>1. l \in Int /\ m \in Int
      BY <2>1, <2>5
    <3>2. /\ Append(<<l>>, m) \in Seq(Int) /\ Len(Append(<<l>>, m)) = 2
          /\ Append(<<l>>, m)[1] = l /\ Append(<<l>>, m)[2] = m
      BY <3>1
    <3>3. <<l, m>> \in Seq(Int) /\ Len(<<l, m>>) = 2 /\ <<l, m>>[1] = l /\ <<l, m>>[2] = m
      BY <3>1
    <3>4. PICK s \in Seq(Int), t \in Seq(Int) : s = Append(<<l>>, m) /\ t = <<l, m>>
      BY <3>2, <3>3
    <3>5. Len(s) = 2 /\ Len(t) = 2 /\ s[1] = t[1] /\ s[2] = t[2]
      BY <3>2, <3>3, <3>4
    <3>6. \A i \in 1 .. Len(s) : s[i] = t[i]
      BY <3>5
    <3> QED
      BY <3>4, <3>5, <3>6, SeqEqual
  <2> QED
    BY <1>1, <1>3, <2>1, <2>3, <2>4, <2>5, <2>6 DEF ExcelColumn
<1> QED
  BY <1>2, <1>3

LEMMA PlacesApart == PlaceInv => AddressesApart
<1> SUFFICES ASSUME PlaceInv PROVE AddressesApart
  OBVIOUS
<1>0. ASSUME NEW c \in Range(cells) PROVE AsInExcel(c)
  <2>1. c.address = Address(book.records[c.of].row, book.records[c.of].col)
    BY DEF PlaceInv, Placed
  <2> QED
    BY <2>1, ColumnAsInExcel DEF AsInExcel, Address
<1> DEFINE row(c) == book.records[c.of].row
           column(c) == book.records[c.of].col
           C == Range(cells)
           A == {c.address : c \in C}
           P == {<<row(c), column(c)>> : c \in C}
           f == [p \in P |-> Address(p[1], p[2])]
           g == [c \in C |-> <<row(c), column(c)>>]
<1>1. \A c \in C : row(c) \in Nat /\ column(c) \in Nat /\ c.address = Address(row(c), column(c))
  BY RecordsTyped DEF PlaceInv, Placed
<1>2. IsFiniteSet(C)
  BY RangeFinite DEF PlaceInv
<1> HIDE DEF row, column, C
<1>3. IsFiniteSet(P)
  <2>1. g \in Surjection(C, P)
    BY DEF Surjection
  <2> HIDE DEF g, P
  <2> QED
    BY <1>2, <2>1, FS_Surjection
<1>4. \A p \in P : p[1] \in Nat /\ p[2] \in Nat /\ p = <<p[1], p[2]>>
  BY <1>1
<1>5. f \in Surjection(P, A)
  <2>1. \A p \in P : f[p] = Address(p[1], p[2]) /\ \E c \in C : p = <<row(c), column(c)>>
    OBVIOUS
  <2>2. \A c \in C : <<row(c), column(c)>> \in P /\ f[<<row(c), column(c)>>] = c.address
    BY <1>1
  <2>3. \A p \in P : f[p] \in A
    <3> HIDE DEF f
    <3> QED
      BY <2>1, <2>2
  <2>4. f = [p \in P |-> f[p]]
    OBVIOUS
  <2>5. \A x \in A : \E c \in C : x = c.address
    OBVIOUS
  <2> HIDE DEF f, P, A
  <2>6. f \in [P -> A]
    BY <2>3, <2>4
  <2>7. \A x \in A : \E p \in P : f[p] = x
    BY <2>2, <2>5
  <2> QED
    BY <2>6, <2>7 DEF Surjection
<1>6. f \in Injection(P, A)
  <2>1. f \in [P -> A]
    BY <1>5 DEF Surjection
  <2>2. ASSUME NEW p \in P, NEW q \in P, f[p] = f[q] PROVE p = q
    <3>1. Address(p[1], p[2]) = Address(q[1], q[2])
      BY <2>2
    <3> HIDE DEF f, P
    <3>2. p[1] = q[1] /\ p[2] = q[2]
      BY <1>4, <3>1, AddressesOnce
    <3> QED
      BY <1>4, <3>2
  <2> HIDE DEF f, P, A
  <2> QED
    BY <2>1, <2>2 DEF Injection, IsInjective
<1> HIDE DEF f, P, A
<1>7. Cardinality(A) = Cardinality(P)
  BY <1>3, <1>5, <1>6, FS_Surjection
<1>8. A = {c.address : c \in Range(cells)} /\ P = Positions
  BY DEF A, P, C, row, column, Positions
<1> QED
  BY <1>0, <1>7, <1>8 DEF AddressesApart

(* However many cells a worksheet has, and in whatever columns: no two of  *)
(* them in different places have the same address (cell.c:87), and but for *)
(* those that end in a second Z the 256 columns have the names of Excel.   *)
THEOREM CellsHaveOwnAddresses == Spec => []AddressesApart
BY PlaceAlways, PlacesApart, PTL
-----------------------------------------------------------------------------
(* The place of a record is found again by its number among those of its   *)
(* kind.                                                                   *)
LEMMA PositionIs ==
  ASSUME book \in Books, NEW p \in 1 .. Len(book.records), NEW kind,
         book.records[p].kind = kind
  PROVE  PositionOf(Preceding(p, kind), kind) = p
<1> DEFINE r == book.records
           n == Preceding(p, kind)
<1>1. DOMAIN r = 1 .. Len(r) /\ Len(r) \in Nat
  BY RecordsTyped
<1>2. \A q : Preceding(q, kind) = Tally(r, q, kind)
  BY DEF Preceding, Tally, OfKind
<1>3. \E q \in DOMAIN r : r[q].kind = kind /\ Preceding(q, kind) = n
  BY <1>1
<1>4. PositionOf(n, kind) = CHOOSE q \in DOMAIN r : r[q].kind = kind /\ Preceding(q, kind) = n
  BY DEF PositionOf
<1> DEFINE q == PositionOf(n, kind)
<1> HIDE DEF r, n
<1>5. q \in DOMAIN r /\ r[q].kind = kind /\ Preceding(q, kind) = n
  BY <1>3, <1>4
<1> HIDE DEF q
<1>6. Tally(r, q, kind) = Tally(r, p, kind)
  BY <1>2, <1>5 DEF n
<1>7. q \in Nat /\ q > 0 /\ p \in Nat /\ p > 0 /\ r[p].kind = kind
  BY <1>1, <1>5 DEF r
<1>8. q = p
  BY <1>5, <1>6, <1>7, CountApart
<1> QED
  BY <1>8 DEF q, n

-----------------------------------------------------------------------------
(* What the file means does not change while it is read.                   *)
LEMMA MeaningKept ==
  ASSUME book' = book
  PROVE  /\ \A i : OwnFormats(i)' = OwnFormats(i) /\ Meant(i)' = Meant(i)
         /\ \A x : /\ XfOf(x)' = XfOf(x) /\ IndexOf(x)' = IndexOf(x)
                  /\ OwnFormat(x)' = OwnFormat(x)
         /\ WellOrdered' = WellOrdered
<1>1. \A i : OwnFormats(i)' = OwnFormats(i)
  BY DEF OwnFormats, Preceding
<1>2. \A i : Meant(i)' = Meant(i)
  BY <1>1 DEF Meant, Builtin
<1>3. \A i, kind : PositionOf(i, kind)' = PositionOf(i, kind)
  BY DEF PositionOf, Preceding
<1>4. \A p, kind : Preceding(p, kind)' = Preceding(p, kind)
  BY DEF Preceding
<1>5. \A x : XfOf(x)' = XfOf(x)
  BY <1>3 DEF XfOf
<1>6. \A x : IndexOf(x)' = IndexOf(x)
  BY <1>5 DEF IndexOf
<1>7. \A x : OwnFormat(x)' = OwnFormat(x)
  BY <1>5 DEF OwnFormat
<1>8. \A i, p : Exists(i, p)' = Exists(i, p)
  BY <1>1, <1>4 DEF Exists
<1>9. \A x : NeedsIxfe(x)' = NeedsIxfe(x)
  BY DEF NeedsIxfe
<1>10. WellOrdered' = WellOrdered
  BY <1>4, <1>6, <1>7, <1>8, <1>9 DEF WellOrdered
<1> QED
  BY <1>1, <1>2, <1>5, <1>6, <1>7, <1>10

(* The table of XFs holds the XF records that were passed, in their order. *)
XfTable ==
  /\ \E S : xf \in Seq(S)
  /\ Len(xf) = Tally(book.records, at, "xf")
  /\ \A p \in 1 .. at - 1 :
       book.records[p].kind = "xf" =>
         xf[Tally(book.records, p, "xf") + 1] = Xf(book.records[p])

(* The table of formats holds those that were passed and, behind the       *)
(* beginning of the worksheet, the built-in ones.                          *)
Passed(i) == {p \in OwnFormats(i) : p < at}
BuiltinHere(i) == sheet /\ book.btype >= 5 /\ i \in BuiltinIndexes
TextOf(i) ==
  IF Passed(i) # {} THEN book.records[Min(OwnFormats(i))].text ELSE Builtin(i)

FormatTable ==
  /\ sheet \in BOOLEAN
  /\ sheet => \E p \in 1 .. at - 1 : book.records[p].kind = "bof"
  /\ book.btype < 5 => DOMAIN format = 0 .. Tally(book.records, at, "format") - 1
  /\ \A i : i \in DOMAIN format <=> (Passed(i) # {} \/ BuiltinHere(i))
  /\ \A i \in DOMAIN format : format[i] = TextOf(i)

Formatted(c) ==
  LET x == book.records[c.of] IN
  HasXf(x) /\ OwnFormat(x) => c.format = Meant(IndexOf(x))
AllFormatted == \A c \in Range(cells) : Formatted(c)
CrashOther   == pc = "crash" => at \in 1 .. Len(book.records) /\ ~OwnFormat(Record)

FormatInv ==
  /\ PlaceInv /\ XfTable
  /\ WellOrdered => FormatTable /\ AllFormatted /\ CrashOther

-----------------------------------------------------------------------------
(* Steps that leave one of the tables alone.                               *)
LEMMA OtherStays ==
  ASSUME FormatInv, book' = book, at' = at \/ (at' = at + 1 /\ at <= Len(book.records))
  PROVE  /\ xf' = xf /\ (at' = at + 1 => Record.kind # "xf") => XfTable'
         /\ /\ FormatTable /\ format' = format /\ sheet' = sheet
            /\ at' = at + 1 => Record.kind # "format"
            => FormatTable'
         /\ AllFormatted /\ cells' = cells => AllFormatted'
<1> DEFINE r == book.records
<1>1. /\ Len(r) \in Nat /\ DOMAIN r = 1 .. Len(r) /\ at \in 1 .. Len(r) + 1 /\ at \in Nat /\ at > 0
      /\ r' = r
  BY RecordsTyped DEF FormatInv, PlaceInv
<1> HIDE DEF r
<1>2. ASSUME NEW kind, at' = at + 1 => r[at].kind # kind
      PROVE  Tally(r, at', kind) = Tally(r, at, kind)
  BY <1>1, <1>2, CountStep
<1>3. ASSUME xf' = xf, at' = at + 1 => Record.kind # "xf" PROVE XfTable'
  <2>1. at' = at + 1 => r[at].kind # "xf"
    BY <1>3 DEF Record, r
  <2>2. Len(xf') = Tally(r', at', "xf")
    BY <1>1, <1>2, <1>3, <2>1 DEF XfTable, FormatInv, r
  <2>3. ASSUME NEW p \in 1 .. at' - 1, r[p].kind = "xf"
        PROVE  xf[Tally(r, p, "xf") + 1] = Xf(r[p])
    <3>1. p \in 1 .. at - 1
      BY <1>1, <2>1, <2>3
    <3> QED
      BY <2>3, <3>1 DEF XfTable, FormatInv, r
  <2>4. \A x : Xf(x)' = Xf(x)
    BY DEF Xf, ParentOf, ParentWord
  <2> QED
    BY <1>1, <1>3, <2>2, <2>3, <2>4 DEF XfTable, FormatInv, r
<1>4. ASSUME FormatTable, format' = format, sheet' = sheet, at' = at + 1 => Record.kind # "format"
      PROVE  FormatTable'
  <2>1. at' = at + 1 => r[at].kind # "format"
    BY <1>4 DEF Record, r
  <2>2. Tally(r, at', "format") = Tally(r, at, "format")
    BY <1>2, <2>1
  <2>3. \A i : OwnFormats(i)' = OwnFormats(i) /\ OwnFormats(i) \subseteq Nat
    <3>1. \A i : OwnFormats(i)' = OwnFormats(i)
      BY MeaningKept
    <3>2. \A i : OwnFormats(i) \subseteq 1 .. Len(r)
      BY <1>1 DEF OwnFormats, r
    <3> QED
      BY <1>1, <3>1, <3>2
  <2>4. ASSUME NEW i PROVE Passed(i)' = Passed(i)
    <3>1. \A p \in OwnFormats(i) : r[p].kind = "format"
      BY DEF OwnFormats, r
    <3>2. \A p \in OwnFormats(i) : p < at' <=> p < at
      BY <1>1, <2>1, <2>3, <3>1
    <3> QED
      BY <2>3, <3>2 DEF Passed
  <2>5. \A i : TextOf(i)' = TextOf(i) /\ BuiltinHere(i)' = BuiltinHere(i)
    BY <1>4, <2>3, <2>4 DEF TextOf, BuiltinHere, Builtin
  <2>6. sheet => \E p \in 1 .. at' - 1 : r[p].kind = "bof"
    BY <1>1, <1>4 DEF FormatTable, r
  <2> QED
    BY <1>1, <1>4, <2>2, <2>4, <2>5, <2>6 DEF FormatTable, r
<1>5. ASSUME AllFormatted, cells' = cells PROVE AllFormatted'
  <2>1. \A c : Formatted(c)' = Formatted(c)
    BY MeaningKept DEF Formatted, HasXf
  <2> QED
    BY <1>5, <2>1 DEF AllFormatted
<1> QED
  BY <1>3, <1>4, <1>5

LEMMA FormatInit == Init => FormatInv
<1> SUFFICES ASSUME Init PROVE FormatInv
  OBVIOUS
<1>1. PlaceInv
  BY PlaceInit
<1>2. Len(book.records) \in Nat /\ DOMAIN book.records = 1 .. Len(book.records)
  BY RecordsTyped DEF Init
<1>3. \A kind : Tally(book.records, 1, kind) = 0
  <2>1. \A kind : OfKind(book.records, 1, kind) = {}
    BY DEF OfKind
  <2> QED
    BY <2>1, FS_EmptySet DEF Tally
<1>4. XfTable
  <2>1. xf \in Seq({}) /\ Len(xf) = 0 /\ at = 1
    BY DEF Init
  <2> QED
    BY <1>3, <2>1 DEF XfTable
<1>5. FormatTable
  <2>1. DOMAIN format = {} /\ at = 1 /\ sheet = FALSE
    BY DEF Init
  <2>2. \A i : Passed(i) = {}
    BY <1>2, <2>1 DEF Passed, OwnFormats
  <2>3. 0 .. Tally(book.records, at, "format") - 1 = {}
    BY <1>3, <2>1
  <2>4. \A i : ~BuiltinHere(i)
    BY <2>1 DEF BuiltinHere
  <2> QED
    BY <2>1, <2>2, <2>3, <2>4 DEF FormatTable
<1>6. AllFormatted /\ CrashOther
  <2>1. cells = <<>> /\ DOMAIN <<>> = {} /\ pc = "read"
    BY DEF Init
  <2>2. Range(cells) = {}
    BY <2>1 DEF Range
  <2> QED
    BY <2>1, <2>2 DEF AllFormatted, CrashOther
<1> QED
  BY <1>1, <1>4, <1>5, <1>6 DEF FormatInv

LEMMA XfStep ==
  ASSUME FormatInv, XfRecord
  PROVE  XfTable'
<1> DEFINE r == book.records
<1>0. PICK x : x = Xf(Record)
  OBVIOUS
<1>1. /\ Len(r) \in Nat /\ at \in 1 .. Len(r) /\ at \in Nat /\ at > 0 /\ r[at].kind = "xf"
      /\ book' = book /\ r' = r /\ at' = at + 1 /\ xf' = Append(xf, x) /\ x = Xf(r[at])
  BY <1>0, RecordsTyped DEF FormatInv, PlaceInv, XfRecord, At, Record
<1>2. \A y : Xf(y)' = Xf(y)
  BY <1>1 DEF Xf, ParentOf, ParentWord
<1>3. /\ \E S : xf \in Seq(S) 
      /\ Len(xf) = Tally(r, at, "xf")
      /\ \A p \in 1 .. at - 1 : r[p].kind = "xf" => xf[Tally(r, p, "xf") + 1] = Xf(r[p])
  BY DEF FormatInv, XfTable
<1> HIDE DEF r
<1>4. /\ \E S : xf' \in Seq(S)
      /\ Len(xf) \in Nat /\ Len(xf') = Len(xf) + 1
      /\ \A k \in 1 .. Len(xf) : xf'[k] = xf[k]
      /\ xf'[Len(xf) + 1] = x
  <2>1. \E S : xf \in Seq(S)
    BY <1>3
  <2>2. PICK q : q = xf
    OBVIOUS
  <2>3. /\ \E S : Append(q, x) \in Seq(S)
        /\ Len(q) \in Nat /\ Len(Append(q, x)) = Len(q) + 1
        /\ \A k \in 1 .. Len(q) : Append(q, x)[k] = q[k]
        /\ Append(q, x)[Len(q) + 1] = x
    <3>1. \E S : q \in Seq(S)
      BY <2>1, <2>2
    <3>2. PICK S : q \in Seq(S)
      BY <3>1
    <3>3. q \in Seq(S \cup {x}) /\ x \in S \cup {x}
      BY <3>2
    <3>4. \E T : Append(q, x) \in Seq(T)
      BY <3>3
    <3>5. /\ Len(q) \in Nat /\ Len(Append(q, x)) = Len(q) + 1
          /\ \A k \in 1 .. Len(q) : Append(q, x)[k] = q[k]
          /\ Append(q, x)[Len(q) + 1] = x
      BY <3>3
    <3> QED
      BY <3>4, <3>5
  <2>4. xf' = Append(q, x)
    BY <1>1, <2>2
  <2> QED
    BY <2>2, <2>3, <2>4, Zenon
<1>5. Len(xf') = Tally(r, at + 1, "xf")
  BY <1>1, <1>3, <1>4, CountStep
<1>6. ASSUME NEW p \in 1 .. at, r[p].kind = "xf"
      PROVE  xf'[Tally(r, p, "xf") + 1] = Xf(r[p])
  <2>1. CASE p = at
    BY <1>1, <1>3, <1>4, <2>1
  <2>2. CASE p < at
    <3>1. p \in 1 .. at - 1 /\ p \in Nat /\ p > 0
      BY <1>1, <2>2
    <3>2. Tally(r, p, "xf") \in Nat
      BY <3>1, CountStep
    <3>3. Tally(r, p, "xf") < Tally(r, at, "xf")
      BY <1>1, <1>6, <2>2, <3>1, CountGrows
    <3>4. Tally(r, p, "xf") + 1 \in 1 .. Len(xf)
      BY <1>3, <1>4, <3>2, <3>3
    <3> QED
      BY <1>3, <1>4, <1>6, <3>1, <3>4
  <2>3. p = at \/ p < at
    BY <1>1
  <2> QED
    BY <2>1, <2>2, <2>3
<1>7. at' - 1 = at
  BY <1>1
<1> QED
  BY <1>1, <1>2, <1>4, <1>5, <1>6, <1>7 DEF XfTable, r

LEMMA FormatStep ==
  ASSUME FormatInv, WellOrdered, FormatRecord
  PROVE  FormatTable'
<1> DEFINE r == book.records
           i0 == IF book.btype < 5 THEN Cardinality(DOMAIN format) ELSE r[at].index
           text == r[at].text
<1>1. /\ Len(r) \in Nat /\ DOMAIN r = 1 .. Len(r) /\ book.btype \in Nat
      /\ at \in 1 .. Len(r) /\ at \in Nat /\ at > 0 /\ r[at].kind = "format"
      /\ book' = book /\ at' = at + 1 /\ sheet' = sheet /\ format' = Added(format, i0, text)
  BY RecordsTyped DEF FormatInv, PlaceInv, FormatRecord, At, Record
<1>2. FormatTable
  BY DEF FormatInv
<1>3. \A p, kind : Preceding(p, kind) = Tally(r, p, kind)
  BY DEF Preceding, Tally, OfKind
<1>4. Tally(r, at, "format") \in Nat /\ Tally(r, at + 1, "format") = Tally(r, at, "format") + 1
  BY <1>1, CountStep
<1>5. book.btype < 5 => i0 = Tally(r, at, "format")
  BY <1>2, <1>4, FS_Interval DEF FormatTable
<1>6. \A i : at \in OwnFormats(i) <=> i = i0
  BY <1>1, <1>3, <1>5 DEF OwnFormats
<1>7. \A i : OwnFormats(i)' = OwnFormats(i) /\ OwnFormats(i) \subseteq 1 .. Len(r)
  <2>1. \A i : OwnFormats(i)' = OwnFormats(i)
    BY <1>1, MeaningKept
  <2>2. \A i : OwnFormats(i) \subseteq 1 .. Len(r)
    BY <1>1 DEF OwnFormats
  <2> QED
    BY <2>1, <2>2
<1> DEFINE Here(i) == IF i = i0 THEN {at} ELSE {}
<1>8. \A i : Passed(i)' = Passed(i) \cup Here(i)
  <2> TAKE i
  <2>1. Passed(i)' = {p \in OwnFormats(i) : p < at + 1}
    BY <1>1, <1>7 DEF Passed
  <2>2. \A p \in OwnFormats(i) : p < at + 1 <=> p < at \/ p = at
    BY <1>1, <1>7
  <2> HIDE DEF i0, r
  <2> QED
    BY <1>6, <2>1, <2>2 DEF Passed
<1>9. \A i : BuiltinHere(i)' = BuiltinHere(i) /\ Builtin(i)' = Builtin(i)
  BY <1>1 DEF BuiltinHere, Builtin
<1>10. DOMAIN format' = DOMAIN format \cup {i0}
  BY <1>1 DEF Added
<1> HIDE DEF i0, r, text
<1>11. \A i : i \in DOMAIN format' <=> (Passed(i)' # {} \/ BuiltinHere(i)')
  BY <1>2, <1>8, <1>9, <1>10 DEF FormatTable
<1>12. ~BuiltinHere(i0)
  <2> SUFFICES ASSUME BuiltinHere(i0) PROVE FALSE
    OBVIOUS
  <2>1. sheet /\ book.btype >= 5
    BY DEF BuiltinHere
  <2>2. PICK p \in 1 .. at - 1 : r[p].kind = "bof"
    BY <1>2, <2>1 DEF FormatTable, r
  <2>3. p \in DOMAIN r /\ at \in p .. Len(r)
    BY <1>1
  <2>4. r[at].kind # "format"
    BY <2>1, <2>2, <2>3 DEF WellOrdered, r
  <2> QED
    BY <1>1, <2>4
<1>13. \A i \in DOMAIN format' : format'[i] = IF i \in DOMAIN format THEN format[i] ELSE text
  BY <1>1, <1>10 DEF Added
<1>14. ASSUME NEW i \in DOMAIN format' PROVE format'[i] = TextOf(i)'
  <2>1. TextOf(i)' = IF Passed(i) \cup Here(i) # {} THEN r[Min(OwnFormats(i))].text ELSE Builtin(i)
    BY <1>1, <1>7, <1>8, <1>9 DEF TextOf, r
  <2>2. CASE i \in DOMAIN format
    <3>1. format'[i] = TextOf(i)
      BY <1>2, <1>13, <2>2 DEF FormatTable
    <3>2. i = i0 => Passed(i) # {}
      BY <1>2, <1>12, <2>2 DEF FormatTable
    <3> QED
      BY <2>1, <3>1, <3>2 DEF TextOf, r
  <2>3. CASE i \notin DOMAIN format
    <3>1. i = i0 /\ Passed(i) = {}
      BY <1>2, <1>10, <2>3 DEF FormatTable
    <3>2. at \in OwnFormats(i)
      BY <1>6, <3>1
    <3>3. \A p \in OwnFormats(i) : at <= p
      BY <1>1, <1>7, <3>1 DEF Passed
    <3>4. OwnFormats(i) \subseteq Nat
      BY <1>7
    <3>5. Min(OwnFormats(i)) = at
      BY <3>2, <3>3, <3>4, SmallestIsMin
    <3> QED
      BY <1>13, <2>1, <2>3, <3>1, <3>5 DEF text
  <2> QED
    BY <2>2, <2>3
<1>15. book.btype < 5 => DOMAIN format' = 0 .. Tally(r, at + 1, "format") - 1
  <2> SUFFICES ASSUME book.btype < 5 PROVE DOMAIN format' = 0 .. Tally(r, at + 1, "format") - 1
    OBVIOUS
  <2>1. DOMAIN format = 0 .. Tally(r, at, "format") - 1
    BY <1>2 DEF FormatTable, r
  <2> QED
    BY <1>4, <1>5, <1>10, <2>1
<1>16. sheet => \E p \in 1 .. (at + 1) - 1 : r[p].kind = "bof"
  BY <1>1, <1>2 DEF FormatTable, r
<1> QED
  BY <1>1, <1>2, <1>11, <1>14, <1>15, <1>16 DEF FormatTable, r

(* Behind the beginning of a worksheet the built-in formats are there.     *)
LEMMA BeginStep ==
  ASSUME FormatInv, WellOrdered, SheetBegins
  PROVE  FormatTable'
<1> DEFINE r == book.records
<1>1. /\ Len(r) \in Nat /\ DOMAIN r = 1 .. Len(r) /\ book.btype \in Nat
      /\ at \in 1 .. Len(r) /\ at \in Nat /\ at > 0 /\ r[at].kind = "bof"
      /\ book' = book /\ at' = at + 1 /\ ~sheet /\ sheet' = TRUE
      /\ format' = IF book.btype >= 5 THEN WithBuiltins ELSE format
  BY RecordsTyped DEF FormatInv, PlaceInv, SheetBegins, At, Record
<1>2. FormatTable
  BY DEF FormatInv
<1>3. \A i : OwnFormats(i)' = OwnFormats(i)
  BY <1>1, MeaningKept
<1>4. \A i : OwnFormats(i) \subseteq 1 .. Len(r) /\ at \notin OwnFormats(i)
  BY <1>1 DEF OwnFormats
<1>5. \A i : Passed(i)' = Passed(i)
  <2> TAKE i
  <2>1. Passed(i)' = {p \in OwnFormats(i) : p < at + 1}
    BY <1>1, <1>3 DEF Passed
  <2>2. \A p \in OwnFormats(i) : p < at + 1 <=> p < at
    BY <1>1, <1>4
  <2> QED
    BY <2>1, <2>2 DEF Passed
<1>6. \A i : ~BuiltinHere(i) /\ (BuiltinHere(i)' <=> (book.btype >= 5 /\ i \in BuiltinIndexes))
  BY <1>1 DEF BuiltinHere
<1>7. \A i : TextOf(i)' = TextOf(i)
  BY <1>1, <1>3, <1>5 DEF TextOf, Builtin
<1>8. Tally(r, at + 1, "format") = Tally(r, at, "format")
  BY <1>1, CountStep
<1> HIDE DEF r
<1>9. \A i : i \in DOMAIN format <=> Passed(i) # {}
  BY <1>2, <1>6 DEF FormatTable
<1>10. \A i : i \in DOMAIN format' <=> (Passed(i)' # {} \/ BuiltinHere(i)')
  BY <1>1, <1>5, <1>6, <1>9 DEF WithBuiltins
<1>11. ASSUME NEW i \in DOMAIN format' PROVE format'[i] = TextOf(i)'
  <2>1. format'[i] = IF i \in DOMAIN format THEN format[i] ELSE Builtin(i)
    BY <1>1 DEF WithBuiltins
  <2> QED
    BY <1>2, <1>7, <1>9, <2>1 DEF FormatTable, TextOf
<1>12. book.btype < 5 => DOMAIN format' = 0 .. Tally(r, at + 1, "format") - 1
  <2> SUFFICES ASSUME book.btype < 5 PROVE DOMAIN format' = 0 .. Tally(r, at + 1, "format") - 1
    OBVIOUS
  <2>1. format' = format
    BY <1>1
  <2> QED
    BY <1>2, <1>8, <2>1 DEF FormatTable, r
<1>13. \E p \in 1 .. (at + 1) - 1 : r[p].kind = "bof"
  BY <1>1
<1> QED
  BY <1>1, <1>10, <1>11, <1>12, <1>13 DEF FormatTable, r

(* A cell whose format is its own finds it in the tables.                  *)
LEMMA FormatFound ==
  ASSUME FormatInv, WellOrdered, sheet, at <= Len(book.records),
         HasXf(Record), ~NeedsIxfe(Record), OwnFormat(Record)
  PROVE  /\ FormatIndex(Record.xf) \in DOMAIN format
         /\ format[FormatIndex(Record.xf)] = Meant(IndexOf(Record))
<1> DEFINE r == book.records
           n == Record.xf
           i == IndexOf(Record)
<1>1. /\ Len(r) \in Nat /\ DOMAIN r = 1 .. Len(r) /\ book.btype \in Nat
      /\ at \in 1 .. Len(r) /\ at \in Nat /\ at > 0 /\ n \in Nat /\ Record = r[at]
  BY RecordsTyped DEF FormatInv, PlaceInv, HasXf, Record
<1>2. \A p, kind : Preceding(p, kind) = Tally(r, p, kind)
  BY DEF Preceding, Tally, OfKind
<1>3. n < Tally(r, at, "xf") /\ Exists(i, at)
  BY <1>1, <1>2 DEF WellOrdered
<1>4. PICK p \in 1 .. at - 1 : r[p].kind = "xf" /\ Tally(r, p, "xf") = n
  <2> HIDE DEF r, n
  <2> QED
    BY <1>1, <1>3, CountReached
<1>5. p \in 1 .. Len(r) /\ p \in DOMAIN r
  BY <1>1, <1>4
<1>6. XfOf(Record) = r[p]
  <2>1. PositionOf(Preceding(p, "xf"), "xf") = p
    BY <1>4, <1>5, PositionIs DEF FormatInv, PlaceInv
  <2>2. PositionOf(n, "xf") = p
    BY <1>2, <1>4, <2>1
  <2> QED
    BY <2>2 DEF XfOf
<1>7. /\ n \in 0 .. Len(xf) - 1
      /\ xf[n + 1] = Xf(r[p])
  <2>1. Len(xf) = Tally(r, at, "xf") /\ Tally(r, at, "xf") \in Nat
    BY <1>1, CountStep DEF FormatInv, XfTable
  <2>2. xf[Tally(r, p, "xf") + 1] = Xf(r[p])
    BY <1>4 DEF FormatInv, XfTable
  <2>3. n \in 0 .. Len(xf) - 1
    BY <1>1, <1>3, <2>1
  <2> QED
    BY <1>4, <2>2, <2>3
<1>8. FormatIndex(n) = i
  <2>1. OwnFormat(Record) <=> book.btype = 2 \/ r[p].style \/ r[p].own
    BY <1>6 DEF OwnFormat
  <2>2. i = IF book.btype = 2 THEN r[p].format % 64 ELSE r[p].format
    BY <1>6 DEF IndexOf
  <2>3. Xf(r[p]).format = i
    BY <2>2 DEF Xf
  <2>4. Xf(r[p]).style \/ Xf(r[p]).own
    BY <2>1 DEF Xf
  <2> HIDE DEF n, i
  <2> QED
    BY <1>7, <2>3, <2>4 DEF FormatIndex
<1>9. i \in Nat
  <2>1. r[p].format \in Nat
    BY <1>4, <1>5, RecordsTyped DEF FormatInv, PlaceInv
  <2> QED
    BY <1>6, <2>1 DEF IndexOf
<1>10. FormatTable
  BY DEF FormatInv
<1> HIDE DEF r, n, i
<1>11. i \in DOMAIN format
  <2>1. CASE book.btype < 5
    <3>1. i < Tally(r, at, "format")
      BY <1>2, <1>3, <2>1 DEF Exists
    <3>2. Tally(r, at, "format") \in Nat
      BY <1>1, CountStep
    <3> QED
      BY <1>9, <1>10, <2>1, <3>1, <3>2 DEF FormatTable, r
  <2>2. CASE book.btype >= 5
    <3>1. i \in BuiltinIndexes \/ \E k \in OwnFormats(i) : k < at
      BY <1>1, <1>3, <2>2 DEF Exists
    <3>2. BuiltinHere(i) \/ Passed(i) # {}
      BY <2>2, <3>1 DEF BuiltinHere, Passed
    <3> QED
      BY <1>10, <3>2 DEF FormatTable
  <2> QED
    BY <1>1, <2>1, <2>2
<1>12. OwnFormats(i) # {} => Passed(i) # {}
  <2> SUFFICES ASSUME NEW k \in OwnFormats(i) PROVE Passed(i) # {}
    OBVIOUS
  <2>1. CASE book.btype < 5
    <3>1. ~BuiltinHere(i)
      BY <1>1, <2>1 DEF BuiltinHere
    <3> QED
      BY <1>10, <1>11, <3>1 DEF FormatTable
  <2>2. CASE book.btype >= 5
    <3>1. PICK b \in 1 .. at - 1 : r[b].kind = "bof"
      BY <1>10 DEF FormatTable, r
    <3>2. k \in 1 .. Len(r) /\ r[k].kind = "format" /\ b \in DOMAIN r /\ b \in Nat
      BY <1>1, <3>1 DEF OwnFormats, r
    <3>3. k \notin b .. Len(r)
      BY <2>2, <3>1, <3>2 DEF WellOrdered, r
    <3>4. k < at
      BY <1>1, <3>1, <3>2, <3>3
    <3> QED
      BY <3>4 DEF Passed
  <2> QED
    BY <1>1, <2>1, <2>2
<1>13. OwnFormats(i) = {} => Passed(i) = {}
  BY DEF Passed
<1>14. format[i] = Meant(i)
  BY <1>10, <1>11, <1>12, <1>13 DEF FormatTable, TextOf, Meant
<1> QED
  BY <1>8, <1>11, <1>14 DEF n, i

LEMMA CellStep ==
  ASSUME FormatInv, WellOrdered, sheet, at <= Len(book.records), pc = "read",
         HasXf(Record), ~NeedsIxfe(Record), NEW data, FormatDouble(data)
  PROVE  AllFormatted' /\ CrashOther'
<1>1. OwnFormat(Record) =>
        /\ FormatIndex(Record.xf) \in DOMAIN format
        /\ format[FormatIndex(Record.xf)] = Meant(IndexOf(Record))
  BY FormatFound
<1>2. at \in 1 .. Len(book.records) /\ AllFormatted
  BY RecordsTyped DEF FormatInv, PlaceInv
<1>3. ASSUME book' = book PROVE \A c : Formatted(c)' = Formatted(c)
  BY <1>3, MeaningKept DEF Formatted, HasXf
<1>4. CASE /\ FormatIndex(Record.xf) \in DOMAIN format
           /\ SetCell(General(data), format[FormatIndex(Record.xf)])
  <2>1. PICK c0 : c0 = [of |-> at, text |-> General(data),
                        format |-> format[FormatIndex(Record.xf)],
                        address |-> Address(Record.row, Record.col)]
    OBVIOUS
  <2>2. book' = book /\ pc' = pc /\ cells' = Append(cells, c0)
    BY <1>4, <2>1 DEF SetCell
  <2>3. c0.of = at /\ c0.format = format[FormatIndex(Record.xf)]
    BY <2>1
  <2>4. Formatted(c0)
    BY <1>1, <2>3 DEF Formatted, Record
  <2>5. Range(cells') = Range(cells) \cup {c0}
    BY <2>2, Lengthened DEF FormatInv, PlaceInv
  <2>6. AllFormatted'
    BY <1>2, <1>3, <2>2, <2>4, <2>5 DEF AllFormatted
  <2> QED
    BY <2>2, <2>6 DEF CrashOther
<1>5. CASE /\ FormatIndex(Record.xf) \notin DOMAIN format
           /\ UNCHANGED <<book, at, sheet, xf, format, cells>>
  <2>1. ~OwnFormat(Record)
    BY <1>1, <1>5
  <2>2. book' = book /\ at' = at /\ cells' = cells
    BY <1>5
  <2>3. Record' = Record /\ OwnFormat(Record)' = OwnFormat(Record)
    BY <2>2, MeaningKept DEF Record
  <2>4. AllFormatted'
    BY <1>2, <1>3, <2>2 DEF AllFormatted
  <2> QED
    BY <1>2, <2>1, <2>2, <2>3, <2>4 DEF CrashOther
<1> QED
  BY <1>4, <1>5 DEF FormatDouble

LEMMA FormatNext == FormatInv /\ [Next]_vars => FormatInv'
<1> SUFFICES ASSUME FormatInv, [Next]_vars PROVE FormatInv'
  OBVIOUS
<1>0. at # at + 1
  BY DEF FormatInv, PlaceInv
<1>1. PlaceInv /\ PlaceInv' /\ XfTable
  BY PlaceNext DEF FormatInv
<1>2. book' = book
  BY DEF Next, XfRecord, FormatRecord, SheetBegins, NumberCell, RkCell, IntegerCell, Unusable,
         Finished, FormatDouble, SetCell, vars
<1>3. WellOrdered' = WellOrdered
  BY <1>2, MeaningKept
<1>4. WellOrdered => FormatTable /\ AllFormatted /\ CrashOther
  BY DEF FormatInv
<1>5. ASSUME at' = at, pc' = pc \/ pc' # "crash" PROVE CrashOther => CrashOther'
  BY <1>2, <1>5, MeaningKept DEF CrashOther, Record
<1>6. ASSUME at' = at + 1, pc' = "read" PROVE CrashOther'
  BY <1>6 DEF CrashOther
<1>7. CASE XfRecord
  <2>1. XfTable'
    BY <1>7, XfStep
  <2>2. /\ at' = at + 1 /\ at <= Len(book.records) /\ pc' = "read" /\ Record.kind # "format"
        /\ format' = format /\ sheet' = sheet /\ cells' = cells
    BY <1>7 DEF XfRecord, At
  <2> QED
    BY <1>1, <1>2, <1>3, <1>4, <1>6, <2>1, <2>2, OtherStays DEF FormatInv
<1>8. CASE FormatRecord
  <2>1. /\ at' = at + 1 /\ at <= Len(book.records) /\ pc' = "read" /\ Record.kind # "xf"
        /\ xf' = xf /\ sheet' = sheet /\ cells' = cells
    BY <1>8 DEF FormatRecord, At
  <2>2. WellOrdered => FormatTable'
    BY <1>8, FormatStep
  <2> QED
    BY <1>1, <1>2, <1>3, <1>4, <1>6, <2>1, <2>2, OtherStays DEF FormatInv
<1>9. CASE SheetBegins
  <2>1. /\ at' = at + 1 /\ at <= Len(book.records) /\ pc' = "read" /\ Record.kind # "xf"
        /\ xf' = xf /\ cells' = cells
    BY <1>9 DEF SheetBegins, At
  <2>2. WellOrdered => FormatTable'
    BY <1>9, BeginStep
  <2> QED
    BY <1>1, <1>2, <1>3, <1>4, <1>6, <2>1, <2>2, OtherStays DEF FormatInv
<1>10. ASSUME NEW data, FormatDouble(data), sheet, at <= Len(book.records), pc = "read",
              HasXf(Record), ~NeedsIxfe(Record)
       PROVE  FormatInv'
  <2>1. /\ at' = at \/ at' = at + 1
        /\ xf' = xf /\ format' = format /\ sheet' = sheet
        /\ Record.kind # "xf" /\ Record.kind # "format"
    BY <1>10 DEF FormatDouble, SetCell, HasXf
  <2>2. WellOrdered => AllFormatted' /\ CrashOther'
    BY <1>10, CellStep
  <2> QED
    BY <1>1, <1>2, <1>3, <1>4, <1>10, <2>1, <2>2, OtherStays DEF FormatInv
<1>11. CASE NumberCell
  <2>1. /\ sheet /\ at <= Len(book.records) /\ pc = "read" /\ FormatDouble(Record.data)
        /\ HasXf(Record) /\ ~NeedsIxfe(Record)
    BY <1>11 DEF NumberCell, At, HasXf, IxfeWanted
  <2> QED
    BY <1>10, <2>1
<1>12. CASE RkCell
  <2>1. /\ sheet /\ at <= Len(book.records) /\ pc = "read" /\ FormatDouble(RkData(Record))
        /\ HasXf(Record) /\ ~NeedsIxfe(Record)
    BY <1>12 DEF RkCell, At, HasXf, NeedsIxfe
  <2> QED
    BY <1>10, <2>1
<1>13. CASE IntegerCell
  <2>1. /\ at' = at + 1 /\ at <= Len(book.records) /\ pc' = "read" /\ Record.kind = "integer"
        /\ xf' = xf /\ format' = format /\ sheet' = sheet /\ SetCell(Digits[Record.data], "none")
    BY <1>13 DEF IntegerCell, At, SetCell
  <2>2. PICK c0 : c0 = [of |-> at, text |-> Digits[Record.data], format |-> "none",
                        address |-> Address(Record.row, Record.col)]
    OBVIOUS
  <2>3. c0.of = at /\ cells' = Append(cells, c0)
    BY <2>1, <2>2 DEF SetCell
  <2>4. Formatted(c0)
    BY <2>1, <2>3 DEF Formatted, Record, HasXf
  <2>5. Range(cells') = Range(cells) \cup {c0}
    BY <1>1, <2>3, Lengthened DEF PlaceInv
  <2>6. \A c : Formatted(c)' = Formatted(c)
    BY <1>2, MeaningKept DEF Formatted, HasXf
  <2>7. AllFormatted => AllFormatted'
    BY <2>4, <2>5, <2>6 DEF AllFormatted
  <2> QED
    BY <1>1, <1>2, <1>3, <1>4, <1>6, <2>1, <2>7, OtherStays DEF FormatInv
<1>14. CASE Unusable
  <2>1. /\ at' = at /\ pc' = "end" /\ xf' = xf /\ format' = format /\ sheet' = sheet
        /\ cells' = cells
    BY <1>14 DEF Unusable
  <2>2. XfTable' /\ (WellOrdered => FormatTable' /\ AllFormatted')
    BY <1>0, <1>2, <1>4, <2>1, OtherStays
  <2>3. CrashOther => CrashOther'
    BY <1>5, <2>1
  <2> QED
    BY <1>1, <1>3, <1>4, <2>2, <2>3 DEF FormatInv
<1>15. CASE Finished \/ UNCHANGED vars
  <2>1. /\ at' = at /\ pc' = pc /\ xf' = xf /\ format' = format /\ sheet' = sheet
        /\ cells' = cells
    BY <1>15 DEF Finished, vars
  <2>2. XfTable' /\ (WellOrdered => FormatTable' /\ AllFormatted')
    BY <1>0, <1>2, <1>4, <2>1, OtherStays
  <2>3. CrashOther => CrashOther'
    BY <1>5, <2>1
  <2> QED
    BY <1>1, <1>3, <1>4, <2>2, <2>3 DEF FormatInv
<1> QED
  BY <1>7, <1>8, <1>9, <1>11, <1>12, <1>13, <1>14, <1>15 DEF Next

LEMMA FormatAlways == Spec => []FormatInv
BY FormatInit, FormatNext, PTL DEF Spec

(* In every file whose cells refer to what comes before them, a number     *)
(* with a format of its own is formatted by the one its index means, of    *)
(* the file or built in, and is never without one (ctx_format.c:160,       *)
(* ctx_xf.c:67).                                                           *)
THEOREM OwnFormatUsed == Spec => []FormatInForce
<1>1. FormatInv => FormatInForce
  BY DEF FormatInv, FormatInForce, AllFormatted, Formatted, CrashOther
<1> QED
  BY <1>1, FormatAlways, PTL

-----------------------------------------------------------------------------
(* Powers of ten and of two.                                               *)
ArePowers(f, b) == f = [k \in Nat |-> IF k = 0 THEN 1 ELSE b * f[k - 1]]

LEMMA PowersGrow ==
  ASSUME NEW b \in Nat, b > 0, NEW power, power = CHOOSE f : ArePowers(f, b)
  PROVE  power[0] = 1 /\ \A k \in Nat : power[k] \in Nat /\ power[k] > 0 /\ power[k + 1] = b * power[k]
<1> DEFINE step == [p \in Nat \X Nat |-> b * p[2]]
<1>1. step \in [Nat \X Nat -> Nat] /\ \A m \in Nat : m > 0 => b * m > 0
  OBVIOUS
<1>2. PICK f \in [Nat -> Nat] : Recursive(f, 1, step)
  <2> HIDE DEF step
  <2> QED
    BY <1>1, RecursionExists DEF Defined
<1>3. f[0] = 1 /\ \A k \in Nat : f[k + 1] = b * f[k]
  BY <1>2 DEF Recursive
<1>4. ASSUME NEW k \in Nat PROVE f[k] = IF k = 0 THEN 1 ELSE b * f[k - 1]
  <2>1. CASE k = 0
    BY <1>3, <2>1
  <2>2. CASE k # 0
    <3>1. k - 1 \in Nat /\ (k - 1) + 1 = k
      BY <2>2
    <3> QED
      BY <1>3, <2>2, <3>1
  <2> QED
    BY <2>1, <2>2
<1>5. ArePowers(power, b)
  <2>1. ArePowers(f, b)
    BY <1>4 DEF ArePowers
  <2> QED
    BY <2>1
<1>6. \A k \in Nat : power[k] = IF k = 0 THEN 1 ELSE b * power[k - 1]
  BY <1>5 DEF ArePowers
<1>7. \A k \in Nat : k + 1 \in Nat /\ k + 1 # 0 /\ (k + 1) - 1 = k
  OBVIOUS
<1>8. power[0] = 1 /\ \A k \in Nat : power[k + 1] = b * power[k]
  BY <1>6, <1>7
<1> DEFINE T == {k \in Nat : power[k] \in Nat /\ power[k] > 0}
<1>9. T = Nat
  <2>1. 0 \in T
    BY <1>8
  <2>2. ASSUME NEW k \in T PROVE k + 1 \in T
    <3>1. PICK m \in Nat : m = power[k] /\ m > 0 /\ power[k + 1] = b * m
      BY <1>8
    <3>2. b * m \in Nat /\ b * m > 0 /\ k + 1 \in Nat
      BY <1>1, <3>1
    <3> QED
      BY <3>1, <3>2
  <2>3. T \in SUBSET Nat
    OBVIOUS
  <2> HIDE DEF T
  <2> QED
    BY <2>1, <2>2, <2>3, NatSetInduction
<1>10. \A k \in Nat : k \in T
  BY <1>9, Zenon
<1> QED
  BY <1>8, <1>10

LEMMA PowerSteps ==
  /\ TenTo[0] = 1
  /\ \A k \in Nat : TenTo[k] \in Nat /\ TenTo[k] > 0 /\ TenTo[k + 1] = 10 * TenTo[k]
<1>1. TenTo = CHOOSE f : ArePowers(f, 10)
  BY DEF TenTo, ArePowers
<1> QED
  BY <1>1, PowersGrow

LEMMA Doubling ==
  /\ TwoTo[0] = 1
  /\ \A k \in Nat : TwoTo[k] \in Nat /\ TwoTo[k] > 0 /\ TwoTo[k + 1] = 2 * TwoTo[k]
<1>1. TwoTo = CHOOSE f : ArePowers(f, 2)
  BY DEF TwoTo, ArePowers
<1> QED
  BY <1>1, PowersGrow

(* The quotient is the number that goes into n with a rest.                *)
LEMMA QuotientIs ==
  ASSUME NEW n \in Nat, NEW q \in Nat, q > 0, NEW x \in Nat, NEW y \in Nat, y < q,
         n = q * x + y
  PROVE  n \div q = x
<1>1. /\ n \div q \in Nat /\ n % q \in Nat /\ n % q < q
      /\ n = q * (n \div q) + (n % q)
  OBVIOUS
<1> DEFINE d == n \div q
<1>2. d \in Nat /\ q * d \in Nat /\ q * x \in Nat
  BY <1>1
<1>3. CASE d < x
  <2>1. PICK m \in Nat : x = d + 1 + m
    <3>1. x - d - 1 \in Nat /\ x = d + 1 + (x - d - 1)
      BY <1>2, <1>3
    <3> QED
      BY <3>1
  <2>2. q * x = q * d + q + q * m /\ q * m \in Nat
    BY <1>2, <2>1
  <2> QED
    BY <1>1, <1>2, <2>2
<1>4. CASE d > x
  <2>1. PICK m \in Nat : d = x + 1 + m
    <3>1. d - x - 1 \in Nat /\ d = x + 1 + (d - x - 1)
      BY <1>2, <1>4
    <3> QED
      BY <3>1
  <2>2. q * d = q * x + q + q * m /\ q * m \in Nat
    BY <1>2, <2>1
  <2> QED
    BY <1>1, <1>2, <2>2
<1> QED
  BY <1>2, <1>3, <1>4

(* Digits are taken off the end one by one.                                *)
LEMMA LastDigit ==
  ASSUME NEW n \in Nat, NEW q \in Nat, q > 0
  PROVE  /\ n \div q \in Nat /\ n \div (10 * q) \in Nat /\ (n \div q) % 10 \in 0 .. 9
         /\ n \div q = 10 * (n \div (10 * q)) + ((n \div q) % 10)
<1> DEFINE u == n \div (10 * q)
           r == n % (10 * q)
           w == r \div q
           y == r % q
<1>1. 10 * q \in Nat /\ 10 * q > 0
  OBVIOUS
<1>2. u \in Nat /\ r \in Nat /\ r < 10 * q /\ n = (10 * q) * u + r
  BY <1>1
<1>3. w \in Nat /\ y \in Nat /\ y < q /\ r = q * w + y
  <2> HIDE DEF r
  <2> QED
    BY <1>2
<1>4. w < 10
  <2> HIDE DEF u, r, w, y
  <2> SUFFICES ASSUME w >= 10 PROVE FALSE
    BY <1>3
  <2>1. PICK m \in Nat : w = 10 + m
    <3>1. w - 10 \in Nat /\ w = 10 + (w - 10)
      BY <1>3
    <3> QED
      BY <3>1
  <2>2. q * w = 10 * q + q * m /\ q * m \in Nat
    BY <2>1
  <2> QED
    BY <1>2, <1>3, <2>2
<1> HIDE DEF u, r, w, y
<1>5. n = q * (10 * u + w) + y
  <2>1. (10 * q) * u = q * (10 * u)
    BY <1>2
  <2>2. q * (10 * u + w) = q * (10 * u) + q * w
    BY <1>2, <1>3
  <2> QED
    BY <1>2, <1>3, <2>1, <2>2
<1>6. n \div q = 10 * u + w
  BY <1>2, <1>3, <1>5, QuotientIs
<1>7. (10 * u + w) % 10 = w
  BY <1>2, <1>3, <1>4
<1>8. u = n \div (10 * q) /\ (n \div q) % 10 = w
  BY <1>6, <1>7 DEF u
<1>9. n \div q \in Nat /\ w \in 0 .. 9
  BY <1>2, <1>3, <1>4, <1>6
<1> QED
  BY <1>2, <1>6, <1>8, <1>9

-----------------------------------------------------------------------------
(* The characters of numbers, and what a digit is worth.                   *)
Chars == Range(Digit) \cup {".", "-"}

LEMMA DigitValues ==
  /\ \A d \in 0 .. 9 : Digit[d + 1] \in Range(Digit) /\ Value(Digit[d + 1]) = d
  /\ "." \notin Range(Digit) /\ "-" \notin Range(Digit)
  /\ \A x \in Range(Digit) : Value(x) \in 0 .. 9
  /\ Digit[1] = "0"
<1>1. DOMAIN Digit = 1 .. 10
  BY DEF Digit
<1>2. \A n, m \in 1 .. 10 : Digit[n] = Digit[m] => n = m
  <2>1. /\ Digit[1] = "0" /\ Digit[2] = "1" /\ Digit[3] = "2" /\ Digit[4] = "3" /\ Digit[5] = "4"
        /\ Digit[6] = "5" /\ Digit[7] = "6" /\ Digit[8] = "7" /\ Digit[9] = "8" /\ Digit[10] = "9"
    BY DEF Digit
  <2>2. ASSUME NEW n \in 1 .. 10
        PROVE  n \in {1, 2, 3, 4, 5, 6, 7, 8, 9, 10}
    OBVIOUS
  <2> QED
    BY <2>1, <2>2
<1>3. \A n \in 1 .. 10 : Digit[n] # "." /\ Digit[n] # "-"
  BY DEF Digit
<1>4. Digit[1] = "0"
  BY DEF Digit
<1>5. ASSUME NEW n \in 1 .. 10 PROVE Value(Digit[n]) = n - 1
  <2>1. (CHOOSE m \in 1 .. 10 : Digit[m] = Digit[n]) = n
    BY <1>2
  <2> QED
    BY <1>1, <2>1 DEF Value
<1>6. \A x \in Range(Digit) : \E n \in 1 .. 10 : x = Digit[n]
  BY <1>1 DEF Range
<1>7. \A d \in 0 .. 9 : d + 1 \in 1 .. 10 /\ (d + 1) - 1 = d
  OBVIOUS
<1>8. \A d \in 0 .. 9 : Digit[d + 1] \in Range(Digit)
  BY <1>1, <1>7 DEF Range
<1> QED
  BY <1>3, <1>4, <1>5, <1>6, <1>7, <1>8

(* s is read as n, from its beginning on.                                  *)
ReadBy(f, s) ==
  f = [k \in 0 .. Len(s) |->
         IF k = 0 THEN 0
         ELSE IF s[k] \in Range(Digit) THEN 10 * f[k - 1] + Value(s[k])
         ELSE f[k - 1]]
Spells(s, n) == \E f : ReadBy(f, s) /\ f[Len(s)] = n

LEMMA SpellsNothing == Spells(<<>>, 0)
<1> DEFINE f == [k \in 0 .. 0 |-> 0]
<1>1. f[0] = 0 /\ Len(<<>>) = 0
  OBVIOUS
<1>2. f = [k \in 0 .. Len(<<>>) |->
         IF k = 0 THEN 0
         ELSE IF <<>>[k] \in Range(Digit) THEN 10 * f[k - 1] + Value(<<>>[k])
         ELSE f[k - 1]]
  OBVIOUS
<1> QED
  BY <1>1, <1>2 DEF Spells, ReadBy

LEMMA SpellsOne ==
  ASSUME NEW s \in Seq(Chars), NEW n, NEW m, Spells(s, n), Spells(s, m)
  PROVE  n = m
<1>1. PICK f : ReadBy(f, s) /\ f[Len(s)] = n
  BY DEF Spells
<1>2. PICK g : ReadBy(g, s) /\ g[Len(s)] = m
  BY DEF Spells
<1> DEFINE T == {k \in Nat : k <= Len(s) => f[k] = g[k]}
<1>3. \A k \in 0 .. Len(s) :
        /\ f[k] = IF k = 0 THEN 0
                  ELSE IF s[k] \in Range(Digit) THEN 10 * f[k - 1] + Value(s[k]) ELSE f[k - 1]
        /\ g[k] = IF k = 0 THEN 0
                  ELSE IF s[k] \in Range(Digit) THEN 10 * g[k - 1] + Value(s[k]) ELSE g[k - 1]
  BY <1>1, <1>2 DEF ReadBy
<1>4. Len(s) \in Nat
  OBVIOUS
<1>5. 0 \in T
  BY <1>3, <1>4
<1>6. ASSUME NEW k \in T PROVE k + 1 \in T
  <2>1. k + 1 # 0 /\ (k + 1) - 1 = k /\ (k + 1 <= Len(s) => k <= Len(s) /\ k + 1 \in 0 .. Len(s))
    BY <1>4
  <2> QED
    BY <1>3, <2>1
<1>7. T \in SUBSET Nat
  OBVIOUS
<1>8. T = Nat
  <2> HIDE DEF T
  <2> QED
    BY <1>5, <1>6, <1>7, NatSetInduction
<1>9. f[Len(s)] = g[Len(s)]
  BY <1>4, <1>8
<1> QED
  BY <1>1, <1>2, <1>9

LEMMA SpellsMore ==
  ASSUME NEW s \in Seq(Chars), NEW n, Spells(s, n), NEW x \in Chars
  PROVE  /\ x \in Range(Digit) => Spells(Append(s, x), 10 * n + Value(x))
         /\ x \notin Range(Digit) => Spells(Append(s, x), n)
<1>1. PICK f : ReadBy(f, s) /\ f[Len(s)] = n
  BY DEF Spells
<1> DEFINE t == Append(s, x)
           v == IF x \in Range(Digit) THEN 10 * n + Value(x) ELSE n
           g == [k \in 0 .. Len(t) |-> IF k = Len(t) THEN v ELSE f[k]]
<1>2. /\ Len(s) \in Nat /\ Len(t) = Len(s) + 1 /\ t[Len(t)] = x
      /\ \A k \in 1 .. Len(s) : t[k] = s[k]
  OBVIOUS
<1>3. \A k \in 0 .. Len(s) :
        f[k] = IF k = 0 THEN 0
               ELSE IF s[k] \in Range(Digit) THEN 10 * f[k - 1] + Value(s[k]) ELSE f[k - 1]
  BY <1>1 DEF ReadBy
<1> HIDE DEF t
<1>4. g[Len(t)] = v /\ \A k \in 0 .. Len(s) : g[k] = f[k]
  BY <1>2
<1> HIDE DEF v
<1>5. ASSUME NEW k \in 0 .. Len(t)
      PROVE  g[k] = IF k = 0 THEN 0
                    ELSE IF t[k] \in Range(Digit) THEN 10 * g[k - 1] + Value(t[k]) ELSE g[k - 1]
  <2> HIDE DEF g
  <2>1. CASE k = Len(t)
    <3>1. k # 0 /\ k - 1 = Len(s) /\ g[k - 1] = n /\ t[k] = x
      BY <1>1, <1>2, <1>4, <2>1
    <3> QED
      BY <1>4, <2>1, <3>1 DEF v
  <2>2. CASE k \in 1 .. Len(s)
    <3>1. k # 0 /\ k - 1 \in 0 .. Len(s) /\ k \in 0 .. Len(s) /\ t[k] = s[k]
      BY <1>2, <2>2
    <3> QED
      BY <1>3, <1>4, <3>1
  <2>3. CASE k = 0
    BY <1>2, <1>3, <1>4, <2>3
  <2> QED
    BY <1>2, <2>1, <2>2, <2>3
<1>6. ReadBy(g, t)
  BY <1>5 DEF ReadBy
<1>7. Spells(t, v)
  <2> HIDE DEF g
  <2> QED
    BY <1>4, <1>6 DEF Spells
<1> QED
  BY <1>7 DEF t, v

(* So is what NumberOf() makes of it.                                      *)
LEMMA NumberRead ==
  ASSUME NEW s \in Seq(Chars), NEW n, Spells(s, n)
  PROVE  NumberOf(s) = n * TenTo[Decimals - Behind(s)] * (IF Head(s) = "-" THEN -1 ELSE 1)
<1> DEFINE f == CHOOSE f : ReadBy(f, s)
<1>1. ReadBy(f, s)
  BY DEF Spells
<1>2. f[Len(s)] = n
  <2> HIDE DEF f
  <2>1. Spells(s, f[Len(s)])
    BY <1>1 DEF Spells
  <2> QED
    BY <2>1, SpellsOne
<1>3. NumberOf(s)
        = f[Len(s)] * TenTo[Decimals - Behind(s)] * (IF Head(s) = "-" THEN -1 ELSE 1)
  BY DEF NumberOf, ReadBy
<1> QED
  BY <1>2, <1>3

-----------------------------------------------------------------------------
IsDigits(f) ==
  f = [n \in Nat |-> IF n < 10 THEN <<Digit[n + 1]>>
                    ELSE Append(f[n \div 10], Digit[(n % 10) + 1])]

LEMMA TenthFacts ==
  ASSUME NEW n \in Nat
  PROVE  /\ n \div 10 \in Nat /\ n = 10 * (n \div 10) + (n % 10) /\ n % 10 \in 0 .. 9
         /\ n > 9 => n \div 10 < n
OBVIOUS

LEMMA DigitsDefined == IsDigits(Digits) /\ Digits \in [Nat -> Seq(Range(Digit))]
<1> DEFINE S == Seq(Range(Digit))
           base == [n \in Nat |-> <<Digit[(n % 10) + 1]>>]
           down == [n \in Nat |-> n \div 10]
           step == [p \in Nat \X S |-> Append(p[2], Digit[(p[1] % 10) + 1])]
<1>1. \A n \in Nat : Digit[(n % 10) + 1] \in Range(Digit)
  BY TenthFacts, DigitValues
<1>2. base \in [Nat -> S] /\ down \in [Nat -> Nat]
  BY <1>1, TenthFacts
<1>3. step \in [Nat \X S -> S]
  <2>1. ASSUME NEW n \in Nat, NEW s \in S PROVE Append(s, Digit[(n % 10) + 1]) \in S
    BY <1>1, AppendProperties
  <2> QED
    BY <2>1
<1>4. \A n \in Nat : n > 9 => down[n] < n
  BY TenthFacts
<1>5. PICK f \in [Nat -> S] : Descends(f, 9, base, down, step)
  <2> HIDE DEF base, down, step, S
  <2> QED
    BY <1>2, <1>3, <1>4, DescentExists
<1>6. ASSUME NEW n \in Nat
      PROVE  f[n] = IF n < 10 THEN <<Digit[n + 1]>> ELSE Append(f[n \div 10], Digit[(n % 10) + 1])
  <2>1. f[n] = IF n <= 9 THEN base[n] ELSE step[<<n, f[down[n]]>>]
    <3> HIDE DEF base, down, step, S
    <3> QED
      BY <1>5 DEF Descends
  <2>2. down[n] = n \div 10 /\ n \div 10 \in Nat /\ base[n] = <<Digit[(n % 10) + 1]>>
    BY TenthFacts
  <2>3. n <= 9 => n % 10 = n
    OBVIOUS
  <2>4. f[n \div 10] \in S
    <3> HIDE DEF base, down, step, S
    <3> QED
      BY <2>2
  <2>5. step[<<n, f[n \div 10]>>] = Append(f[n \div 10], Digit[(n % 10) + 1])
    BY <2>4
  <2>6. n < 10 <=> n <= 9
    OBVIOUS
  <2> HIDE DEF base, down, step, S
  <2> QED
    BY <2>1, <2>2, <2>3, <2>5, <2>6
<1>7. IsDigits(f)
  BY <1>6 DEF IsDigits
<1>8. Digits = CHOOSE g : IsDigits(g)
  BY DEF Digits, IsDigits
<1>9. IsDigits(Digits)
  BY <1>7, <1>8
<1>10. \A n \in Nat :
         Digits[n] = IF n < 10 THEN <<Digit[n + 1]>> ELSE Append(Digits[n \div 10], Digit[(n % 10) + 1])
  BY <1>9 DEF IsDigits
<1> DEFINE T == {n \in Nat : Digits[n] \in S}
<1>11. T = Nat
  <2>1. ASSUME NEW n \in Nat, \A k \in Nat : k < n => k \in T PROVE n \in T
    <3>1. Digit[(n % 10) + 1] \in Range(Digit)
      BY <1>1
    <3>2. CASE n < 10
      <4>0. n % 10 = n
        BY <3>2
      <4>1. Digits[n] = <<Digit[n + 1]>>
        BY <1>10, <3>2, Zenon
      <4>2. <<Digit[n + 1]>> \in S
        BY <3>1, <4>0
      <4> QED
        BY <4>1, <4>2, Zenon
    <3>3. CASE ~(n < 10)
      <4>1. n \div 10 \in Nat /\ n \div 10 < n
        BY <3>3, TenthFacts
      <4>2. Digits[n \div 10] \in S
        BY <2>1, <4>1
      <4>3. Digits[n] = Append(Digits[n \div 10], Digit[(n % 10) + 1])
        BY <1>10, <3>3
      <4>4. Append(Digits[n \div 10], Digit[(n % 10) + 1]) \in S
        BY <3>1, <4>2, AppendProperties
      <4> QED
        BY <4>3, <4>4, Zenon
    <3> QED
      BY <3>2, <3>3
  <2>2. T \in SUBSET Nat
    OBVIOUS
  <2> HIDE DEF T
  <2> QED
    BY <2>1, <2>2, StrongInduction
<1>12. \A n \in Nat : n \in T
  BY <1>11, Zenon
<1>13. \A n \in Nat : Digits[n] \in S
  BY <1>12, Zenon
<1> QED
  BY <1>9, <1>13 DEF IsDigits

LEMMA DigitSteps ==
  ASSUME NEW n \in Nat
  PROVE  /\ Digits[n] \in Seq(Range(Digit)) /\ Digits[n] # <<>>
         /\ n < 10 => Digits[n] = <<Digit[n + 1]>>
         /\ ~(n < 10) => Digits[n] = Append(Digits[n \div 10], Digit[(n % 10) + 1])
<1>1. /\ IsDigits(Digits) /\ Digits \in [Nat -> Seq(Range(Digit))]
      /\ n \div 10 \in Nat /\ Digit[(n % 10) + 1] \in Range(Digit)
  BY DigitsDefined, TenthFacts, DigitValues
<1>2. Digits[n] = IF n < 10 THEN <<Digit[n + 1]>> ELSE Append(Digits[n \div 10], Digit[(n % 10) + 1])
  BY <1>1 DEF IsDigits
<1>3. Digits[n] \in Seq(Range(Digit)) /\ Digits[n \div 10] \in Seq(Range(Digit))
  BY <1>1
<1>4. <<Digit[n + 1]>> # <<>>
  OBVIOUS
<1>5. ASSUME NEW s \in Seq(Range(Digit)), NEW x \in Range(Digit) PROVE Append(s, x) # <<>>
  <2>1. Len(Append(s, x)) = Len(s) + 1 /\ Len(s) \in Nat /\ Len(<<>>) = 0
    BY AppendProperties
  <2> QED
    BY <2>1
<1>6. Append(Digits[n \div 10], Digit[(n % 10) + 1]) # <<>>
  BY <1>1, <1>3, <1>5
<1> QED
  BY <1>2, <1>3, <1>4, <1>6, Zenon

Signs == {<<>>, <<"-">>}

LEMMA AppendBehind ==
  ASSUME NEW S, NEW s \in Seq(S), NEW t \in Seq(S), NEW x \in S
  PROVE  s \o Append(t, x) = Append(s \o t, x)
OBVIOUS

(* The digits of a number spell it, behind a sign, too.                    *)
LEMMA DigitsSpell ==
  ASSUME NEW sign \in Signs, NEW n \in Nat
  PROVE  Spells(sign \o Digits[n], n) /\ sign \o Digits[n] \in Seq(Chars)
<1>1. Range(Digit) \subseteq Chars /\ "-" \in Chars /\ "-" \notin Range(Digit)
  BY DigitValues DEF Chars
<1>2. sign \in Seq(Chars) /\ Spells(sign, 0)
  <2>1. <<>> \in Seq(Chars) /\ <<"-">> \in Seq(Chars) /\ <<"-">> = Append(<<>>, "-")
    BY <1>1
  <2>2. Spells(<<"-">>, 0)
    BY <1>1, <2>1, SpellsNothing, SpellsMore
  <2> QED
    BY <2>1, <2>2, SpellsNothing DEF Signs
<1>3. \A m \in Nat : Digits[m] \in Seq(Chars)
  <2>1. Seq(Range(Digit)) \subseteq Seq(Chars)
    BY <1>1
  <2> QED
    BY <2>1, DigitSteps
<1>4. \A m \in Nat : sign \o Digits[m] \in Seq(Chars)
  BY <1>2, <1>3, ConcatProperties
<1> DEFINE T == {m \in Nat : Spells(sign \o Digits[m], m)}
<1>5. T = Nat
  <2>1. ASSUME NEW m \in Nat, \A k \in Nat : k < m => k \in T PROVE m \in T
    <3>1. PICK d \in 0 .. 9, q \in Nat :
            m = 10 * q + d /\ d = m % 10 /\ q = m \div 10 /\ (m > 9 => q < m)
      BY TenthFacts
    <3>2. PICK x \in Chars : x \in Range(Digit) /\ x = Digit[d + 1] /\ Value(x) = d
      BY <1>1, DigitValues
    <3> HIDE DEF T
    <3>3. CASE m < 10
      <4>1. d = m
        BY <3>1, <3>3
      <4>2. Digits[m] = <<x>>
        BY <3>2, <3>3, <4>1, DigitSteps, Zenon
      <4>3. <<>> \in Seq(Chars) /\ sign \o <<>> = sign /\ <<x>> = Append(<<>>, x)
        BY <1>2
      <4>4. sign \o Digits[m] = Append(sign, x)
        BY <1>2, <4>2, <4>3, AppendBehind
      <4>5. Spells(Append(sign, x), 10 * 0 + Value(x))
        BY <1>2, <3>2, SpellsMore
      <4>6. 10 * 0 + Value(x) = m
        BY <3>2, <4>1
      <4> QED
        BY <4>4, <4>5, <4>6 DEF T
    <3>4. CASE ~(m < 10)
      <4>1. q < m
        BY <3>1, <3>4
      <4>2. Digits[m] = Append(Digits[q], x)
        BY <3>1, <3>2, <3>4, DigitSteps, Zenon
      <4>3. Spells(sign \o Digits[q], q)
        BY <2>1, <4>1 DEF T
      <4>4. sign \o Digits[m] = Append(sign \o Digits[q], x)
        BY <1>2, <1>3, <4>2, AppendBehind
      <4>5. sign \o Digits[q] \in Seq(Chars)
        BY <1>4
      <4>6. Spells(Append(sign \o Digits[q], x), 10 * q + Value(x))
        BY <3>2, <4>3, <4>5, SpellsMore
      <4>7. 10 * q + Value(x) = m
        BY <3>1, <3>2
      <4> QED
        BY <4>4, <4>6, <4>7 DEF T
    <3> QED
      BY <3>3, <3>4
  <2>2. T \in SUBSET Nat
    OBVIOUS
  <2> HIDE DEF T
  <2> QED
    BY <2>1, <2>2, StrongInduction
<1>6. n \in T
  BY <1>5
<1> QED
  BY <1>4, <1>6

-----------------------------------------------------------------------------
(* What is printed of a number up to its k-th decimal, and the number that *)
(* is spelled by it.                                                       *)
Whole(neg, n)      == (IF neg THEN <<"-">> ELSE <<>>) \o Digits[n \div Unit]
Decimal(n, k) == ((n % Unit) \div TenTo[Decimals - k]) % 10
UpTo(neg, n, k)    == Whole(neg, n) \o <<".">> \o SubSeq(Padded(n % Unit), 1, k)
Leading(n, k) ==
  (n \div Unit) * TenTo[k] + ((n % Unit) \div TenTo[Decimals - k])

LEMMA PartsOf ==
  ASSUME NEW n \in Nat
  PROVE  /\ Unit \in Nat /\ Unit > 0 /\ Decimals \in Nat
         /\ n \div Unit \in Nat /\ n % Unit \in Nat /\ n % Unit < Unit
         /\ n = Unit * (n \div Unit) + (n % Unit)
<1>1. Decimals \in Nat
  BY SizesAssumption
<1>2. Unit \in Nat /\ Unit > 0
  BY <1>1, PowerSteps DEF Unit
<1> HIDE DEF Unit
<1> QED
  BY <1>1, <1>2

LEMMA LeadingSteps ==
  ASSUME NEW n \in Nat
  PROVE  /\ Leading(n, 0) = n \div Unit /\ Leading(n, Decimals) = n
         /\ \A k \in 0 .. Decimals : Leading(n, k) \in Nat
         /\ \A k \in 0 .. Decimals - 1 :
              Decimal(n, k + 1) \in 0 .. 9 /\ Leading(n, k + 1) = 10 * Leading(n, k) + Decimal(n, k + 1)
<1> DEFINE a == n \div Unit
           r == n % Unit
<1>1. /\ Unit \in Nat /\ Unit > 0 /\ Decimals \in Nat /\ a \in Nat /\ r \in Nat /\ r < Unit
      /\ n = Unit * a + r /\ Unit = TenTo[Decimals]
  BY PartsOf DEF Unit
<1>2. \A k \in 0 .. Decimals : Leading(n, k) = a * TenTo[k] + (r \div TenTo[Decimals - k])
  BY DEF Leading
<1> HIDE DEF a, r
<1>3. Leading(n, 0) = a
  <2>1. r \div Unit = 0
    BY <1>1, QuotientIs
  <2>2. Decimals - 0 = Decimals /\ 0 \in 0 .. Decimals
    BY <1>1
  <2> QED
    BY <1>1, <1>2, <2>1, <2>2, PowerSteps
<1>4. Leading(n, Decimals) = n
  <2>1. Decimals - Decimals = 0 /\ Decimals \in 0 .. Decimals /\ r \div 1 = r
    BY <1>1
  <2>2. Leading(n, Decimals) = a * Unit + r
    BY <1>1, <1>2, <2>1, PowerSteps
  <2> QED
    BY <1>1, <2>2
<1>5. ASSUME NEW k \in 0 .. Decimals PROVE Leading(n, k) \in Nat
  <2>1. Decimals - k \in Nat /\ k \in Nat
    BY <1>1
  <2>2. PICK q \in Nat, t \in Nat : q = TenTo[Decimals - k] /\ q > 0 /\ t = TenTo[k]
    BY <2>1, PowerSteps
  <2>3. r \div q \in Nat /\ a * t \in Nat
    BY <1>1, <2>2
  <2> QED
    BY <1>2, <2>2, <2>3
<1>6. ASSUME NEW k \in 0 .. Decimals - 1
      PROVE  /\ Decimal(n, k + 1) \in 0 .. 9
             /\ Leading(n, k + 1) = 10 * Leading(n, k) + Decimal(n, k + 1)
  <2>1. /\ k \in Nat /\ Decimals - (k + 1) \in Nat /\ (Decimals - (k + 1)) + 1 = Decimals - k
        /\ k \in 0 .. Decimals /\ k + 1 \in 0 .. Decimals
    BY <1>1
  <2>2. PICK q \in Nat : q = TenTo[Decimals - (k + 1)] /\ q > 0 /\ TenTo[Decimals - k] = 10 * q
    BY <2>1, PowerSteps
  <2>3. PICK t \in Nat : t = TenTo[k] /\ TenTo[k + 1] = 10 * t
    BY <2>1, PowerSteps
  <2>4. PICK u \in Nat, w \in Nat, d \in 0 .. 9 :
          u = r \div (10 * q) /\ w = r \div q /\ d = (r \div q) % 10 /\ w = 10 * u + d
    <3>1. /\ r \div q \in Nat /\ r \div (10 * q) \in Nat /\ (r \div q) % 10 \in 0 .. 9
          /\ r \div q = 10 * (r \div (10 * q)) + ((r \div q) % 10)
      BY <1>1, <2>2, LastDigit
    <3> QED
      BY <3>1, Zenon
  <2>5. Decimal(n, k + 1) = d
    BY <2>2, <2>4 DEF Decimal, r
  <2>6. Leading(n, k + 1) = a * (10 * t) + w /\ Leading(n, k) = a * t + u
    BY <1>2, <2>1, <2>2, <2>3, <2>4
  <2>7. a * (10 * t) = 10 * (a * t) /\ a * t \in Nat
    BY <1>1
  <2> QED
    BY <2>4, <2>5, <2>6, <2>7
<1> QED
  BY <1>3, <1>4, <1>5, <1>6 DEF a

LEMMA PaddedIs ==
  ASSUME NEW n \in Nat
  PROVE  LET p == Padded(n % Unit) IN
         /\ p \in Seq(Range(Digit)) /\ Len(p) = Decimals
         /\ \A k \in 1 .. Decimals :
              p[k] = Digit[Decimal(n, k) + 1] /\ p[k] \in Range(Digit) /\ Value(p[k]) = Decimal(n, k)
<1> DEFINE p == Padded(n % Unit)
<1>1. Decimals \in Nat
  BY PartsOf
<1>2. p = [k \in 1 .. Decimals |-> Digit[Decimal(n, k) + 1]]
  BY DEF Padded, Decimal
<1>3. ASSUME NEW k \in 1 .. Decimals PROVE Decimal(n, k) \in 0 .. 9
  <2>1. k - 1 \in 0 .. Decimals - 1 /\ (k - 1) + 1 = k
    BY <1>1
  <2> QED
    BY <2>1, LeadingSteps
<1> HIDE DEF p
<1>4. \A k \in 1 .. Decimals :
        p[k] = Digit[Decimal(n, k) + 1] /\ p[k] \in Range(Digit) /\ Value(p[k]) = Decimal(n, k)
  BY <1>2, <1>3, DigitValues
<1>5. p \in Seq(Range(Digit)) /\ Len(p) = Decimals
  BY <1>1, <1>2, <1>4
<1> QED
  BY <1>4, <1>5 DEF p

LEMMA WholeIs ==
  ASSUME NEW neg \in BOOLEAN, NEW n \in Nat
  PROVE  /\ Whole(neg, n) \in Seq(Range(Digit) \cup {"-"}) /\ Whole(neg, n) \in Seq(Chars)
         /\ Len(Whole(neg, n)) \in Nat /\ Len(Whole(neg, n)) > 0 /\ (Whole(neg, n)[1] = "-" <=> neg)
         /\ Spells(Whole(neg, n), Leading(n, 0))
<1> DEFINE sign == IF neg THEN <<"-">> ELSE <<>>
           d == Digits[n \div Unit]
           D == Range(Digit) \cup {"-"}
<1>1. n \div Unit \in Nat /\ Leading(n, 0) = n \div Unit
  BY PartsOf, LeadingSteps
<1>2. sign \in Signs
  BY DEF Signs
<1>3. Spells(sign \o d, Leading(n, 0)) /\ sign \o d \in Seq(Chars)
  BY <1>1, <1>2, DigitsSpell
<1>4. d \in Seq(Range(Digit)) /\ d # <<>>
  BY <1>1, DigitSteps
<1> HIDE DEF d
<1>5. Len(d) > 0 /\ d[1] \in Range(Digit) /\ d[1] # "-"
  <2>1. Len(d) > 0 /\ d[1] \in Range(Digit)
    BY <1>4
  <2> QED
    BY <2>1, DigitValues
<1>6. d \in Seq(D) /\ sign \in Seq(D)
  <2>1. Range(Digit) \subseteq D /\ "-" \in D
    OBVIOUS
  <2> HIDE DEF D
  <2>2. <<>> \in Seq(D) /\ <<"-">> \in Seq(D)
    BY <2>1
  <2> QED
    BY <1>4, <2>1, <2>2
<1>0. Len(sign \o d) \in Nat
  <2> HIDE DEF sign
  <2> QED
    BY <1>3
<1>7. CASE neg
  <2>1. sign = <<"-">>
    BY <1>7
  <2> HIDE DEF sign, D
  <2>2. sign \o d \in Seq(D) /\ Len(sign \o d) > 0 /\ (sign \o d)[1] = "-"
    BY <1>5, <1>6, <2>1
  <2> QED
    BY <1>0, <1>3, <1>7, <2>2 DEF Whole, sign, d, D
<1>8. CASE ~(neg)
  <2>1. sign = <<>>
    BY <1>8
  <2> HIDE DEF sign, D
  <2>2. sign \o d = d
    BY <1>4, <2>1
  <2> QED
    BY <1>0, <1>3, <1>5, <1>6, <1>8, <2>2 DEF Whole, sign, d, D
<1> QED
  BY <1>7, <1>8

LEMMA UpToIs ==
  ASSUME NEW neg \in BOOLEAN, NEW n \in Nat, NEW k \in 0 .. Decimals
  PROVE  LET p == Padded(n % Unit)
             s == UpTo(neg, n, k)
             m == Len(Whole(neg, n)) + 1
         IN  /\ s \in Seq(Chars) /\ Len(s) = m + k /\ m \in Nat
             /\ \A j \in 1 .. m - 1 : s[j] = Whole(neg, n)[j]
             /\ s[m] = "." /\ \A j \in 1 .. k : s[m + j] = p[j]
<1> DEFINE p == Padded(n % Unit)
           w == Whole(neg, n)
<1>1. Decimals \in Nat /\ p \in Seq(Range(Digit)) /\ Len(p) = Decimals
  BY PartsOf, PaddedIs
<1>2. w \in Seq(Chars) /\ Range(Digit) \subseteq Chars /\ "." \in Chars
  BY WholeIs DEF Chars
<1> HIDE DEF p, w
<1>3. p \in Seq(Chars)
  BY <1>1, <1>2
<1>4. PICK q : q = SubSeq(p, 1, k)
  OBVIOUS
<1>5. q \in Seq(Chars) /\ Len(q) = k /\ \A j \in 1 .. k : q[j] = p[j]
  BY <1>1, <1>3, <1>4
<1>6. PICK v : v = w \o <<".">>
  OBVIOUS
<1>7. /\ v \in Seq(Chars) /\ Len(v) = Len(w) + 1 /\ Len(w) \in Nat
      /\ v[Len(w) + 1] = "." /\ \A j \in 1 .. Len(w) : v[j] = w[j]
  BY <1>2, <1>6
<1>8. /\ v \o q \in Seq(Chars) /\ Len(v \o q) = Len(w) + 1 + k
      /\ \A j \in 1 .. Len(w) + 1 : (v \o q)[j] = v[j]
      /\ \A j \in 1 .. k : (v \o q)[Len(w) + 1 + j] = q[j]
  BY <1>5, <1>7
<1>9. UpTo(neg, n, k) = v \o q
  BY <1>4, <1>6 DEF UpTo, p, w
<1>10. \A j \in 1 .. Len(w) : j \in 1 .. Len(w) + 1
  BY <1>7
<1> QED
  BY <1>5, <1>7, <1>8, <1>9, <1>10 DEF p, w

LEMMA UpToSpells ==
  ASSUME NEW neg \in BOOLEAN, NEW n \in Nat, NEW k \in 0 .. Decimals
  PROVE  Spells(UpTo(neg, n, k), Leading(n, k))
<1> DEFINE p == Padded(n % Unit)
           m == Len(Whole(neg, n)) + 1
           T == {j \in Nat : j <= Decimals => Spells(UpTo(neg, n, j), Leading(n, j))}
<1>1. Decimals \in Nat
  BY PartsOf
<1>2. \A j \in 0 .. Decimals :
        /\ UpTo(neg, n, j) \in Seq(Chars) /\ Len(UpTo(neg, n, j)) = m + j /\ m \in Nat
        /\ \A i \in 1 .. m - 1 : UpTo(neg, n, j)[i] = Whole(neg, n)[i]
        /\ UpTo(neg, n, j)[m] = "." /\ \A i \in 1 .. j : UpTo(neg, n, j)[m + i] = p[i]
  BY UpToIs
<1>3. Whole(neg, n) \in Seq(Chars) /\ m = Len(Whole(neg, n)) + 1 /\ "." \in Chars /\ "." \notin Range(Digit)
  BY WholeIs, DigitValues DEF Chars
<1>4. \A j \in 1 .. Decimals : p[j] \in Range(Digit) /\ p[j] \in Chars /\ Value(p[j]) = Decimal(n, j)
  BY PaddedIs DEF Chars
<1> HIDE DEF p, m
<1>5. 0 \in T
  <2> DEFINE t == Append(Whole(neg, n), ".")
  <2>1. /\ t \in Seq(Chars) /\ Len(t) = m /\ t[m] = "."
        /\ \A i \in 1 .. m - 1 : t[i] = Whole(neg, n)[i]
    BY <1>3
  <2>2. 0 \in 0 .. Decimals
    BY <1>1
  <2>3. UpTo(neg, n, 0) \in Seq(Chars) /\ Len(UpTo(neg, n, 0)) = m /\ m \in Nat
    BY <1>2, <2>2
  <2> HIDE DEF t
  <2>4. ASSUME NEW i \in 1 .. Len(t) PROVE t[i] = UpTo(neg, n, 0)[i]
    <3>1. i = m \/ i \in 1 .. m - 1
      BY <2>1, <2>3
    <3> QED
      BY <1>2, <2>1, <2>2, <3>1
  <2>5. t = UpTo(neg, n, 0)
    BY <2>1, <2>3, <2>4, SeqEqual
  <2>6. Spells(t, Leading(n, 0))
    BY <1>3, WholeIs, SpellsMore DEF t
  <2> QED
    BY <2>5, <2>6
<1>6. ASSUME NEW j \in T PROVE j + 1 \in T
  <2> SUFFICES ASSUME j + 1 <= Decimals PROVE Spells(UpTo(neg, n, j + 1), Leading(n, j + 1))
    OBVIOUS
  <2>1. /\ j \in 0 .. Decimals /\ j + 1 \in 0 .. Decimals /\ j \in 0 .. Decimals - 1
        /\ j + 1 \in 1 .. Decimals /\ j \in Nat
    BY <1>1
  <2>2. Spells(UpTo(neg, n, j), Leading(n, j))
    BY <2>1
  <2> DEFINE t == Append(UpTo(neg, n, j), p[j + 1])
  <2>3. UpTo(neg, n, j) \in Seq(Chars) /\ Len(UpTo(neg, n, j)) = m + j /\ m \in Nat
    BY <1>2, <2>1
  <2>4. p[j + 1] \in Range(Digit) /\ p[j + 1] \in Chars /\ Value(p[j + 1]) = Decimal(n, j + 1)
    BY <1>4, <2>1
  <2>5. /\ t \in Seq(Chars) /\ Len(t) = m + (j + 1) /\ t[m + (j + 1)] = p[j + 1]
        /\ \A i \in 1 .. m + j : t[i] = UpTo(neg, n, j)[i]
    BY <2>1, <2>3, <2>4
  <2>6. Spells(t, 10 * Leading(n, j) + Decimal(n, j + 1))
    BY <2>2, <2>3, <2>4, SpellsMore
  <2> HIDE DEF t
  <2>7. UpTo(neg, n, j + 1) \in Seq(Chars) /\ Len(UpTo(neg, n, j + 1)) = m + (j + 1)
    BY <1>2, <2>1
  <2>8. ASSUME NEW i \in 1 .. Len(t) PROVE t[i] = UpTo(neg, n, j + 1)[i]
    <3>1. CASE i \in 1 .. m - 1
      <4>1. t[i] = UpTo(neg, n, j)[i]
        BY <2>1, <2>3, <2>5, <3>1
      <4> QED
        BY <1>2, <2>1, <3>1, <4>1
    <3>2. CASE i = m
      <4>1. m \in 1 .. m + j
        BY <2>1, <2>3, <3>2
      <4> QED
        BY <1>2, <2>1, <2>5, <3>2, <4>1
    <3>3. CASE i > m
      <4>1. PICK l \in 1 .. j + 1 : i = m + l
        <5>1. i - m \in 1 .. j + 1 /\ i = m + (i - m)
          BY <2>1, <2>3, <2>5, <3>3
        <5> QED
          BY <5>1
      <4>2. UpTo(neg, n, j + 1)[i] = p[l]
        BY <1>2, <2>1, <4>1
      <4>3. CASE l = j + 1
        BY <2>5, <4>1, <4>2, <4>3
      <4>4. CASE l \in 1 .. j
        <5>1. t[i] = UpTo(neg, n, j)[i]
          BY <2>1, <2>3, <2>5, <4>1, <4>4
        <5> QED
          BY <1>2, <2>1, <4>1, <4>2, <4>4, <5>1
      <4> QED
        BY <2>1, <4>3, <4>4
    <3> QED
      BY <2>3, <2>5, <3>1, <3>2, <3>3
  <2>9. t = UpTo(neg, n, j + 1)
    BY <2>5, <2>7, <2>8, SeqEqual
  <2> QED
    BY <2>1, <2>6, <2>9, LeadingSteps
<1>7. T \in SUBSET Nat
  OBVIOUS
<1>8. T = Nat
  <2> HIDE DEF T
  <2> QED
    BY <1>5, <1>6, <1>7, NatSetInduction
<1> QED
  BY <1>1, <1>8

(* Decimals that are all 0 from the k-th on can be left out.               *)
LEMMA ZerosBehind ==
  ASSUME NEW n \in Nat, NEW k \in 0 .. Decimals,
         \A j \in k + 1 .. Decimals : Padded(n % Unit)[j] = "0"
  PROVE  n = Leading(n, k) * TenTo[Decimals - k]
<1> DEFINE T == {j \in Nat : k + j <= Decimals => Leading(n, k + j) = Leading(n, k) * TenTo[j]}
<1>1. Decimals \in Nat /\ Leading(n, k) \in Nat /\ Leading(n, Decimals) = n
  BY PartsOf, LeadingSteps
<1>2. 0 \in T
  BY <1>1, PowerSteps
<1>3. ASSUME NEW j \in T PROVE j + 1 \in T
  <2> SUFFICES ASSUME k + (j + 1) <= Decimals
               PROVE  Leading(n, k + (j + 1)) = Leading(n, k) * TenTo[j + 1]
    OBVIOUS
  <2>1. /\ k + j \in 0 .. Decimals - 1 /\ (k + j) + 1 = k + (j + 1) /\ j \in Nat
        /\ k + (j + 1) \in k + 1 .. Decimals /\ k + (j + 1) \in 1 .. Decimals
    BY <1>1
  <2>2. Leading(n, k + j) = Leading(n, k) * TenTo[j]
    BY <1>1, <2>1
  <2>3. Decimal(n, k + (j + 1)) = 0
    <3>1. Value("0") = 0
      <4>1. 0 \in 0 .. 9 /\ 0 + 1 = 1
        OBVIOUS
      <4> QED
        BY <4>1, DigitValues
    <3> QED
      BY <2>1, <3>1, PaddedIs
  <2>4. Leading(n, k + (j + 1)) = 10 * Leading(n, k + j) + 0
    BY <2>1, <2>3, LeadingSteps
  <2>5. PICK t \in Nat, l \in Nat : t = TenTo[j] /\ TenTo[j + 1] = 10 * t /\ l = Leading(n, k)
    BY <1>1, <2>1, PowerSteps
  <2>6. 10 * (l * t) + 0 = l * (10 * t)
    OBVIOUS
  <2> QED
    BY <2>2, <2>4, <2>5, <2>6
<1>4. T \in SUBSET Nat
  OBVIOUS
<1>5. T = Nat
  <2> HIDE DEF T
  <2> QED
    BY <1>2, <1>3, <1>4, NatSetInduction
<1>6. Decimals - k \in Nat /\ k + (Decimals - k) = Decimals
  BY <1>1
<1> QED
  BY <1>1, <1>5, <1>6

LEMMA LargestExists ==
  ASSUME NEW N \in Nat, NEW P \in SUBSET (1 .. N), P # {}
  PROVE  Max(P) \in P /\ \A m \in P : m <= Max(P)
<1> DEFINE Q == {i \in 0 .. N : N - i \in P}
<1>1. Q \in SUBSET Nat /\ \A m \in P : N - m \in Q
  <2>1. ASSUME NEW m \in P PROVE N - m \in 0 .. N /\ N - (N - m) = m
    OBVIOUS
  <2> QED
    BY <2>1
<1>2. PICK q \in Q : \A r \in Q : q <= r
  <2> HIDE DEF Q
  <2>1. Q # {}
    BY <1>1
  <2> QED
    BY <1>1, <2>1, SmallestExists
<1>3. PICK x \in P : x = N - q /\ q \in 0 .. N
  OBVIOUS
<1>4. ASSUME NEW m \in P PROVE x >= m
  <2>1. q <= N - m /\ m \in 1 .. N
    BY <1>1, <1>2
  <2> QED
    BY <1>3, <2>1
<1>5. \E y \in P : \A m \in P : y >= m
  BY <1>4
<1>6. Max(P) \in P /\ \A m \in P : Max(P) >= m
  BY <1>5 DEF Max
<1> QED
  BY <1>6

(* What is left of the text of a number: no point, or all up to the last   *)
(* decimal that is not 0.                                                  *)
LEMMA GeneralIs ==
  ASSUME NEW neg \in BOOLEAN, NEW n \in Nat
  PROVE  LET p == Padded(n % Unit) IN
         \E k \in 0 .. Decimals :
           /\ Trimmed(Printed(neg, n)) = IF k = 0 THEN Whole(neg, n) ELSE UpTo(neg, n, k)
           /\ k > 0 => p[k] # "0"
           /\ \A j \in k + 1 .. Decimals : p[j] = "0"
<1> DEFINE p == Padded(n % Unit)
           m == Len(Whole(neg, n)) + 1
           text == UpTo(neg, n, Decimals)
           I == {i \in 1 .. Len(text) : text[i] # "0"}
<1>1. Decimals \in Nat /\ p \in Seq(Range(Digit)) /\ Len(p) = Decimals
  BY PartsOf, PaddedIs
<1>2. /\ Whole(neg, n) \in Seq(Chars) /\ m = Len(Whole(neg, n)) + 1 /\ m \in Nat /\ m > 0
      /\ Whole(neg, n) \in Seq(Range(Digit) \cup {"-"})
  <2>1. /\ Whole(neg, n) \in Seq(Chars) /\ Len(Whole(neg, n)) \in Nat
        /\ Whole(neg, n) \in Seq(Range(Digit) \cup {"-"})
    BY WholeIs
  <2> QED
    BY <2>1
<1>3. ASSUME NEW k \in 0 .. Decimals
      PROVE  /\ UpTo(neg, n, k) \in Seq(Chars) /\ Len(UpTo(neg, n, k)) = m + k
             /\ \A i \in 1 .. m - 1 : UpTo(neg, n, k)[i] = Whole(neg, n)[i]
             /\ UpTo(neg, n, k)[m] = "." /\ \A i \in 1 .. k : UpTo(neg, n, k)[m + i] = p[i]
  <2>1. UpTo(neg, n, k) \in Seq(Chars) /\ Len(UpTo(neg, n, k)) = m + k
    BY UpToIs
  <2>2. \A i \in 1 .. m - 1 : UpTo(neg, n, k)[i] = Whole(neg, n)[i]
    BY UpToIs
  <2>3. UpTo(neg, n, k)[m] = "."
    BY UpToIs
  <2>4. \A i \in 1 .. k : UpTo(neg, n, k)[m + i] = p[i]
    BY UpToIs
  <2> QED
    BY <2>1, <2>2, <2>3, <2>4
<1>4. \A k \in 1 .. Decimals : p[k] \in Range(Digit)
  BY PaddedIs
<1>5. Printed(neg, n) = text
  <2>1. SubSeq(p, 1, Decimals) = p
    <3> HIDE DEF p
    <3> QED
      BY <1>1
  <2> QED
    BY <2>1 DEF Printed, UpTo, Whole
<1> HIDE DEF p, m
<1>6. /\ text \in Seq(Chars) /\ Len(text) = m + Decimals /\ text[m] = "."
      /\ \A i \in 1 .. m - 1 : text[i] = Whole(neg, n)[i]
      /\ \A i \in 1 .. Decimals : text[m + i] = p[i]
  BY <1>1, <1>3
<1> HIDE DEF text
<1>7. m \in I
  BY <1>1, <1>2, <1>6
<1>8. Max(I) \in I /\ \A i \in I : i <= Max(I)
  <2>1. I \in SUBSET (1 .. Len(text)) /\ Len(text) \in Nat
    BY <1>1, <1>2, <1>6
  <2> HIDE DEF I
  <2> QED
    BY <1>7, <2>1, LargestExists
<1>9. LastNot(text, "0") = Max(I)
  BY <1>7 DEF LastNot, SelectLastInSeq
<1>10. PICK k \in 0 .. Decimals : Max(I) = m + k
  <2>1. Max(I) \in 1 .. m + Decimals /\ m <= Max(I)
    BY <1>6, <1>7, <1>8
  <2>2. Max(I) - m \in 0 .. Decimals /\ Max(I) = m + (Max(I) - m)
    <3> HIDE DEF I
    <3> QED
      BY <1>1, <1>2, <2>1
  <2> HIDE DEF I
  <2> QED
    BY <2>2
<1>11. text[m + k] # "0" /\ \A i \in m + k + 1 .. m + Decimals : text[i] = "0"
  <2>1. text[m + k] # "0"
    BY <1>8, <1>10
  <2>2. ASSUME NEW i \in m + k + 1 .. m + Decimals, text[i] # "0" PROVE FALSE
    <3>1. i \in 1 .. Len(text) /\ ~(i <= m + k)
      BY <1>1, <1>2, <1>6
    <3>2. i \in I
      BY <2>2, <3>1
    <3> HIDE DEF I
    <3> QED
      BY <1>8, <1>10, <3>1, <3>2
  <2> QED
    BY <2>1, <2>2
<1> HIDE DEF I
<1>12. SubSeq(text, 1, m + k) = UpTo(neg, n, k)
  <2> DEFINE t == SubSeq(text, 1, m + k)
  <2>1. t \in Seq(Chars) /\ Len(t) = m + k /\ \A i \in 1 .. m + k : t[i] = text[i]
    BY <1>1, <1>2, <1>6
  <2> HIDE DEF t
  <2>2. UpTo(neg, n, k) \in Seq(Chars) /\ Len(UpTo(neg, n, k)) = m + k
    BY <1>3
  <2>3. ASSUME NEW i \in 1 .. Len(t) PROVE t[i] = UpTo(neg, n, k)[i]
    <3>1. t[i] = text[i]
      BY <2>1
    <3>2. CASE i \in 1 .. m - 1
      BY <1>3, <1>6, <3>1, <3>2
    <3>4. CASE i = m
      BY <1>3, <1>6, <3>1, <3>4
    <3>3. CASE i > m
      <4>1. PICK l \in 1 .. k : i = m + l
        <5>1. i - m \in 1 .. k /\ i = m + (i - m)
          BY <1>2, <2>1, <3>3
        <5> QED
          BY <5>1
      <4>2. l \in 1 .. Decimals
        BY <1>1
      <4> QED
        BY <1>3, <1>6, <3>1, <4>1, <4>2
    <3> QED
      BY <1>2, <2>1, <3>2, <3>3, <3>4
  <2>4. t = UpTo(neg, n, k)
    BY <2>1, <2>2, <2>3, SeqEqual
  <2> QED
    BY <2>4 DEF t
<1>13. Last(UpTo(neg, n, k)) = text[m + k]
  <2>1. Last(UpTo(neg, n, k)) = UpTo(neg, n, k)[m + k]
    BY <1>3 DEF Last
  <2>2. k = 0 \/ k \in 1 .. k
    OBVIOUS
  <2> QED
    BY <1>2, <1>3, <1>6, <2>1, <2>2
<1>14. Trimmed(Printed(neg, n)) = IF text[m + k] = "." THEN Front(UpTo(neg, n, k)) ELSE UpTo(neg, n, k)
  BY <1>5, <1>9, <1>10, <1>12, <1>13 DEF Trimmed
<1>15. k = 0 => text[m + k] = "." /\ Front(UpTo(neg, n, k)) = Whole(neg, n)
  <2> SUFFICES ASSUME k = 0 PROVE text[m] = "." /\ Front(UpTo(neg, n, 0)) = Whole(neg, n) /\ m + 0 = m
    OBVIOUS
  <2> DEFINE t == SubSeq(UpTo(neg, n, 0), 1, m - 1)
  <2>1. UpTo(neg, n, 0) \in Seq(Chars) /\ Len(UpTo(neg, n, 0)) = m /\ \A i \in 1 .. m - 1 : UpTo(neg, n, 0)[i] = Whole(neg, n)[i]
    BY <1>2, <1>3
  <2>2. t \in Seq(Chars) /\ Len(t) = m - 1 /\ \A i \in 1 .. m - 1 : t[i] = UpTo(neg, n, 0)[i]
    BY <1>2, <2>1
  <2>3. Front(UpTo(neg, n, 0)) = t
    BY <2>1 DEF Front
  <2> HIDE DEF t
  <2>4. t = Whole(neg, n)
    <3>1. Len(t) = Len(Whole(neg, n)) /\ \A i \in 1 .. Len(t) : t[i] = Whole(neg, n)[i]
      BY <1>2, <2>1, <2>2
    <3> QED
      BY <1>2, <2>2, <3>1, SeqEqual
  <2> QED
    BY <1>2, <1>6, <2>3, <2>4
<1>16. k > 0 => text[m + k] # "." /\ p[k] # "0"
  <2>1. k > 0 => text[m + k] = p[k] /\ p[k] \in Range(Digit)
    BY <1>1, <1>4, <1>6
  <2> QED
    BY <1>11, <2>1, DigitValues
<1>17. ASSUME NEW j \in k + 1 .. Decimals PROVE p[j] = "0"
  <2>1. j \in 1 .. Decimals /\ m + j \in m + k + 1 .. m + Decimals
    BY <1>1, <1>2
  <2> QED
    BY <1>6, <1>11, <2>1
<1>18. Trimmed(Printed(neg, n)) = IF k = 0 THEN Whole(neg, n) ELSE UpTo(neg, n, k)
  BY <1>14, <1>15, <1>16
<1> QED
  BY <1>16, <1>17, <1>18 DEF p

-----------------------------------------------------------------------------
(* The place of the point.                                                 *)
LEMMA PointBehind ==
  ASSUME NEW s \in Seq(Chars), NEW m \in 1 .. Len(s), s[m] = ".",
         \A i \in 1 .. Len(s) : i # m => s[i] # "."
  PROVE  Behind(s) = Len(s) - m
<1>1. DOMAIN s = 1 .. Len(s)
  OBVIOUS
<1>2. "." \in Range(s)
  BY <1>1 DEF Range
<1>3. (CHOOSE k \in DOMAIN s : s[k] = ".") = m
  BY <1>1
<1> QED
  BY <1>2, <1>3 DEF Behind

LEMMA NoPoint ==
  ASSUME NEW s \in Seq(Range(Digit) \cup {"-"})
  PROVE  "." \notin Range(s) /\ Behind(s) = 0
<1>1. \A i \in DOMAIN s : s[i] \in Range(Digit) \cup {"-"}
  OBVIOUS
<1>2. "." \notin Range(Digit) \cup {"-"}
  BY DigitValues
<1>3. "." \notin Range(s)
  BY <1>1, <1>2 DEF Range
<1> QED
  BY <1>3 DEF Behind

(* The text of a number is that number, with no more than it takes.        *)
LEMMA GeneralSpells ==
  ASSUME NEW neg \in BOOLEAN, NEW n \in Nat
  PROVE  /\ NumberOf(Trimmed(Printed(neg, n))) = n * (IF neg THEN -1 ELSE 1)
         /\ "." \in Range(Trimmed(Printed(neg, n))) => Last(Trimmed(Printed(neg, n))) \notin {"0", "."}
<1> DEFINE p == Padded(n % Unit)
           m == Len(Whole(neg, n)) + 1
           sign == IF neg THEN -1 ELSE 1
<1>1. PICK k \in 0 .. Decimals :
        /\ Trimmed(Printed(neg, n)) = IF k = 0 THEN Whole(neg, n) ELSE UpTo(neg, n, k)
        /\ k > 0 => p[k] # "0"
        /\ \A j \in k + 1 .. Decimals : p[j] = "0"
  BY GeneralIs
<1>2. n = Leading(n, k) * TenTo[Decimals - k]
  BY <1>1, ZerosBehind
<1>4. /\ Whole(neg, n) \in Seq(Range(Digit) \cup {"-"}) /\ Whole(neg, n) \in Seq(Chars)
      /\ Len(Whole(neg, n)) > 0 /\ (Whole(neg, n)[1] = "-" <=> neg)
      /\ Spells(Whole(neg, n), Leading(n, 0)) /\ Len(Whole(neg, n)) \in Nat
  BY WholeIs
<1>5. Decimals \in Nat
  BY PartsOf
<1>6. CASE k = 0
  <2>1. Trimmed(Printed(neg, n)) = Whole(neg, n)
    BY <1>1, <1>6
  <2>2. "." \notin Range(Whole(neg, n)) /\ Behind(Whole(neg, n)) = 0
    BY <1>4, NoPoint
  <2>3. Head(Whole(neg, n)) = "-" <=> neg
    BY <1>4
  <2>4. NumberOf(Whole(neg, n))
          = Leading(n, 0) * TenTo[Decimals - Behind(Whole(neg, n))] * (IF Head(Whole(neg, n)) = "-" THEN -1 ELSE 1)
    BY <1>4, NumberRead
  <2>5. NumberOf(Whole(neg, n)) = n * sign
    BY <1>2, <1>6, <2>2, <2>3, <2>4
  <2> QED
    BY <2>1, <2>2, <2>5
<1>7. CASE k # 0
  <2> DEFINE s == UpTo(neg, n, k)
  <2>1. Trimmed(Printed(neg, n)) = s /\ k \in 1 .. Decimals /\ k > 0
    BY <1>1, <1>5, <1>7
  <2>2. /\ s \in Seq(Chars) /\ Len(s) = m + k /\ m \in Nat
        /\ \A j \in 1 .. m - 1 : s[j] = Whole(neg, n)[j]
        /\ s[m] = "." /\ \A j \in 1 .. k : s[m + j] = p[j]
    BY UpToIs
  <2>3. \A j \in 1 .. Decimals : p[j] \in Range(Digit)
    BY PaddedIs
  <2>4. Spells(s, Leading(n, k))
    BY UpToSpells
  <2>5. m > 1 /\ m = Len(Whole(neg, n)) + 1
    BY <1>4
  <2> HIDE DEF s, p, m
  <2>6. ASSUME NEW i \in 1 .. Len(s), i # m PROVE s[i] # "."
    <3>1. CASE i \in 1 .. m - 1
      <4>1. Whole(neg, n)[i] \in Range(Digit) \cup {"-"}
        BY <1>4, <2>5, <3>1
      <4> QED
        BY <2>2, <3>1, <4>1, DigitValues
    <3>2. CASE i > m
      <4>1. PICK l \in 1 .. k : i = m + l
        <5>1. i - m \in 1 .. k /\ i = m + (i - m)
          BY <2>2, <3>2
        <5> QED
          BY <5>1
      <4>2. s[i] = p[l] /\ l \in 1 .. Decimals
        BY <1>5, <2>2, <4>1
      <4> QED
        BY <2>3, <4>2, DigitValues
    <3> QED
      BY <2>2, <2>6, <3>1, <3>2
  <2>7. Behind(s) = k
    <3>1. m \in 1 .. Len(s) /\ Len(s) - m = k
      BY <2>1, <2>2, <2>5
    <3> QED
      BY <2>2, <2>6, <3>1, PointBehind
  <2>8. Head(s) = "-" <=> neg
    <3>1. 1 \in 1 .. m - 1 /\ Len(s) > 0
      BY <2>1, <2>2, <2>5
    <3>2. Head(s) = s[1]
      BY <2>2, <3>1
    <3> QED
      BY <1>4, <2>2, <3>1, <3>2
  <2>9. NumberOf(s) = Leading(n, k) * TenTo[Decimals - Behind(s)] * (IF Head(s) = "-" THEN -1 ELSE 1)
    BY <2>2, <2>4, NumberRead
  <2>10. NumberOf(s) = n * sign
    BY <1>2, <2>7, <2>8, <2>9
  <2>11. Last(s) \notin {"0", "."}
    <3>1. k \in 1 .. k
      BY <2>1
    <3>2. Last(s) = p[k]
      BY <2>2, <3>1 DEF Last
    <3>3. p[k] # "0" /\ p[k] \in Range(Digit)
      BY <1>1, <2>1, <2>3 DEF p
    <3> QED
      BY <3>2, <3>3, DigitValues
  <2> QED
    BY <2>1, <2>10, <2>11
<1> QED
  BY <1>6, <1>7

LEMMA DigitsAlone ==
  ASSUME NEW n \in Nat
  PROVE  NumberOf(Digits[n]) = n * Unit /\ "." \notin Range(Digits[n])
<1> DEFINE d == Digits[n]
<1>1. d \in Seq(Range(Digit)) /\ d # <<>>
  BY DigitSteps
<1>2. <<>> \in Signs
  BY DEF Signs
<1>3. Spells(<<>> \o d, n) /\ <<>> \o d \in Seq(Chars)
  BY <1>2, DigitsSpell
<1> HIDE DEF d
<1>4. <<>> \o d = d
  BY <1>1
<1>5. d \in Seq(Range(Digit) \cup {"-"})
  BY <1>1
<1>6. "." \notin Range(d) /\ Behind(d) = 0
  BY <1>5, NoPoint
<1>7. Head(d) # "-"
  <2>1. Head(d) \in Range(Digit)
    BY <1>1
  <2> QED
    BY <2>1, DigitValues
<1>8. NumberOf(d) = n * TenTo[Decimals - Behind(d)] * (IF Head(d) = "-" THEN -1 ELSE 1)
  BY <1>3, <1>4, NumberRead
<1>9. Decimals - 0 = Decimals /\ n * Unit \in Nat
  <2>1. Unit \in Nat /\ Decimals \in Nat
    BY PartsOf
  <2> QED
    BY <2>1
<1>10. NumberOf(d) = n * Unit * 1
  <2>1. TenTo[Decimals - Behind(d)] = Unit
    BY <1>6, <1>9 DEF Unit
  <2>2. (IF Head(d) = "-" THEN -1 ELSE 1) = 1
    BY <1>7
  <2> QED
    BY <1>8, <2>1, <2>2
<1> QED
  BY <1>6, <1>9, <1>10 DEF d

-----------------------------------------------------------------------------
(* Arithmetic of doubles.                                                  *)
LEMMA NearestIs ==
  ASSUME NEW a \in Nat, NEW b \in Nat, b > 0
  PROVE  /\ Nearest(a, b) \in Nat /\ 2 * Abs(Nearest(a, b) * b - a) <= b
         /\ b = 1 => Nearest(a, b) = a
<1>1. PICK q \in Nat, r \in Nat : q = a \div b /\ r = a % b /\ r < b /\ a = b * q + r
  <2>1. a \div b \in Nat /\ a % b \in Nat /\ a % b < b /\ a = b * (a \div b) + (a % b)
    OBVIOUS
  <2> QED
    BY <2>1
<1>2. PICK w \in Nat : w = q * b /\ a = w + r /\ (q + 1) * b = w + b
  <2>1. q * b \in Nat /\ a = q * b + r /\ (q + 1) * b = q * b + b
    BY <1>1
  <2> QED
    BY <2>1
<1>3. Nearest(a, b) \in {q, q + 1} /\ (Nearest(a, b) = q + 1 => 2 * r >= b) /\ (Nearest(a, b) = q => 2 * r <= b)
  BY <1>1 DEF Nearest
<1>4. 2 * Abs(Nearest(a, b) * b - a) <= b
  <2>1. CASE Nearest(a, b) = q
    <3>1. w - a = -r
      BY <1>2
    <3> QED
      BY <1>1, <1>2, <1>3, <2>1, <3>1 DEF Abs
  <2>2. CASE Nearest(a, b) = q + 1
    <3>1. (w + b) - a = b - r
      BY <1>2
    <3> QED
      BY <1>1, <1>2, <1>3, <2>2, <3>1 DEF Abs
  <2> QED
    BY <1>3, <2>1, <2>2
<1>5. ASSUME b = 1 PROVE Nearest(a, b) = a
  <2>1. q = a /\ r = 0
    BY <1>1, <1>5
  <2> QED
    BY <1>1, <1>3, <1>5, <2>1
<1> QED
  BY <1>3, <1>4, <1>5

LEMMA HalfFacts ==
  ASSUME NEW n \in Nat
  PROVE  n \div 2 \in Nat /\ 2 * (n \div 2) <= n /\ (n > 0 => n \div 2 < n)
OBVIOUS

(* The last place of a number of more than Bits bits is small beside it.   *)
LEMMA LastPlaceIs ==
  ASSUME NEW n \in Nat
  PROVE  /\ LastPlace[n] \in Nat /\ LastPlace[n] > 0
         /\ LastPlace[n] = 1 \/ TwoTo[Bits] * LastPlace[n] <= 2 * n
<1> DEFINE base == [m \in Nat |-> 1]
           down == [m \in Nat |-> m \div 2]
           step == [p \in Nat \X Nat |-> 2 * p[2]]
           IsLastPlace(f) == f = [m \in Nat |-> IF m < TwoTo[Bits] THEN 1 ELSE 2 * f[m \div 2]]
<1>1. PICK P \in Nat : P = TwoTo[Bits] /\ P > 0 /\ P - 1 \in Nat
  <2>1. Bits \in Nat
    BY SizesAssumption
  <2>2. TwoTo[Bits] \in Nat /\ TwoTo[Bits] > 0
    BY <2>1, Doubling
  <2>3. TwoTo[Bits] - 1 \in Nat
    BY <2>2
  <2> QED
    BY <2>2, <2>3
<1>2. base \in [Nat -> Nat] /\ down \in [Nat -> Nat] /\ step \in [Nat \X Nat -> Nat]
  BY HalfFacts
<1>3. \A m \in Nat : m > P - 1 => down[m] < m
  BY <1>1, HalfFacts
<1>4. PICK f \in [Nat -> Nat] : Descends(f, P - 1, base, down, step)
  <2> HIDE DEF base, down, step
  <2> QED
    BY <1>1, <1>2, <1>3, DescentExists
<1>5. ASSUME NEW m \in Nat PROVE f[m] = IF m < TwoTo[Bits] THEN 1 ELSE 2 * f[m \div 2]
  <2>1. f[m] = IF m <= P - 1 THEN base[m] ELSE step[<<m, f[down[m]]>>]
    <3> HIDE DEF base, down, step
    <3> QED
      BY <1>4 DEF Descends
  <2>2. base[m] = 1 /\ down[m] = m \div 2 /\ m \div 2 \in Nat
    BY HalfFacts
  <2>3. step[<<m, f[m \div 2]>>] = 2 * f[m \div 2]
    BY <2>2
  <2>4. m <= P - 1 <=> m < TwoTo[Bits]
    BY <1>1
  <2> HIDE DEF base, down, step
  <2> QED
    BY <2>1, <2>2, <2>3, <2>4
<1>6. IsLastPlace(LastPlace)
  <2>1. IsLastPlace(f)
    BY <1>5
  <2>2. LastPlace = CHOOSE g : IsLastPlace(g)
    BY DEF LastPlace
  <2> HIDE DEF IsLastPlace
  <2> QED
    BY <2>1, <2>2
<1>7. \A m \in Nat : LastPlace[m] = IF m < P THEN 1 ELSE 2 * LastPlace[m \div 2]
  BY <1>1, <1>6
<1> HIDE DEF IsLastPlace
<1> DEFINE Small(m) == /\ LastPlace[m] \in Nat /\ LastPlace[m] > 0
                       /\ LastPlace[m] = 1 \/ P * LastPlace[m] <= 2 * m
           T == {m \in Nat : Small(m)}
<1>8. T = Nat
  <2>1. ASSUME NEW m \in Nat, \A k \in Nat : k < m => k \in T PROVE m \in T
    <3>1. CASE m < P
      BY <1>7, <3>1
    <3>2. CASE ~(m < P)
      <4>1. PICK h \in Nat : h = m \div 2 /\ 2 * h <= m /\ h < m
        BY <1>1, <3>2, HalfFacts
      <4>2. Small(h)
        BY <2>1, <4>1
      <4>3. PICK l \in Nat : l = LastPlace[h] /\ l > 0 /\ (l = 1 \/ P * l <= 2 * h)
        BY <4>2
      <4>4. LastPlace[m] = 2 * l
        BY <1>7, <3>2, <4>1, <4>3
      <4>5. P * (2 * l) <= 2 * m
        <5>1. P * (2 * l) = 2 * (P * l) /\ P * l \in Nat /\ P * 1 = P
          OBVIOUS
        <5> QED
          BY <3>2, <4>1, <4>3, <5>1
      <4> QED
        BY <4>3, <4>4, <4>5
    <3> QED
      BY <3>1, <3>2
  <2>2. T \in SUBSET Nat
    OBVIOUS
  <2> HIDE DEF T
  <2> QED
    BY <2>1, <2>2, StrongInduction
<1>9. n \in T
  BY <1>8, Zenon
<1> QED
  BY <1>1, <1>9

LEMMA Scaled ==
  ASSUME NEW x \in Int, NEW y \in Int, NEW c \in Nat, x <= y
  PROVE  x * c <= y * c
<1>1. PICK d \in Nat : y = x + d
  <2>1. y - x \in Nat /\ y = x + (y - x)
    OBVIOUS
  <2> QED
    BY <2>1
<1>2. y * c = x * c + d * c /\ d * c \in Nat /\ x * c \in Int
  BY <1>1
<1> QED
  BY <1>2

LEMMA Unscaled ==
  ASSUME NEW x \in Int, NEW y \in Int, NEW c \in Nat, c > 0, x * c <= y * c
  PROVE  x <= y
<1> SUFFICES ASSUME x > y PROVE FALSE
  OBVIOUS
<1>1. y + 1 <= x
  OBVIOUS
<1>2. (y + 1) * c <= x * c
  BY <1>1, Scaled
<1>3. (y + 1) * c = y * c + c /\ y * c \in Int
  OBVIOUS
<1> QED
  BY <1>2, <1>3

LEMMA AbsScaled ==
  ASSUME NEW x \in Int, NEW c \in Nat
  PROVE  Abs(x * c) = Abs(x) * c
<1>1. CASE x < 0
  <2>1. (-x) * c = -(x * c) /\ (-x) * c \in Nat
    BY <1>1
  <2> QED
    BY <1>1, <2>1 DEF Abs
<1>2. CASE ~(x < 0)
  <2>1. x * c \in Nat
    BY <1>2
  <2> QED
    BY <1>2, <2>1 DEF Abs
<1> QED
  BY <1>1, <1>2

LEMMA AbsFacts ==
  ASSUME NEW x \in Int, NEW y \in Int
  PROVE  /\ Abs(x) \in Nat /\ Abs(x + y) <= Abs(x) + Abs(y) /\ Abs(-x) = Abs(x)
         /\ Abs(x) < 1 => x = 0
BY DEF Abs

(* Rounding a number changes it by less than one part in 2^Bits.           *)
LEMMA RoundedIs ==
  ASSUME NEW n \in Nat
  PROVE  Rounded(n) \in Nat /\ Abs(Rounded(n) - n) * TwoTo[Bits] <= n
<1>1. PICK l \in Nat : l = LastPlace[n] /\ l > 0 /\ (l = 1 \/ TwoTo[Bits] * l <= 2 * n)
  BY LastPlaceIs
<1>2. PICK P \in Nat : P = TwoTo[Bits]
  BY SizesAssumption, Doubling
<1>3. PICK q \in Nat : q = Nearest(n, l) /\ 2 * Abs(q * l - n) <= l /\ (l = 1 => q = n)
  BY <1>1, NearestIs
<1>4. PICK w \in Nat : w = q * l /\ Rounded(n) = w
  <2>1. q * l \in Nat
    OBVIOUS
  <2> QED
    BY <1>1, <1>3, <2>1 DEF Rounded
<1>5. PICK e \in Nat : e = Abs(w - n) /\ 2 * e <= l
  BY <1>3, <1>4 DEF Abs
<1>6. e * P <= n
  <2>1. CASE l = 1
    <3>1. w = n
      BY <1>3, <1>4, <2>1
    <3>2. e = 0
      BY <1>5, <3>1 DEF Abs
    <3> QED
      BY <3>2
  <2>2. CASE P * l <= 2 * n
    <3>1. (2 * e) * P <= l * P
      BY <1>5, Scaled
    <3>2. (2 * e) * P = 2 * (e * P) /\ l * P = P * l /\ e * P \in Nat /\ l * P \in Nat
      OBVIOUS
    <3> QED
      BY <2>2, <3>1, <3>2
  <2> QED
    BY <1>1, <1>2, <2>1, <2>2
<1> QED
  BY <1>2, <1>4, <1>5, <1>6

(* 0.01 times a number is not quite its hundredth part.                    *)
LEMMA HundredthIs ==
  ASSUME NEW d, d.top \in Nat, d.bottom \in Nat, d.bottom > 0
  PROVE  LET h == Hundredth(d)
             K == 64 * TwoTo[Bits]
         IN  /\ h.top \in Nat /\ h.bottom = d.bottom * K
             /\ Abs(100 * h.top - d.top * K) <= 128 * d.top
<1>1. PICK P \in Nat : P = TwoTo[Bits] /\ P >= 64
  <2>1. \A k \in Nat : TwoTo[k] \in Nat /\ TwoTo[k] > 0 /\ TwoTo[k + 1] = 2 * TwoTo[k]
    BY Doubling
  <2>2. 0 + 1 = 1 /\ 1 + 1 = 2 /\ 2 + 1 = 3 /\ 3 + 1 = 4 /\ 4 + 1 = 5 /\ 5 + 1 = 6
    OBVIOUS
  <2>3. TwoTo[0] = 1 /\ TwoTo[1] = 2 /\ TwoTo[2] = 4 /\ TwoTo[3] = 8
    BY <2>1, <2>2, Doubling
  <2>4. TwoTo[4] = 16 /\ TwoTo[5] = 32 /\ TwoTo[6] = 64
    BY <2>1, <2>2, <2>3
  <2> DEFINE T == {k \in Nat : TwoTo[k + 6] >= 64}
  <2>5. T = Nat
    <3>1. 0 \in T
      BY <2>4
    <3>2. ASSUME NEW k \in T PROVE k + 1 \in T
      <4>1. k + 6 \in Nat /\ (k + 1) + 6 = (k + 6) + 1 /\ k + 1 \in Nat
        OBVIOUS
      <4>2. PICK m \in Nat : m = TwoTo[k + 6] /\ m >= 64 /\ TwoTo[(k + 1) + 6] = 2 * m
        BY <2>1, <4>1
      <4> QED
        BY <4>1, <4>2
    <3>3. T \in SUBSET Nat
      OBVIOUS
    <3> HIDE DEF T
    <3> QED
      BY <3>1, <3>2, <3>3, NatSetInduction
  <2>6. Bits - 6 \in Nat /\ (Bits - 6) + 6 = Bits /\ Bits \in Nat
    BY SizesAssumption
  <2>7. Bits - 6 \in T
    BY <2>5, <2>6, Zenon
  <2> QED
    BY <2>1, <2>6, <2>7
<1>2. PICK t \in Nat : t = d.top
  OBVIOUS
<1>3. PICK K \in Nat : K = 64 * P /\ K > 0
  <2>1. 64 * P \in Nat /\ 64 * P > 0
    BY <1>1
  <2> QED
    BY <2>1
<1>4. PICK c \in Nat : c = Cent.top /\ Cent.bottom = K /\ 2 * Abs(c * 100 - K) <= 100
  <2>1. Nearest(K, 100) \in Nat /\ 2 * Abs(Nearest(K, 100) * 100 - K) <= 100
    BY NearestIs
  <2> QED
    BY <1>1, <1>3, <2>1 DEF Cent
<1>5. PICK T \in Nat : T = t * c
  OBVIOUS
<1>6. PICK R \in Nat : R = Rounded(T) /\ Abs(R - T) * P <= T
  BY <1>1, RoundedIs
<1>7. Hundredth(d).top = R /\ Hundredth(d).bottom = d.bottom * K
  BY <1>2, <1>4, <1>5, <1>6 DEF Hundredth
<1>8. Abs(100 * T - t * K) <= 50 * t
  <2>1. 100 * T - t * K = (c * 100 - K) * t
    BY <1>5
  <2>2. Abs(c * 100 - K) <= 50 /\ Abs(c * 100 - K) \in Int
    BY <1>4 DEF Abs
  <2>3. Abs((c * 100 - K) * t) = Abs(c * 100 - K) * t
    BY AbsScaled
  <2> QED
    BY <2>1, <2>2, <2>3, Scaled
<1>9. 100 * T <= t * K + 50 * t
  <2>1. t * K \in Nat
    OBVIOUS
  <2> QED
    BY <1>8, <2>1 DEF Abs
<1>10. Abs(100 * R - 100 * T) <= 65 * t
  <2>1. PICK e \in Nat : e = Abs(R - T) /\ e * P <= T
    BY <1>6 DEF Abs
  <2>2. Abs(100 * R - 100 * T) = 100 * e
    BY <2>1 DEF Abs
  <2>3. t * K = (64 * t) * P /\ (64 * t) * P \in Nat
    BY <1>3
  <2>4. 50 * t <= t * P
    <3>1. 50 * t <= P * t
      BY <1>1, Scaled
    <3> QED
      BY <3>1
  <2>5. (100 * e) * P <= (65 * t) * P
    <3>1. (100 * e) * P = 100 * (e * P) /\ e * P \in Nat /\ (65 * t) * P = (64 * t) * P + t * P /\ t * P \in Nat
      OBVIOUS
    <3> QED
      BY <1>9, <2>1, <2>3, <2>4, <3>1
  <2>6. 100 * e <= 65 * t
    BY <1>1, <2>5, Unscaled
  <2> QED
    BY <2>2, <2>6
<1>11. Abs(100 * R - t * K) <= 128 * t
  <2>1. PICK m \in Nat : m = t * K
    OBVIOUS
  <2>2. Abs(100 * T - m) <= 50 * t
    BY <1>8, <2>1
  <2>3. Abs(100 * R - m) <= 128 * t
    BY <1>10, <2>2 DEF Abs
  <2> QED
    BY <2>1, <2>3
<1> QED
  BY <1>1, <1>2, <1>3, <1>7, <1>11

LEMMA BelowQuotient ==
  ASSUME NEW x \in Int, NEW y \in Nat, NEW c \in Nat, c > 0
  PROVE  x * c <= y <=> x <= y \div c
<1>1. PICK q \in Nat, r \in Nat : q = y \div c /\ r < c /\ y = c * q + r
  <2>1. y \div c \in Nat /\ y % c \in Nat /\ y % c < c /\ y = c * (y \div c) + (y % c)
    OBVIOUS
  <2> QED
    BY <2>1
<1>2. q * c = c * q /\ q * c \in Nat /\ (q + 1) * c = q * c + c /\ x * c \in Int
  BY <1>1
<1>3. ASSUME x <= q PROVE x * c <= y
  BY <1>1, <1>2, <1>3, Scaled
<1>4. ASSUME x * c <= y PROVE x <= q
  <2> SUFFICES ASSUME x > q PROVE FALSE
    OBVIOUS
  <2>1. q + 1 <= x /\ q + 1 \in Int
    OBVIOUS
  <2>2. (q + 1) * c <= x * c
    BY <2>1, Scaled
  <2> QED
    BY <1>1, <1>2, <1>4, <2>2
<1> QED
  BY <1>1, <1>3, <1>4

(* What is printed of a double is near it.                                 *)
Signed(d) == IF d.negative THEN -d.top ELSE d.top

LEMMA GeneralNear ==
  ASSUME NEW d, d.negative \in BOOLEAN, d.top \in Nat, d.bottom \in Nat, d.bottom > 0
  PROVE  LET t == NumberOf(General(d)) IN
         /\ t \in Int /\ 2 * Abs(t * d.bottom - Signed(d) * Unit) <= d.bottom
         /\ "." \in Range(General(d)) => Last(General(d)) \notin {"0", "."}
<1>1. PICK U \in Nat : U = Unit
  BY PartsOf
<1>2. PICK a \in Nat : a = d.top * U
  OBVIOUS
<1>3. PICK b \in Nat : b = d.bottom /\ b > 0
  OBVIOUS
<1>4. PICK n \in Nat : n = Nearest(a, b) /\ 2 * Abs(n * b - a) <= b
  BY <1>3, NearestIs
<1>5. General(d) = Trimmed(Printed(d.negative, n))
  BY <1>1, <1>2, <1>3, <1>4 DEF General
<1>6. /\ NumberOf(General(d)) = n * (IF d.negative THEN -1 ELSE 1)
      /\ "." \in Range(General(d)) => Last(General(d)) \notin {"0", "."}
  BY <1>4, <1>5, GeneralSpells, Zenon
<1>7. PICK t : t = NumberOf(General(d))
  OBVIOUS
<1>8. CASE d.negative
  <2>1. t = -n /\ Signed(d) * U = -a
    <3>1. n * (-1) = -n /\ Signed(d) = -d.top /\ (-d.top) * U = -(d.top * U)
      BY <1>8 DEF Signed
    <3>2. t = n * (-1)
      BY <1>6, <1>7, <1>8
    <3> QED
      BY <1>2, <3>1, <3>2
  <2>2. (-n) * b = -(n * b) /\ n * b \in Nat
    OBVIOUS
  <2>3. -(n * b) - (-a) = -(n * b - a) /\ n * b - a \in Int
    BY <2>2
  <2>4. 2 * Abs((-n) * b - (-a)) <= b
    BY <1>4, <2>2, <2>3, AbsFacts
  <2>5. 2 * Abs(t * b - Signed(d) * U) <= b
    BY <2>1, <2>4
  <2> QED
    BY <1>1, <1>3, <1>6, <1>7, <2>1, <2>5
<1>9. CASE ~d.negative
  <2>1. t = n /\ Signed(d) * U = a
    <3>1. n * 1 = n /\ Signed(d) = d.top
      BY <1>9 DEF Signed
    <3>2. t = n * 1
      BY <1>6, <1>7, <1>9
    <3> QED
      BY <1>2, <3>1, <3>2
  <2> QED
    BY <1>1, <1>3, <1>4, <1>6, <1>7, <2>1
<1> QED
  BY <1>8, <1>9

(* So is what is printed of a hundredth part.                              *)
LEMMA CentNear ==
  ASSUME NEW t \in Int, NEW S \in Int, NEW p \in Int, NEW b \in Nat, NEW U \in Nat,
         NEW P \in Nat, P > 0, NEW K \in Nat, K = 64 * P,
         2 * Abs(t * (b * K) - S * U) <= b * K, Abs(100 * S - p * K) <= 128 * Abs(p)
  PROVE  2 * Abs(t * (b * 100) - p * U) <= b * 100 + (4 * Abs(p) * U) \div P
<1>1. PICK A \in Int : A = t * (b * K) - S * U /\ 2 * Abs(A) <= b * K
  <2>1. t * (b * K) - S * U \in Int
    <3>1. b * K \in Nat /\ S * U \in Int
      OBVIOUS
    <3>2. t * (b * K) \in Int
      BY <3>1
    <3> QED
      BY <3>1, <3>2
  <2> QED
    BY <2>1
<1>2. PICK C \in Int : C = 100 * S - p * K /\ Abs(C) <= 128 * Abs(p)
  <2>1. 100 * S - p * K \in Int
    <3>1. p * K \in Int
      OBVIOUS
    <3> QED
      BY <3>1
  <2> QED
    BY <2>1
<1>3. PICK D \in Int : D = t * (b * 100) - p * U
  <2>1. PICK k \in Nat : k = b * 100
    OBVIOUS
  <2>2. PICK x \in Int, y \in Int : x = t * k /\ y = p * U
    OBVIOUS
  <2>3. t * (b * 100) - p * U = x - y /\ x - y \in Int
    BY <2>1, <2>2
  <2> QED
    BY <2>3
<1>4. PICK a \in Nat, c \in Nat, e \in Nat, q \in Nat :
        a = Abs(A) /\ c = Abs(C) /\ e = Abs(D) /\ q = Abs(p)
  BY AbsFacts
<1>5. D * K = A * 100 + C * U
  <2>1. D * K = (t * (b * 100)) * K - (p * U) * K
    BY <1>3
  <2>2. A * 100 = (t * (b * K)) * 100 - (S * U) * 100
    BY <1>1
  <2>3. C * U = (100 * S) * U - (p * K) * U
    BY <1>2
  <2>4. (t * (b * 100)) * K = (t * (b * K)) * 100 /\ (S * U) * 100 = (100 * S) * U
    OBVIOUS
  <2>5. (p * K) * U = (p * U) * K
    OBVIOUS
  <2>6. PICK x \in Int : x = (t * (b * K)) * 100
    OBVIOUS
  <2>7. PICK y \in Int : y = (S * U) * 100
    OBVIOUS
  <2>8. PICK z \in Int : z = (p * U) * K
    OBVIOUS
  <2>9. D * K = x - z /\ A * 100 = x - y /\ C * U = y - z
    BY <2>1, <2>2, <2>3, <2>4, <2>5, <2>6, <2>7, <2>8
  <2> QED
    BY <2>6, <2>7, <2>8, <2>9
<1>6. e * K <= a * 100 + c * U
  <2>1. Abs(D * K) = e * K /\ Abs(A * 100) = a * 100 /\ Abs(C * U) = c * U
    BY <1>4, AbsScaled
  <2>2. A * 100 \in Int /\ C * U \in Int
    OBVIOUS
  <2>3. Abs(A * 100 + C * U) <= Abs(A * 100) + Abs(C * U)
    BY <2>2, AbsFacts
  <2> QED
    BY <1>5, <2>1, <2>3
<1>7. c * U <= (128 * q) * U
  BY <1>2, <1>4, Scaled
<1>8. (2 * e - b * 100) * P <= 4 * q * U
  <2>1. PICK y \in Nat : y = q * U
    OBVIOUS
  <2>2. (128 * q) * U = 128 * y /\ 4 * q * U = 4 * y
    BY <2>1
  <2>3. PICK m \in Nat, n \in Nat : m = e * P /\ n = b * P
    OBVIOUS
  <2>4. e * K = 64 * m /\ b * K = 64 * n
    BY <2>3
  <2>5. c * U \in Nat
    OBVIOUS
  <2>6. 64 * m <= a * 100 + 128 * y /\ 2 * a <= 64 * n
    BY <1>1, <1>4, <1>6, <1>7, <2>2, <2>4, <2>5
  <2>7. (2 * e - b * 100) * P = 2 * m - 100 * n
    BY <2>3
  <2> QED
    BY <2>2, <2>6, <2>7
<1>9. 2 * e - b * 100 <= (4 * q * U) \div P
  <2>1. 2 * e - b * 100 \in Int /\ 4 * q * U \in Nat
    OBVIOUS
  <2> QED
    BY <1>8, <2>1, BelowQuotient
<1>10. PICK f \in Nat : f = (4 * q * U) \div P
  <2>1. 4 * q * U \in Nat
    OBVIOUS
  <2> QED
    BY <2>1
<1> QED
  BY <1>3, <1>4, <1>9, <1>10

(* What is near a number made for few enough units is those units.         *)
LEMMA ShortArrives ==
  ASSUME NEW t \in Int, NEW v \in Int, NEW p \in Int, NEW b \in Nat, b > 0, NEW U \in Nat,
         NEW V \in Nat, V >= 8, NEW P \in Nat, P = 8 * V, Abs(v) <= V,
         2 * Abs(t * b - p * U) <= b + (4 * Abs(p) * U) \div P,
         Abs(v * b - p * U) <= (Abs(v) * b) \div P
  PROVE  t = v
<1>1. PICK w \in Int : w = p * U
  OBVIOUS
<1>2. PICK x \in Int, z \in Int : x = t * b /\ z = v * b
  OBVIOUS
<1>3. PICK u \in Nat : u = Abs(w) /\ 4 * Abs(p) * U = 4 * u
  <2>1. Abs(p * U) = Abs(p) * U /\ Abs(p) \in Nat /\ Abs(p * U) \in Nat
    BY AbsScaled, AbsFacts
  <2> QED
    BY <1>1, <2>1
<1>4. PICK g \in Nat : g = Abs(z) /\ Abs(v) * b = g
  <2>1. Abs(v * b) = Abs(v) * b /\ Abs(v * b) \in Nat
    BY AbsScaled, AbsFacts
  <2> QED
    BY <1>2, <2>1
<1>5. PICK i \in Nat : i = (4 * u) \div P /\ i * P <= 4 * u
  <2>1. (4 * u) \div P \in Nat
    OBVIOUS
  <2> QED
    BY <2>1, BelowQuotient
<1>6. PICK j \in Nat : j = g \div P /\ j * P <= g
  <2>1. g \div P \in Nat
    OBVIOUS
  <2> QED
    BY <2>1, BelowQuotient
<1>7. 2 * Abs(x - w) <= b + i /\ Abs(z - w) <= j
  BY <1>1, <1>2, <1>3, <1>4, <1>5, <1>6
<1>8. g <= b * V
  <2>1. Abs(v) \in Nat
    BY AbsFacts
  <2>2. Abs(v) * b <= V * b
    BY <2>1, Scaled
  <2>3. V * b = b * V
    OBVIOUS
  <2> QED
    BY <1>4, <2>2, <2>3
<1>9. 8 * j <= b
  <2>1. j * P = (8 * j) * V
    OBVIOUS
  <2>2. (8 * j) * V <= b * V
    <3>1. b * V \in Nat /\ (8 * j) * V \in Nat
      OBVIOUS
    <3> QED
      BY <1>6, <1>8, <2>1, <3>1
  <2> QED
    BY <2>2, Unscaled
<1>10. u <= g + j
  BY <1>3, <1>4, <1>7 DEF Abs
<1>11. (16 * i) * V <= (9 * b) * V
  <2>1. (16 * i) * V = 2 * (i * P) /\ i * P \in Nat
    OBVIOUS
  <2>2. b <= b * V
    <3>1. 1 * b <= V * b /\ V * b = b * V
      BY Scaled
    <3> QED
      BY <3>1
  <2>3. PICK n \in Nat : n = b * V
    OBVIOUS
  <2>4. (9 * b) * V = 9 * n
    BY <2>3
  <2>5. 2 * (i * P) <= 8 * u
    BY <1>5, <2>1
  <2>6. 8 * u <= 8 * n + b
    BY <1>8, <1>9, <1>10, <2>3
  <2> QED
    BY <2>1, <2>2, <2>3, <2>4, <2>5, <2>6
<1>12. 16 * i <= 9 * b
  BY <1>11, Unscaled
<1>13. Abs(x - z) < b
  <2>1. x - z = (x - w) - (z - w)
    OBVIOUS
  <2>2. 2 * Abs(x - z) <= b + i + 2 * j
    BY <1>7, <2>1 DEF Abs
  <2> QED
    BY <1>9, <1>12, <2>2 DEF Abs
<1>14. Abs(t - v) < 1
  <2>1. x - z = (t - v) * b /\ t - v \in Int
    BY <1>2
  <2>2. Abs(x - z) = Abs(t - v) * b /\ Abs(t - v) \in Nat
    BY <2>1, AbsScaled, AbsFacts
  <2> SUFFICES ASSUME 1 <= Abs(t - v) PROVE FALSE
    BY <2>2
  <2>3. 1 * b <= Abs(t - v) * b
    BY <2>2, Scaled
  <2> QED
    BY <1>13, <2>2, <2>3
<1> QED
  BY <1>14, AbsFacts DEF Abs

-----------------------------------------------------------------------------
(* What the assumption says of the numbers in records.                     *)
LEMMA DoubleTyped ==
  ASSUME NEW d, IsDouble(d)
  PROVE  d.negative \in BOOLEAN /\ d.top \in Nat /\ d.bottom \in Nat /\ d.bottom > 0
<1>1. PICK k \in 0 .. d.bottom : d.bottom = TwoTo[k]
  BY DEF IsDouble
<1>2. k \in Nat
  OBVIOUS
<1>3. TwoTo[k] \in Nat /\ TwoTo[k] > 0
  BY <1>2, Doubling
<1> QED
  BY <1>1, <1>3 DEF IsDouble

(* The double that is read, before it is multiplied.                       *)
Read(x) ==
  IF x.kind = "rk" /\ x.integer
    THEN [negative |-> FALSE, top |-> x.bits, bottom |-> 1] ELSE x.data

LEMMA ReadTyped ==
  ASSUME book \in Books, NEW p \in 1 .. Len(book.records), NEW x, x = book.records[p],
         x.kind \in {"number", "rk"}, ~NegativeInteger(x)
  PROVE  LET e == Read(x) IN
         /\ e.negative \in BOOLEAN /\ e.top \in Nat /\ e.bottom \in Nat /\ e.bottom > 0
         /\ Undivided(x).top = Signed(e) /\ Undivided(x).bottom = e.bottom
<1>1. x \in Range(book.records)
  BY RecordsTyped DEF Range
<1>2. /\ x.kind = "number" => IsDouble(x.data)
      /\ x.kind = "rk" => IF x.integer THEN x.bits \in 0 .. TwoTo[RkBits] - 1 ELSE IsDouble(x.data)
  BY <1>1, ValuesAssumption
<1>3. CASE x.kind = "rk" /\ x.integer
  <2>1. x.bits \in Nat
    BY <1>2, <1>3
  <2>2. /\ Read(x).negative = FALSE
        /\ Read(x).top = x.bits
        /\ Read(x).bottom = 1
    BY <1>3 DEF Read
  <2>3. Undivided(x) = [top |-> x.bits, bottom |-> 1]
    <3>1. x.kind # "integer"
      BY <1>3
    <3>2. (IF NegativeInteger(x) THEN x.bits - TwoTo[RkBits] ELSE x.bits) = x.bits
      OBVIOUS
    <3> QED
      BY <1>3, <3>1, <3>2 DEF Undivided
  <2>4. Undivided(x).top = x.bits /\ Undivided(x).bottom = 1
    BY <2>3
  <2>5. Signed(Read(x)) = Read(x).top
    BY <2>2, Zenon DEF Signed
  <2>6. Read(x).negative \in BOOLEAN
    BY <2>2, Zenon
  <2>7. /\ Read(x).top \in Nat /\ Read(x).bottom \in Nat /\ Read(x).bottom > 0
        /\ Undivided(x).top = Read(x).top /\ Undivided(x).bottom = Read(x).bottom
    BY <2>1, <2>2, <2>4
  <2> QED
    BY <2>5, <2>6, <2>7, Zenon
<1>4. CASE ~(x.kind = "rk" /\ x.integer)
  <2>1. IsDouble(x.data)
    BY <1>2, <1>4
  <2>2. Read(x) = x.data
    BY <1>4 DEF Read
  <2>3. Undivided(x).top = Signed(x.data) /\ Undivided(x).bottom = x.data.bottom
    BY <1>4 DEF Undivided, Signed
  <2> QED
    BY <2>1, <2>2, <2>3, DoubleTyped
<1> QED
  BY <1>3, <1>4

LEMMA SignedFacts ==
  ASSUME NEW e, e.negative \in BOOLEAN, e.top \in Nat
  PROVE  Signed(e) \in Int /\ Abs(Signed(e)) = e.top
BY DEF Signed, Abs

(* How many values there are for a number to be typed.                     *)
LEMMA ShortIs ==
  /\ TwoTo[Bits - 3] \in Nat /\ TwoTo[Bits - 3] >= 8
  /\ TwoTo[Bits] \in Nat /\ TwoTo[Bits] > 0 /\ TwoTo[Bits] = 8 * TwoTo[Bits - 3]
<1>1. \A k \in Nat : TwoTo[k] \in Nat /\ TwoTo[k] > 0 /\ TwoTo[k + 1] = 2 * TwoTo[k]
  BY Doubling
<1>2. PICK k \in Nat : Bits = k + 6
  <2>1. Bits - 6 \in Nat /\ Bits = (Bits - 6) + 6
    BY SizesAssumption
  <2> QED
    BY <2>1
<1>3. /\ Bits - 3 = k + 3 /\ (k + 3) + 1 = k + 4 /\ (k + 4) + 1 = k + 5 /\ (k + 5) + 1 = k + 6
      /\ (k + 1) + 1 = k + 2 /\ (k + 2) + 1 = k + 3
  BY <1>2
<1>4. PICK m \in Nat : m = TwoTo[k] /\ m > 0
  BY <1>1
<1>5. TwoTo[k + 1] = 2 * m /\ TwoTo[k + 2] = 4 * m /\ TwoTo[k + 3] = 8 * m
  <2>1. TwoTo[k + 1] = 2 * m
    BY <1>1, <1>4
  <2>2. TwoTo[k + 2] = 2 * TwoTo[k + 1]
    BY <1>1, <1>3
  <2>3. TwoTo[k + 3] = 2 * TwoTo[k + 2]
    BY <1>1, <1>3
  <2> QED
    BY <2>1, <2>2, <2>3
<1>6. TwoTo[k + 6] = 64 * m
  <2>1. TwoTo[k + 4] = 2 * TwoTo[k + 3]
    BY <1>1, <1>3
  <2>2. TwoTo[k + 5] = 2 * TwoTo[k + 4]
    BY <1>1, <1>3
  <2>3. TwoTo[k + 6] = 2 * TwoTo[k + 5]
    BY <1>1, <1>3
  <2> QED
    BY <1>5, <2>1, <2>2, <2>3
<1> QED
  BY <1>2, <1>3, <1>4, <1>5, <1>6

(* A number and its text, whether it is multiplied by 0.01 or not.         *)
Arrived(text, x) ==
  /\ NumberOf(text) \in Int /\ Near(NumberOf(text), x)
  /\ \A v \in Short : MadeFor(Held(x), v) => NumberOf(text) = v
  /\ "." \in Range(text) => Last(text) \notin {"0", "."}

LEMMA PlainArrives ==
  ASSUME NEW x, NEW e, ~Multiplied(x),
         e.negative \in BOOLEAN, e.top \in Nat, e.bottom \in Nat, e.bottom > 0,
         Undivided(x).top = Signed(e), Undivided(x).bottom = e.bottom
  PROVE  Arrived(General(e), x)
<1>1. PICK t \in Int : /\ t = NumberOf(General(e))
                       /\ 2 * Abs(t * e.bottom - Signed(e) * Unit) <= e.bottom
                       /\ "." \in Range(General(e)) => Last(General(e)) \notin {"0", "."}
  BY GeneralNear
<1>2. PICK p \in Int, b \in Nat, U \in Nat : p = Signed(e) /\ b = e.bottom /\ b > 0 /\ U = Unit
  <2>1. Signed(e) \in Int
    BY SignedFacts
  <2>2. Unit \in Nat
    BY PartsOf
  <2> QED
    BY <2>1, <2>2
<1>3. PICK V \in Nat, P \in Nat :
        V = TwoTo[Bits - 3] /\ V >= 8 /\ P = TwoTo[Bits] /\ P > 0 /\ P = 8 * V
  BY ShortIs
<1>4. Held(x).top = p /\ Held(x).bottom = b
  <2>1. b * 1 = b
    OBVIOUS
  <2> QED
    BY <1>2, <2>1 DEF Held
<1>5. Near(t, x)
  BY <1>1, <1>2, <1>4 DEF Near
<1>6. ASSUME NEW v \in Short, MadeFor(Held(x), v) PROVE t = v
  <2>1. v \in Int /\ Abs(v) <= V
    BY <1>3, <1>6 DEF Short, Abs
  <2>2. Abs(v * b - p * U) <= (Abs(v) * b) \div P
    BY <1>2, <1>3, <1>4, <1>6 DEF MadeFor
  <2>3. PICK g \in Nat : g = 4 * Abs(p) * U
    <3>1. Abs(p) \in Nat
      BY AbsFacts
    <3>2. 4 * Abs(p) * U \in Nat
      BY <3>1
    <3> QED
      BY <3>2
  <2>4. g \div P \in Nat
    BY <1>3
  <2>5. PICK y : y = 2 * Abs(t * b - p * U) /\ y <= b
    BY <1>1, <1>2
  <2>6. y \in Int
    <3>1. t * b \in Int /\ p * U \in Int
      OBVIOUS
    <3> QED
      BY <2>5, <3>1 DEF Abs
  <2>7. 2 * Abs(t * b - p * U) <= b + (4 * Abs(p) * U) \div P
    BY <2>3, <2>4, <2>5, <2>6
  <2>8. b > 0 /\ V >= 8 /\ P = 8 * V
    BY <1>2, <1>3
  <2> QED
    BY <2>1, <2>2, <2>7, <2>8, ShortArrives, Zenon
<1> QED
  BY <1>1, <1>5, <1>6 DEF Arrived

LEMMA HundredthArrives ==
  ASSUME NEW x, NEW e, Multiplied(x),
         e.negative \in BOOLEAN, e.top \in Nat, e.bottom \in Nat, e.bottom > 0,
         Undivided(x).top = Signed(e), Undivided(x).bottom = e.bottom
  PROVE  Arrived(General(Hundredth(e)), x)
<1>1. PICK V \in Nat, P \in Nat :
        V = TwoTo[Bits - 3] /\ V >= 8 /\ P = TwoTo[Bits] /\ P > 0 /\ P = 8 * V
  BY ShortIs
<1>2. PICK p \in Int, b \in Nat, U \in Nat : p = Signed(e) /\ b = e.bottom /\ b > 0 /\ U = Unit
  <2>1. Signed(e) \in Int
    BY SignedFacts
  <2>2. Unit \in Nat
    BY PartsOf
  <2> QED
    BY <2>1, <2>2
<1>3. PICK K \in Nat : K = 64 * P /\ K > 0
  <2>1. 64 * P \in Nat /\ 64 * P > 0
    BY <1>1
  <2> QED
    BY <2>1
<1>4. PICK h : h = Hundredth(e)
  OBVIOUS
<1>5. h.top \in Nat /\ h.bottom = b * K /\ Abs(100 * h.top - e.top * K) <= 128 * e.top
  BY <1>1, <1>2, <1>3, <1>4, HundredthIs
<1>6. h.negative = e.negative
  BY <1>4 DEF Hundredth
<1>7. b * K \in Nat /\ b * K > 0
  <2>1. 1 * K <= b * K
    BY <1>2, <1>3, Scaled
  <2> QED
    BY <1>3, <2>1
<1>8. PICK S \in Int : S = Signed(h) /\ Abs(100 * S - p * K) <= 128 * Abs(p)
  <2>1. PICK m \in Nat : m = e.top * K
    OBVIOUS
  <2>2. Abs(p) = e.top
    BY <1>2, SignedFacts
  <2>3. CASE e.negative
    <3>1. Signed(h) = -h.top /\ p = -e.top
      BY <1>2, <1>6, <2>3 DEF Signed
    <3>2. (-e.top) * K = -m
      BY <2>1
    <3>3. 100 * (-h.top) - (-m) = -(100 * h.top - m) /\ 100 * h.top - m \in Int
      BY <1>5
    <3>4. Abs(100 * (-h.top) - (-m)) <= 128 * e.top
      BY <1>5, <2>1, <3>3, AbsFacts
    <3> QED
      BY <1>5, <2>2, <3>1, <3>2, <3>4
  <2>4. CASE ~e.negative
    <3>1. Signed(h) = h.top /\ p = e.top
      BY <1>2, <1>6, <2>4 DEF Signed
    <3> QED
      BY <1>5, <2>2, <3>1
  <2> QED
    BY <2>3, <2>4
<1>9. PICK t \in Int : /\ t = NumberOf(General(h))
                       /\ 2 * Abs(t * (b * K) - S * U) <= b * K
                       /\ "." \in Range(General(h)) => Last(General(h)) \notin {"0", "."}
  BY <1>2, <1>5, <1>6, <1>7, <1>8, GeneralNear
<1>10. 2 * Abs(t * (b * 100) - p * U) <= b * 100 + (4 * Abs(p) * U) \div P
  <2>1. 2 * Abs(t * (b * K) - S * U) <= b * K
    BY <1>9
  <2>2. Abs(100 * S - p * K) <= 128 * Abs(p)
    BY <1>8
  <2>3. P > 0 /\ K = 64 * P
    BY <1>1, <1>3
  <2> QED
    BY <2>1, <2>2, <2>3, CentNear, Zenon
<1>11. PICK c \in Nat : c = b * 100 /\ c > 0
  <2>1. b * 100 \in Nat /\ b * 100 > 0
    BY <1>2
  <2> QED
    BY <2>1
<1>12. Held(x).top = p /\ Held(x).bottom = c
  BY <1>2, <1>11 DEF Held
<1>13. Near(t, x)
  BY <1>1, <1>2, <1>10, <1>11, <1>12 DEF Near
<1>14. ASSUME NEW v \in Short, MadeFor(Held(x), v) PROVE t = v
  <2>1. v \in Int /\ Abs(v) <= V
    BY <1>1, <1>14 DEF Short, Abs
  <2>2. Abs(v * c - p * U) <= (Abs(v) * c) \div P
    BY <1>1, <1>2, <1>12, <1>14 DEF MadeFor
  <2>3. 2 * Abs(t * c - p * U) <= c + (4 * Abs(p) * U) \div P
    BY <1>10, <1>11
  <2>4. c > 0 /\ V >= 8 /\ P = 8 * V
    BY <1>1, <1>11
  <2> QED
    BY <2>1, <2>2, <2>3, <2>4, ShortArrives, Zenon
<1> QED
  BY <1>4, <1>9, <1>13, <1>14 DEF Arrived

LEMMA IntegerArrives ==
  ASSUME NEW x, x.kind = "integer", x.data \in Nat
  PROVE  Arrived(Digits[x.data], x)
<1>1. PICK n \in Nat, U \in Nat : n = x.data /\ U = Unit
  BY PartsOf
<1>2. NumberOf(Digits[n]) = n * U /\ "." \notin Range(Digits[n])
  BY <1>1, DigitsAlone
<1>3. PICK t \in Int : t = n * U
  OBVIOUS
<1>4. Held(x).top = n /\ Held(x).bottom = 1 /\ ~Multiplied(x)
  BY <1>1 DEF Held, Undivided, Multiplied
<1>5. PICK V \in Nat, P \in Nat :
        V = TwoTo[Bits - 3] /\ V >= 8 /\ P = TwoTo[Bits] /\ P > 0 /\ P = 8 * V
  BY ShortIs
<1>6. t * 1 - n * U = 0
  BY <1>3
<1>7. Near(t, x)
  <2>1. 2 * Abs(0) <= 1 + 0
    BY DEF Abs
  <2> QED
    BY <1>1, <1>4, <1>6, <2>1 DEF Near
<1>8. ASSUME NEW v \in Short, MadeFor(Held(x), v) PROVE t = v
  <2>1. v \in Int /\ Abs(v) <= V
    BY <1>5, <1>8 DEF Short, Abs
  <2>2. Abs(v * 1 - n * U) <= (Abs(v) * 1) \div P
    BY <1>1, <1>4, <1>5, <1>8 DEF MadeFor
  <2>3. Abs(v) < P /\ Abs(v) \in Nat
    <3>1. V < P
      BY <1>5
    <3>2. Abs(v) \in Nat
      BY <2>1, AbsFacts
    <3> QED
      BY <2>1, <3>1, <3>2
  <2>4. (Abs(v) * 1) \div P = 0
    <3>1. Abs(v) * 1 = P * 0 + Abs(v)
      BY <2>3
    <3>2. Abs(v) * 1 \in Nat
      BY <2>3
    <3> QED
      BY <1>5, <2>3, <3>1, <3>2, QuotientIs
  <2>5. v * 1 - n * U = v - t
    <3>1. v \in Int /\ v * 1 = v
      BY <2>1
    <3> QED
      BY <1>3, <3>1
  <2>6. Abs(v - t) <= 0
    BY <2>2, <2>4, <2>5
  <2> QED
    BY <2>1, <2>6 DEF Abs
<1> QED
  BY <1>1, <1>2, <1>3, <1>7, <1>8 DEF Arrived

LEMMA CellKept ==
  ASSUME PlaceInv, NumbersKept, NEW text, NEW fmt, SetCell(text, fmt), at <= Len(book.records),
         ~NegativeInteger(Record) => Arrived(text, Record)
  PROVE  NumbersKept'
<1>1. PICK c0 : c0 = [of |-> at, text |-> text, format |-> fmt,
                      address |-> Address(Record.row, Record.col)]
  OBVIOUS
<1>2. book' = book /\ cells' = Append(cells, c0) /\ c0.of = at /\ c0.text = text
  BY <1>1 DEF SetCell
<1>3. Range(cells') = Range(cells) \cup {c0}
  BY <1>2, Lengthened DEF PlaceInv
<1>4. ~NegativeInteger(book.records[c0.of]) => Kept(c0)'
  BY <1>2 DEF Kept, Record, Arrived
<1>5. ASSUME NEW c \in Range(cells), ~NegativeInteger(book.records[c.of]) PROVE Kept(c)'
  <2>1. Kept(c)
    BY <1>5 DEF NumbersKept
  <2> QED
    BY <1>2, <2>1 DEF Kept
<1> QED
  BY <1>2, <1>3, <1>4, <1>5 DEF NumbersKept

LEMMA NumbersNext == PlaceInv /\ NumbersKept /\ [Next]_vars => NumbersKept'
<1> SUFFICES ASSUME PlaceInv, NumbersKept, [Next]_vars PROVE NumbersKept'
  OBVIOUS
<1>1. book \in Books /\ Len(book.records) \in Nat /\ at \in 1 .. Len(book.records) + 1
  BY RecordsTyped DEF PlaceInv
<1>2. ASSUME book' = book, cells' = cells PROVE NumbersKept'
  <2>1. ASSUME NEW c \in Range(cells), ~NegativeInteger(book.records[c.of]) PROVE Kept(c)'
    <3>1. Kept(c)
      BY <2>1 DEF NumbersKept
    <3> QED
      BY <1>2, <3>1 DEF Kept
  <2> QED
    BY <1>2, <2>1 DEF NumbersKept
<1>3. CASE XfRecord \/ FormatRecord \/ SheetBegins \/ Unusable \/ Finished \/ UNCHANGED vars
  BY <1>2, <1>3 DEF XfRecord, FormatRecord, SheetBegins, Unusable, Finished, vars
<1>4. ASSUME NEW data, FormatDouble(data), at <= Len(book.records),
             ~NegativeInteger(Record) => Arrived(General(data), Record)
      PROVE  NumbersKept'
  <2>1. CASE SetCell(General(data), format[FormatIndex(Record.xf)])
    BY <1>4, <2>1, CellKept
  <2>2. CASE UNCHANGED <<book, at, sheet, xf, format, cells>>
    BY <1>2, <2>2
  <2> QED
    BY <1>4, <2>1, <2>2 DEF FormatDouble
<1>5. at <= Len(book.records) => at \in 1 .. Len(book.records)
  BY <1>1
<1>6. CASE NumberCell
  <2>1. FormatDouble(Record.data) /\ at <= Len(book.records) /\ Record.kind = "number"
    BY <1>6 DEF NumberCell, At
  <2>2. PICK x : x = Record
    OBVIOUS
  <2>3. ~NegativeInteger(x) /\ ~Multiplied(x) /\ Read(x) = x.data
    BY <2>1, <2>2 DEF NegativeInteger, Multiplied, Read
  <2>4. /\ x.data.negative \in BOOLEAN
        /\ x.data.top \in Nat
        /\ x.data.bottom \in Nat
        /\ x.data.bottom > 0
        /\ Undivided(x).top = Signed(x.data)
        /\ Undivided(x).bottom = x.data.bottom
    BY <1>1, <1>5, <2>1, <2>2, <2>3, ReadTyped DEF Record
  <2>5. Arrived(General(x.data), x)
    BY <2>3, <2>4, PlainArrives
  <2> QED
    BY <1>4, <2>1, <2>2, <2>5
<1>7. CASE RkCell
  <2>1. FormatDouble(RkData(Record)) /\ at <= Len(book.records) /\ Record.kind = "rk"
    BY <1>7 DEF RkCell, At
  <2>2. PICK x : x = Record
    OBVIOUS
  <2>3. ASSUME ~NegativeInteger(x) PROVE Arrived(General(RkData(x)), x)
    <3>1. PICK e : e = Read(x)
      OBVIOUS
    <3>2. /\ e.negative \in BOOLEAN
          /\ e.top \in Nat
          /\ e.bottom \in Nat
          /\ e.bottom > 0
          /\ Undivided(x).top = Signed(e)
          /\ Undivided(x).bottom = e.bottom
      BY <1>1, <1>5, <2>1, <2>2, <2>3, <3>1, ReadTyped DEF Record
    <3>3. CASE Multiplied(x)
      <4>1. RkData(x) = Hundredth(e)
        BY <2>1, <2>2, <3>1, <3>3 DEF RkData, Read, Multiplied
      <4> QED
        BY <3>2, <3>3, <4>1, HundredthArrives
    <3>4. CASE ~Multiplied(x)
      <4>1. RkData(x) = e
        BY <2>1, <2>2, <3>1, <3>4 DEF RkData, Read, Multiplied
      <4> QED
        BY <3>2, <3>4, <4>1, PlainArrives
    <3> QED
      BY <3>3, <3>4
  <2> QED
    BY <1>4, <2>1, <2>2, <2>3
<1>8. CASE IntegerCell
  <2>1. SetCell(Digits[Record.data], "none") /\ at <= Len(book.records) /\ Record.kind = "integer"
    BY <1>8 DEF IntegerCell, At
  <2>2. Record.data \in Nat
    <3>1. Record \in Range(book.records)
      BY <1>1, <1>5, <2>1, RecordsTyped DEF Range, Record
    <3> QED
      BY <1>1, <2>1, <3>1, ValuesAssumption
  <2>3. Arrived(Digits[Record.data], Record)
    BY <2>1, <2>2, IntegerArrives
  <2> QED
    BY <2>1, <2>3, CellKept
<1> QED
  BY <1>3, <1>6, <1>7, <1>8 DEF Next

(* Whichever way a number is stored, as a double, an RK value or an        *)
(* integer, the text of its cell is the decimal number nearest to what the *)
(* record holds - within two roundings of a double if it was multiplied by *)
(* 0.01 - with no digit to spare, and a number typed with no more than     *)
(* Bits - 3 bits of units arrives as it was typed: for numbers of any size *)
(* and any precision of doubles and text.  Integers below zero in RK       *)
(* values are excepted, whose sign is lost.                                *)
THEOREM NumbersArrive == Spec => []NumbersKept
<1>1. Init => NumbersKept
  <2>1. Range(<<>>) = {}
    BY DEF Range
  <2> QED
    BY <2>1 DEF Init, NumbersKept
<1> QED
  BY <1>1, PlaceAlways, NumbersNext, PTL DEF Spec

-----------------------------------------------------------------------------
(* What has been read of the INI file: a column for every column line      *)
(* before this one, and no line that is neither column nor comment.        *)
FileColumns(i) == {ColumnNew(l) : l \in {m \in Range(i.lines) : m.kind = "column"}}

LoadInv ==
  /\ input \in Inputs
  /\ line \in 1 .. Len(input.lines) + 1
  /\ cols \in Seq(FileColumns(input))
  /\ Len(cols) = Tally(input.lines, line, "column")
  /\ \A k \in 1 .. Len(input.lines) :
       k < line =>
         /\ input.lines[k].kind \in {"comment", "column"}
         /\ input.lines[k].kind = "column" =>
              cols[Tally(input.lines, k, "column") + 1] = ColumnNew(input.lines[k])
  /\ phase \in {"load", "row", "done"}
  /\ phase = "row" => line = Len(input.lines) + 1

LEMMA LinesTyped ==
  ASSUME NEW i \in Inputs
  PROVE  /\ i.lines \in Seq(Range(i.lines)) /\ Len(i.lines) \in Nat
         /\ DOMAIN i.lines = 1 .. Len(i.lines)
         /\ i.cells \in Seq(Range(i.cells)) /\ Len(i.cells) \in Nat
<1>1. i.lines \in Seq(Range(i.lines)) /\ i.cells \in Seq(Range(i.cells))
  BY InputsAssumption
<1> QED
  BY <1>1, LenProperties

LEMMA LoadInit == RowInit => LoadInv
<1> SUFFICES ASSUME RowInit PROVE LoadInv
  OBVIOUS
<1>1. input \in Inputs /\ line = 1 /\ cols = <<>> /\ phase = "load"
  BY DEF RowInit
<1>2. Len(input.lines) \in Nat
  BY <1>1, LinesTyped
<1>3. Tally(input.lines, 1, "column") = 0
  <2>1. OfKind(input.lines, 1, "column") = {}
    BY DEF OfKind
  <2> QED
    BY <2>1, FS_EmptySet DEF Tally
<1>4. cols \in Seq(FileColumns(input)) /\ Len(cols) = 0
  BY <1>1
<1> QED
  BY <1>1, <1>2, <1>3, <1>4 DEF LoadInv

(* Past the INI file, nothing of it changes.                               *)
InRow ==
  \/ CellMissing \/ CellEmpty
  \/ ReadBool \/ ReadString \/ ReadEmptyDatetime \/ BeginDatetime \/ FormatFits \/ FormatNamesIt
  \/ NextFormat \/ NoFormatFits \/ ReadSelect
  \/ ReadFile \/ RejectFile \/ ReadArray \/ ReadDataset
  \/ ReadRights \/ ReadIndexes
  \/ RowRead

LEMMA FileKept ==
  ASSUME InRow
  PROVE  UNCHANGED <<input, line, cols>> /\ (phase' = phase \/ phase' = "done")
<1> USE DEF Reject, GiveText, Give
<1>1. CASE CellMissing
  BY <1>1 DEF CellMissing
<1>2. CASE CellEmpty
  BY <1>2 DEF CellEmpty
<1>3. CASE ReadBool
  BY <1>3 DEF ReadBool
<1>4. CASE ReadString
  BY <1>4 DEF ReadString
<1>5. CASE ReadEmptyDatetime
  BY <1>5 DEF ReadEmptyDatetime
<1>6. CASE BeginDatetime
  BY <1>6 DEF BeginDatetime
<1>7. CASE FormatFits
  BY <1>7 DEF FormatFits, GiveTime
<1>8. CASE FormatNamesIt
  BY <1>8 DEF FormatNamesIt, GiveTime
<1>9. CASE NextFormat
  BY <1>9 DEF NextFormat
<1>10. CASE NoFormatFits
  BY <1>10 DEF NoFormatFits
<1>11. CASE ReadSelect
  BY <1>11 DEF ReadSelect
<1>12. CASE ReadFile
  BY <1>12 DEF ReadFile
<1>13. CASE RejectFile
  BY <1>13 DEF RejectFile
<1>14. CASE ReadArray
  BY <1>14 DEF ReadArray
<1>15. CASE ReadDataset
  BY <1>15 DEF ReadDataset
<1>16. CASE ReadRights
  BY <1>16 DEF ReadRights
<1>17. CASE ReadIndexes
  BY <1>17 DEF ReadIndexes
<1>18. CASE RowRead
  BY <1>18 DEF RowRead
<1> QED
  BY <1>1, <1>2, <1>3, <1>4, <1>5, <1>6, <1>7, <1>8, <1>9, <1>10, <1>11, <1>12, <1>13,
     <1>14, <1>15, <1>16, <1>17, <1>18 DEF InRow

(* A line that is a column adds its column behind the others.              *)
LEMMA ColumnLoaded ==
  ASSUME LoadInv, LoadColumn
  PROVE  LoadInv'
<1>1. /\ phase = "load" /\ line <= Len(input.lines) /\ Loadable(Line) /\ Line = input.lines[line]
      /\ cols' = Append(cols, ColumnNew(Line)) /\ line' = line + 1
      /\ input' = input /\ phase' = phase
  BY DEF LoadColumn, AtLine, Line
<1>2. PICK lines : lines = input.lines
  OBVIOUS
<1>3. PICK on : on = line
  OBVIOUS
<1>4. PICK c : c = ColumnNew(Line)
  OBVIOUS
<1>5. PICK old : old = cols
  OBVIOUS
<1>6. /\ input \in Inputs /\ on \in 1 .. Len(lines) + 1 /\ old \in Seq(FileColumns(input))
      /\ Len(old) = Tally(lines, on, "column")
      /\ \A k \in 1 .. Len(lines) :
           k < on => /\ lines[k].kind \in {"comment", "column"}
                     /\ lines[k].kind = "column" =>
                          old[Tally(lines, k, "column") + 1] = ColumnNew(lines[k])
  BY <1>2, <1>3, <1>5 DEF LoadInv
<1>7. Len(lines) \in Nat /\ DOMAIN lines = 1 .. Len(lines) /\ on <= Len(lines)
  BY <1>1, <1>2, <1>3, <1>6, LinesTyped
<1>8. lines[on].kind = "column" /\ c = ColumnNew(lines[on])
  BY <1>1, <1>2, <1>3, <1>4 DEF Loadable, HasType
<1>9. c \in FileColumns(input)
  <2>1. on \in DOMAIN lines
    BY <1>6, <1>7
  <2>2. lines[on] \in Range(lines)
    BY <2>1 DEF Range
  <2> QED
    BY <1>2, <1>8, <2>2, Zenon DEF FileColumns
<1>10. /\ Append(old, c) \in Seq(FileColumns(input)) /\ Len(Append(old, c)) = Len(old) + 1
       /\ Len(old) \in Nat
       /\ \A k \in 1 .. Len(old) : Append(old, c)[k] = old[k]
       /\ Append(old, c)[Len(old) + 1] = c
  <2> HIDE DEF FileColumns
  <2> QED
    BY <1>6, <1>9, AppendProperties, LenProperties
<1>11. Tally(lines, on + 1, "column") = Tally(lines, on, "column") + 1
  BY <1>6, <1>7, <1>8, CountStep
<1>12. ASSUME NEW k \in 1 .. Len(lines), k < on + 1
       PROVE  /\ lines[k].kind \in {"comment", "column"}
              /\ lines[k].kind = "column" =>
                   Append(old, c)[Tally(lines, k, "column") + 1] = ColumnNew(lines[k])
  <2>1. CASE k = on
    BY <1>6, <1>8, <1>10, <2>1
  <2>2. CASE k < on
    <3>1. lines[k].kind = "column" =>
            /\ Tally(lines, k, "column") < Tally(lines, on, "column")
            /\ Tally(lines, k, "column") \in Nat
      BY <1>6, <1>7, <2>2, CountGrows, CountStep
    <3>2. lines[k].kind = "column" => Tally(lines, k, "column") + 1 \in 1 .. Len(old)
      BY <1>6, <1>10, <3>1
    <3> QED
      BY <1>6, <1>10, <2>2, <3>2
  <2>3. k = on \/ k < on
    BY <1>6, <1>7, <1>12
  <2> QED
    BY <2>1, <2>2, <2>3, Zenon
<1>13. /\ input' = input /\ input.lines = lines /\ line' = on + 1 /\ cols' = Append(old, c)
       /\ phase' = "load"
  BY <1>1, <1>2, <1>3, <1>4, <1>5
<1>14. /\ on + 1 \in 1 .. Len(lines) + 1
       /\ Len(Append(old, c)) = Tally(lines, on + 1, "column")
  BY <1>6, <1>7, <1>10, <1>11
<1> HIDE DEF FileColumns
<1> QED
  <2>1. (cols \in Seq(FileColumns(input)))'
    BY <1>10, <1>13
  <2> QED
    BY <1>6, <1>12, <1>13, <1>14, <2>1 DEF LoadInv

LEMMA LoadNext == LoadInv /\ [RowNext]_rowVars => LoadInv'
<1> SUFFICES ASSUME LoadInv, [RowNext]_rowVars PROVE LoadInv'
  OBVIOUS
<1>1. CASE LoadColumn
  BY <1>1, ColumnLoaded
<1>2. ASSUME UNCHANGED <<input, line, cols>>, phase' = phase \/ phase' = "done"
      PROVE  LoadInv'
  BY <1>2 DEF LoadInv, FileColumns
<1>3. CASE SkipComment
  <2>1. /\ line <= Len(input.lines) /\ input.lines[line].kind = "comment"
        /\ line' = line + 1 /\ input' = input /\ cols' = cols /\ phase' = phase /\ phase = "load"
    BY <1>3 DEF SkipComment, AtLine, Line
  <2>2. PICK on : on = line
    OBVIOUS
  <2>3. PICK lines : lines = input.lines
    OBVIOUS
  <2>4. input \in Inputs /\ on \in 1 .. Len(lines) + 1 /\ Len(lines) \in Nat
    BY <2>2, <2>3, LinesTyped DEF LoadInv
  <2>5. Tally(lines, on + 1, "column") = Tally(lines, on, "column")
    BY <2>1, <2>2, <2>3, <2>4, CountStep
  <2>6. \A k \in 1 .. Len(lines) : k < on + 1 => k < on \/ k = on
    BY <2>4
  <2>7. /\ on + 1 \in 1 .. Len(lines) + 1
        /\ Len(cols) = Tally(lines, on + 1, "column")
        /\ \A k \in 1 .. Len(lines) :
             k < on + 1 => /\ lines[k].kind \in {"comment", "column"}
                           /\ lines[k].kind = "column" =>
                                cols[Tally(lines, k, "column") + 1] = ColumnNew(lines[k])
    BY <2>1, <2>2, <2>3, <2>4, <2>5, <2>6 DEF LoadInv
  <2>8. (cols \in Seq(FileColumns(input)))'
    BY <2>1 DEF LoadInv, FileColumns
  <2> QED
    BY <2>1, <2>2, <2>3, <2>4, <2>7, <2>8 DEF LoadInv
<1>4. CASE LoadFails
  BY <1>2, <1>4 DEF LoadFails
<1>5. CASE Loaded
  <2>1. /\ line > Len(input.lines) /\ UNCHANGED <<input, line, cols>> /\ phase' = "row"
    BY <1>5 DEF Loaded
  <2>2. line = Len(input.lines) + 1
    BY <2>1, LinesTyped DEF LoadInv
  <2> QED
    BY <2>1, <2>2 DEF LoadInv, FileColumns
<1>6. CASE InRow
  BY <1>2, <1>6, FileKept
<1>7. CASE ConvertsForEver \/ Terminated \/ UNCHANGED rowVars
  BY <1>2, <1>7 DEF ConvertsForEver, Terminated, rowVars
<1> QED
  BY <1>1, <1>3, <1>4, <1>5, <1>6, <1>7 DEF RowNext, InRow

LEMMA LoadAlways == RowSpec => []LoadInv
BY LoadInit, LoadNext, PTL DEF RowSpec

LEMMA BeforeIsTally ==
  ASSUME input \in Inputs, NEW k \in 1 .. Len(input.lines) + 1
  PROVE  ColumnsBefore(k) = Tally(input.lines, k, "column")
<1>1. Len(input.lines) \in Nat /\ DOMAIN input.lines = 1 .. Len(input.lines)
  BY LinesTyped
<1>2. {n \in DOMAIN input.lines : n < k /\ input.lines[n].kind = "column"}
        = OfKind(input.lines, k, "column")
  BY <1>1 DEF OfKind
<1> QED
  BY <1>2 DEF ColumnsBefore, Tally

LEMMA LoadedAsWritten == LoadInv => ColumnsAsWritten
<1> SUFFICES ASSUME LoadInv PROVE ColumnsAsWritten
  OBVIOUS
<1>1. /\ input \in Inputs /\ Len(input.lines) \in Nat /\ DOMAIN input.lines = 1 .. Len(input.lines)
  BY LinesTyped DEF LoadInv
<1>2. Len(cols) = ColumnsBefore(line)
  BY <1>1, BeforeIsTally DEF LoadInv
<1>3. ASSUME NEW k \in DOMAIN input.lines, k < line, input.lines[k].kind = "column"
      PROVE  cols[ColumnsBefore(k) + 1].fields = input.lines[k].fields
  <2>1. ColumnsBefore(k) = Tally(input.lines, k, "column")
    BY <1>1, BeforeIsTally
  <2>2. cols[ColumnsBefore(k) + 1] = ColumnNew(input.lines[k])
    BY <1>1, <1>3, <2>1 DEF LoadInv
  <2> QED
    BY <2>2 DEF ColumnNew
<1>4. phase = "row" =>
        /\ line > Len(input.lines)
        /\ \A k \in DOMAIN input.lines : input.lines[k].kind # "other"
  <2>1. "other" \notin {"comment", "column"}
    OBVIOUS
  <2> QED
    BY <1>1, <2>1 DEF LoadInv
<1> QED
  BY <1>2, <1>3, <1>4 DEF ColumnsAsWritten

(* INIFILE_ja.txt says that the lines of the file are the columns of the   *)
(* sheet from the left: inifile_load() loses none and moves none.          *)
THEOREM EveryColumnLoaded == RowSpec => []ColumnsAsWritten
BY LoadAlways, LoadedAsWritten, PTL

-----------------------------------------------------------------------------
(* strarray_explode() goes on behind the next separator.                   *)
IsExploded(from, sep, text) ==
  from = [on \in 1 .. Len(text) + 1 |->
            LET next == {i \in Occurrences(sep, text) : i >= on}
            IN  IF next = {} THEN <<SubSeq(text, on, Len(text))>>
                ELSE <<SubSeq(text, on, Min(next) - 1)>> \o from[Min(next) + Len(sep)]]

LEMMA OccurrenceInside ==
  ASSUME NEW S, NEW sep \in Seq(S), sep # <<>>, NEW text \in Seq(S),
         NEW i \in Occurrences(sep, text)
  PROVE  i \in 1 .. Len(text) /\ i + Len(sep) <= Len(text) + 1
<1>1. /\ Len(text) \in Nat /\ DOMAIN text = 1 .. Len(text) /\ Len(sep) \in Nat /\ Len(sep) > 0
      /\ \A k \in 1 .. Len(text) : text[k] \in S
  BY LenProperties, ElementOfSeq, EmptySeq
<1>2. i \in 1 .. Len(text) /\ SubSeq(text, i, Min({Len(text), i + Len(sep) - 1})) = sep
  BY <1>1 DEF Occurrences
<1>3. PICK m : m = Min({Len(text), i + Len(sep) - 1})
  OBVIOUS
<1>4. m \in {Len(text), i + Len(sep) - 1} /\ m <= Len(text)
  <2>1. {Len(text), i + Len(sep) - 1} \in SUBSET Nat
    BY <1>1, <1>2
  <2> QED
    BY <1>3, <2>1, MinIsSmallest
<1>5. m \in Int /\ i \in Int /\ i <= m
  BY <1>1, <1>2, <1>4
<1>6. Len(SubSeq(text, i, m)) = (m - i) + 1
  <2>1. \A k \in i .. m : text[k] \in S
    <3>1. \A k \in i .. m : k \in 1 .. Len(text)
      <4>1. i \in 1 .. Len(text) /\ m <= Len(text)
        BY <1>2, <1>4
      <4> QED
        BY <1>1, <1>5, <4>1
    <3> QED
      BY <1>1, <3>1, Zenon
  <2> QED
    BY <1>5, <2>1, SubSeqProperties
<1>7. Len(sep) = (m - i) + 1
  BY <1>2, <1>3, <1>6
<1> QED
  BY <1>1, <1>2, <1>4, <1>5, <1>7

LEMMA ExplodeType ==
  ASSUME NEW S, NEW sep \in Seq(S), sep # <<>>, NEW text \in Seq(S)
  PROVE  Explode(sep, text) \in Seq(Seq(S))
<1>1. /\ Len(text) \in Nat /\ Len(sep) \in Nat /\ Len(sep) > 0
      /\ \A k \in 1 .. Len(text) : text[k] \in S
  BY LenProperties, ElementOfSeq, EmptySeq
<1> DEFINE L == Len(text)
           next(on) == {i \in Occurrences(sep, text) : i >= on}
           head(on) == SubSeq(text, on, IF next(on) = {} THEN L ELSE Min(next(on)) - 1)
           on(r) == (L + 1) - r
           base == [r \in Nat |-> <<head(L + 1)>>]
           down == [r \in Nat |-> IF next(on(r)) = {} \/ r > L THEN 0
                                   ELSE on(Min(next(on(r))) + Len(sep))]
           step == [p \in Nat \X Seq(Seq(S)) |->
                      IF p[1] > L THEN <<>>
                      ELSE IF next(on(p[1])) = {} THEN <<head(on(p[1]))>>
                      ELSE <<head(on(p[1]))>> \o p[2]]
<1>2. ASSUME NEW a \in 1 .. L + 1, next(a) # {}
      PROVE  /\ Min(next(a)) \in a .. L /\ Min(next(a)) + Len(sep) \in a + 1 .. L + 1
  <2>1. next(a) \in SUBSET Nat
    BY OccurrenceInside
  <2>2. Min(next(a)) \in next(a)
    <3> HIDE DEF next
    <3> QED
      BY <1>2, <2>1, MinIsSmallest
  <2>3. Min(next(a)) \in Occurrences(sep, text) /\ Min(next(a)) >= a
    BY <2>2
  <2>4. PICK m : m = Min(next(a))
    OBVIOUS
  <2>5. m \in Occurrences(sep, text) /\ m >= a
    BY <2>3, <2>4
  <2>6. m \in 1 .. L /\ m + Len(sep) <= L + 1
    BY <2>5, OccurrenceInside
  <2> HIDE DEF next
  <2> QED
    BY <1>1, <2>4, <2>5, <2>6
<1>3. ASSUME NEW a \in 1 .. L + 1
      PROVE  head(a) \in Seq(S)
  <2>1. PICK e : e = IF next(a) = {} THEN L ELSE Min(next(a)) - 1
    OBVIOUS
  <2>2. e \in Int /\ e <= L
    <3> HIDE DEF next
    <3> QED
      BY <1>1, <1>2, <2>1
  <2>3. \A k \in a .. e : text[k] \in S
    BY <1>1, <2>2
  <2>4. SubSeq(text, a, e) \in Seq(S)
    <3>1. a \in Int
      BY <1>1
    <3> QED
      BY <2>2, <2>3, <3>1, SubSeqProperties
  <2> HIDE DEF next
  <2> QED
    BY <2>1, <2>4
<1>4. base \in [Nat -> Seq(Seq(S))]
  <2>1. <<head(L + 1)>> \in Seq(Seq(S))
    <3>1. L + 1 \in 1 .. L + 1
      BY <1>1
    <3>2. head(L + 1) \in Seq(S)
      <4> HIDE DEF head
      <4> QED
        BY <1>3, <3>1
    <3> HIDE DEF head
    <3> QED
      BY <3>2
  <2> HIDE DEF head
  <2> QED
    BY <2>1
<1>5. down \in [Nat -> Nat] /\ \A r \in Nat : r > 0 => down[r] < r
  <2>1. ASSUME NEW r \in Nat
        PROVE  /\ (IF next(on(r)) = {} \/ r > L THEN 0
                                                     ELSE on(Min(next(on(r))) + Len(sep))) \in Nat
               /\ r > 0 => (IF next(on(r)) = {} \/ r > L THEN 0
                                                        ELSE on(Min(next(on(r))) + Len(sep))) < r
    <3>1. CASE next(on(r)) = {} \/ r > L
      <4> HIDE DEF next, on
      <4> QED
        BY <3>1
    <3>2. CASE ~(next(on(r)) = {} \/ r > L)
      <4>1. on(r) \in 1 .. L + 1
        BY <1>1, <3>2
      <4>2. PICK a : a = on(r)
        OBVIOUS
      <4>3. a \in 1 .. L + 1 /\ next(a) # {}
        <5> HIDE DEF next, on
        <5> QED
          BY <3>2, <4>1, <4>2
      <4>4. PICK m : m = Min(next(a))
        OBVIOUS
      <4>5. m + Len(sep) \in a + 1 .. L + 1 /\ m \in a .. L
        <5> HIDE DEF next, on
        <5> QED
          BY <1>2, <4>3, <4>4
      <4>6. a = (L + 1) - r /\ on(m + Len(sep)) = (L + 1) - (m + Len(sep))
        BY <4>2
      <4>7. on(m + Len(sep)) \in Nat /\ on(m + Len(sep)) < r
        <5> HIDE DEF next, on
        <5> QED
          BY <1>1, <4>3, <4>5, <4>6
      <4>8. on(Min(next(on(r))) + Len(sep)) = on(m + Len(sep))
        <5> HIDE DEF next, on
        <5> QED
          BY <4>2, <4>4
      <4> HIDE DEF next, on
      <4> QED
        BY <3>2, <4>7, <4>8
    <3> QED
      BY <3>1, <3>2
  <2> HIDE DEF next, on
  <2> QED
    BY <2>1
<1>6. step \in [Nat \X Seq(Seq(S)) -> Seq(Seq(S))]
  <2>1. ASSUME NEW r \in Nat, NEW s \in Seq(Seq(S))
        PROVE  (IF r > L THEN <<>> ELSE IF next(on(r)) = {} THEN <<head(on(r))>>
                ELSE <<head(on(r))>> \o s) \in Seq(Seq(S))
    <3>1. CASE r > L
      BY <3>1
    <3>2. CASE ~(r > L)
      <4>1. on(r) \in 1 .. L + 1
        BY <1>1, <3>2
      <4>2. head(on(r)) \in Seq(S)
        <5> HIDE DEF head, on
        <5> QED
          BY <1>3, <4>1
      <4>3. PICK h : h = head(on(r))
        OBVIOUS
      <4>4. <<h>> \in Seq(Seq(S)) /\ <<h>> \o s \in Seq(Seq(S))
        <5> HIDE DEF head, on
        <5>1. h \in Seq(S)
          BY <4>2, <4>3
        <5>2. <<h>> \in Seq(Seq(S))
          BY <5>1
        <5> QED
          BY <5>2, ConcatProperties
      <4> HIDE DEF head, on, next
      <4> QED
        BY <3>2, <4>3, <4>4
    <3> QED
      BY <3>1, <3>2
  <2> HIDE DEF head, on, next
  <2> QED
    BY <2>1
<1>7. PICK f \in [Nat -> Seq(Seq(S))] : Descends(f, 0, base, down, step)
  <2> HIDE DEF base, down, step
  <2> QED
    BY <1>4, <1>5, <1>6, DescentExists
<1> DEFINE g == [a \in 1 .. L + 1 |-> f[on(a)]]
<1>8. ASSUME NEW a \in 1 .. L + 1
      PROVE  g[a] = IF next(a) = {} THEN <<SubSeq(text, a, L)>>
                    ELSE <<SubSeq(text, a, Min(next(a)) - 1)>> \o g[Min(next(a)) + Len(sep)]
  <2>1. on(a) \in 0 .. L /\ on(on(a)) = a /\ on(a) \in Nat
    BY <1>1
  <2>2. PICK r : r = on(a)
    OBVIOUS
  <2>3. r \in Nat /\ ~(r > L) /\ on(r) = a
    <3> HIDE DEF on
    <3> QED
      BY <1>1, <2>1, <2>2
  <2>4. f[r] = IF r <= 0 THEN base[r] ELSE step[<<r, f[down[r]]>>]
    <3> HIDE DEF base, down, step
    <3> QED
      BY <1>7, <2>3 DEF Descends
  <2>5. g[a] = f[r]
    BY <2>2
  <2>6. CASE r <= 0
    <3>1. a = L + 1
      <4>1. r = 0
        BY <2>3, <2>6
      <4>2. on(0) = L + 1
        BY <1>1
      <4> HIDE DEF on
      <4> QED
        BY <2>3, <4>1, <4>2
    <3>2. next(a) = {}
      BY <1>1, <3>1, OccurrenceInside
    <3>3. base[r] = <<head(a)>>
      BY <2>3, <3>1
    <3>4. head(a) = SubSeq(text, a, L)
      BY <3>2
    <3> HIDE DEF base, next, head, g
    <3> QED
      BY <2>4, <2>5, <2>6, <3>2, <3>3, <3>4, Zenon
  <2>7. CASE ~(r <= 0)
    <3>1. down[r] \in Nat /\ f[down[r]] \in Seq(Seq(S))
      <4> HIDE DEF down
      <4> QED
        BY <1>5, <2>3
    <3>2. PICK s : s = f[down[r]]
      OBVIOUS
    <3>3. s \in Seq(Seq(S))
      BY <3>1, <3>2, Zenon
    <3>4. step[<<r, s>>] = IF next(on(r)) = {} THEN <<head(on(r))>> ELSE <<head(on(r))>> \o s
      <4> HIDE DEF next, head, on
      <4> QED
        BY <2>3, <3>3
    <3>5. f[r] = IF next(a) = {} THEN <<head(a)>> ELSE <<head(a)>> \o s
      <4> HIDE DEF next, head, on, step, down, base
      <4> QED
        BY <2>3, <2>4, <2>7, <3>2, <3>4, Zenon
    <3>6. CASE next(a) = {}
      <4>1. head(a) = SubSeq(text, a, L)
        BY <3>6
      <4> HIDE DEF next, head, g
      <4> QED
        BY <2>5, <3>5, <3>6, <4>1, Zenon
    <3>7. CASE next(a) # {}
      <4>1. head(a) = SubSeq(text, a, Min(next(a)) - 1)
        BY <3>7
      <4>2. PICK m : m = Min(next(a))
        OBVIOUS
      <4>3. m + Len(sep) \in a + 1 .. L + 1 /\ m + Len(sep) \in 1 .. L + 1
        <5>1. m + Len(sep) \in a + 1 .. L + 1
          <6> HIDE DEF next
          <6> QED
            BY <1>2, <3>7, <4>2
        <5>2. a \in Nat /\ a > 0
          BY <1>1
        <5> QED
          BY <1>1, <5>1, <5>2
      <4>4. g[m + Len(sep)] = f[on(m + Len(sep))]
        BY <4>3
      <4>5. down[r] = on(m + Len(sep))
        <5>1. down[r] = IF next(on(r)) = {} \/ r > L THEN 0 ELSE on(Min(next(on(r))) + Len(sep))
          <6> HIDE DEF next, on
          <6> QED
            BY <2>3
        <5> HIDE DEF next, on, down
        <5> QED
          BY <2>3, <3>7, <4>2, <5>1, Zenon
      <4>6. s = g[m + Len(sep)]
        <5> HIDE DEF next, on, down, g
        <5> QED
          BY <3>2, <4>4, <4>5, Zenon
      <4> HIDE DEF next, head, g, on, down
      <4> QED
        BY <2>5, <3>5, <3>7, <4>1, <4>2, <4>6, Zenon
    <3> QED
      BY <3>6, <3>7
  <2> QED
    BY <2>6, <2>7
<1>9. IsExploded(g, sep, text)
  <2>1. g = [a \in 1 .. L + 1 |-> g[a]]
    <3> DEFINE h == [a \in 1 .. L + 1 |-> f[on(a)]]
    <3>1. h = [a \in 1 .. L + 1 |-> h[a]]
      OBVIOUS
    <3> QED
      BY <3>1
  <2> HIDE DEF g
  <2> QED
    BY <1>8, <2>1 DEF IsExploded
<1>10. Explode(sep, text) = (CHOOSE h : IsExploded(h, sep, text))[1]
  BY DEF Explode, IsExploded
<1>11. PICK h : h = (CHOOSE x : IsExploded(x, sep, text)) /\ IsExploded(h, sep, text)
  BY <1>9
<1>12. ASSUME NEW a \in 1 .. L + 1
       PROVE  /\ next(a) = {} => h[a] = <<SubSeq(text, a, L)>>
              /\ next(a) # {} =>
                   h[a] = <<SubSeq(text, a, Min(next(a)) - 1)>> \o h[Min(next(a)) + Len(sep)]
  BY <1>11 DEF IsExploded
<1> DEFINE T == {r \in Nat : r <= L => h[on(r)] \in Seq(Seq(S))}
<1>13. T = Nat
  <2>1. ASSUME NEW r \in Nat, \A k \in Nat : k < r => k \in T PROVE r \in T
    <3>1. CASE r <= L
      <4>1. on(r) \in 1 .. L + 1 /\ r = (L + 1) - on(r)
        BY <1>1, <3>1
      <4>2. PICK a : a = on(r)
        OBVIOUS
      <4>3. a \in 1 .. L + 1 /\ r = (L + 1) - a /\ head(a) \in Seq(S)
        <5> HIDE DEF on, head
        <5> QED
          BY <1>3, <4>1, <4>2
      <4>4. CASE next(a) = {}
        <5>1. h[a] = <<head(a)>>
          BY <1>12, <4>3, <4>4
        <5>2. h[a] \in Seq(Seq(S))
          <6> HIDE DEF head
          <6> QED
            BY <4>3, <5>1
        <5> HIDE DEF on
        <5> QED
          BY <4>2, <5>2
      <4>5. CASE next(a) # {}
        <5>1. h[a] = <<head(a)>> \o h[Min(next(a)) + Len(sep)]
          BY <1>12, <4>3, <4>5
        <5>2. PICK b : b = Min(next(a)) + Len(sep)
          OBVIOUS
        <5>3. b \in a + 1 .. L + 1
          <6> HIDE DEF next
          <6> QED
            BY <1>2, <4>3, <4>5, <5>2
        <5>4. on(b) \in Nat /\ on(b) < r /\ on(b) <= L /\ on(on(b)) = b
          BY <1>1, <4>3, <5>3
        <5>5. on(b) \in T
          <6> HIDE DEF T, on
          <6> QED
            BY <2>1, <5>4
        <5>6. h[b] \in Seq(Seq(S))
          <6>1. h[on(on(b))] \in Seq(Seq(S))
            <7> HIDE DEF on
            <7> QED
              BY <5>4, <5>5
          <6> HIDE DEF on
          <6> QED
            BY <5>4, <6>1
        <5>7. <<head(a)>> \o h[b] \in Seq(Seq(S))
          <6>1. <<head(a)>> \in Seq(Seq(S))
            <7> HIDE DEF head
            <7> QED
              BY <4>3
          <6> HIDE DEF head
          <6> QED
            BY <5>6, <6>1, ConcatProperties
        <5>8. h[on(r)] \in Seq(Seq(S))
          <6> HIDE DEF head, on, next
          <6> QED
            BY <4>2, <5>1, <5>2, <5>7, Zenon
        <5> HIDE DEF on
        <5> QED
          BY <5>8
      <4> QED
        BY <4>4, <4>5
    <3> QED
      BY <3>1
  <2>2. T \in SUBSET Nat
    OBVIOUS
  <2> HIDE DEF T
  <2> QED
    BY <2>1, <2>2, StrongInduction
<1>14. h[1] \in Seq(Seq(S))
  <2>1. L \in T /\ on(L) = 1
    <3> HIDE DEF T
    <3> QED
      BY <1>1, <1>13
  <2>2. h[on(L)] \in Seq(Seq(S))
    <3> HIDE DEF on
    <3> QED
      BY <1>1, <2>1
  <2> HIDE DEF on
  <2> QED
    BY <2>1, <2>2
<1> QED
  BY <1>10, <1>11, <1>14, Zenon

-----------------------------------------------------------------------------
NamesOf(binds) == {binds[k].name : k \in DOMAIN binds}

(* What the columns before column n have bound, once more than names with  *)
(* no number: every element of their datasets, and nothing else.           *)
ElementBound(c, szs, names) ==
  /\ c.tag \in DOMAIN szs
  /\ \A q \in 1 .. Len(c.fields), m \in 1 .. szs[c.tag] : ElementName(c, c.fields[q], m) \in names

ElementNames(c, count) ==
  {ElementName(c, c.fields[q], m) : q \in 1 .. Len(c.fields), m \in 1 .. count}

ElementOf(c, szs, x) ==
  /\ c.tag \in DOMAIN szs
  /\ \E q \in 1 .. Len(c.fields), m \in 1 .. szs[c.tag] : x = ElementName(c, c.fields[q], m)

Bindings(cs, n, names, szs) ==
  /\ \A t \in DOMAIN szs : szs[t] \in Nat
  /\ \A k \in 1 .. n - 1 : cs[k].type = "DATASET" => ElementBound(cs[k], szs, names)
  /\ \A x \in names : x.element # -1 =>
       \E k \in 1 .. n - 1 : cs[k].type = "DATASET" /\ ElementOf(cs[k], szs, x)

AlignInv ==
  /\ col \in 1 .. Len(cols) + 1
  /\ phase = "load" => col = 1 /\ DOMAIN rep_hash = {} /\ time = NotTrying
  /\ phase # "done" => verdict # "accepted"
  /\ Trying => phase = "row" /\ col <= Len(cols) /\ cols[col].type = "DATETIME"
  /\ verdict = "accepted" => col = Len(cols) + 1
  /\ Bindings(cols, col, DOMAIN rep_hash, sizes)

(* Replacing escape sequences leaves a text, and one that is not empty:    *)
(* its first character stays, or another one stands there.                 *)
LEMMA ReplacedType ==
  ASSUME NEW S, NEW text \in Seq(S), text # <<>>, NEW c, NEW char
  PROVE  Replaced(text, c, char) # <<>> /\ Replaced(text, c, char) \in Seq(S \cup {char})
<1> DEFINE taken == Taken(text, c)
           T == S \cup {char}
           part(i) == IF taken[i] THEN <<char>> ELSE IF i > 1 /\ taken[i - 1] THEN <<>> ELSE <<text[i]>>
           parts == [i \in DOMAIN text |-> part(i)]
<1>1. Replaced(text, c, char) = FlattenSeq(parts)
  BY DEF Replaced
<1>2. DOMAIN text = 1 .. Len(text) /\ Len(text) \in Nat \ {0} /\ \A i \in 1 .. Len(text) : text[i] \in T
  BY EmptySeq, LenProperties, ElementOfSeq
<1>3. ASSUME NEW i \in 1 .. Len(text) PROVE part(i) \in Seq(T) /\ (i = 1 => part(i) # <<>>)
  <2> HIDE DEF taken
  <2>1. /\ char \in T /\ <<char>> # <<>> /\ text[i] \in T /\ <<text[i]>> # <<>>
    BY <1>2
  <2> HIDE DEF T
  <2>2. <<char>> \in Seq(T) /\ <<text[i]>> \in Seq(T) /\ <<>> \in Seq(T)
    BY <2>1
  <2>3. CASE taken[i]
    BY <2>1, <2>2, <2>3
  <2>4. CASE ~taken[i] /\ i > 1 /\ taken[i - 1]
    BY <2>1, <2>2, <2>4
  <2>5. CASE ~taken[i] /\ ~(i > 1 /\ taken[i - 1])
    BY <2>1, <2>2, <2>5
  <2> QED
    BY <2>3, <2>4, <2>5
<1>5. parts \in Seq(Seq(T)) /\ Len(parts) = Len(text) /\ parts[1] = part(1)
  <2> HIDE DEF part
  <2>1. parts \in [1 .. Len(text) -> Seq(T)]
    BY <1>2, <1>3
  <2> QED
    BY <1>2, <2>1
<1>6. parts[1] \in Seq(T) /\ parts[1] # <<>>
  BY <1>2, <1>3, <1>5
<1> HIDE DEF parts, part, taken, T
<1>7. parts = <<parts[1]>> \o Tail(parts) /\ <<parts[1]>> \in Seq(Seq(T)) /\ Tail(parts) \in Seq(Seq(T))
  BY <1>2, <1>5
<1>8. PICK rest : rest = Tail(parts)
  OBVIOUS
<1>9. FlattenSeq(parts) = parts[1] \o FlattenSeq(rest)
  <2>1. FlattenSeq(<<parts[1]>> \o rest) = FlattenSeq(<<parts[1]>>) \o FlattenSeq(rest)
    BY <1>7, <1>8, FlattenConcat
  <2>2. FlattenSeq(<<parts[1]>>) = parts[1]
    BY <1>6, FlattenOne
  <2> QED
    BY <1>7, <1>8, <2>1, <2>2
<1>10. FlattenSeq(rest) \in Seq(T) /\ FlattenSeq(parts) \in Seq(T)
  BY <1>5, <1>7, <1>8, FlattenType
<1>11. parts[1] \o FlattenSeq(rest) # <<>>
  BY <1>6, <1>10
<1> QED
  BY <1>1, <1>9, <1>10, <1>11 DEF T

LEMMA ConvertFormatType ==
  ASSUME NEW S, NEW text \in Seq(S), text # <<>>
  PROVE  ConvertFormat(text) # <<>> /\ \E T : ConvertFormat(text) \in Seq(T)
<1>1. PICK a : a = Replaced(text, Word("n"), Newline)
  OBVIOUS
<1>2. PICK b : b = Replaced(a, Word("t"), Tab)
  OBVIOUS
<1>3. PICK c : c = Replaced(b, Backslash, Backslash)
  OBVIOUS
<1>4. PICK d : d = Replaced(c, Mark("'"), Comma)
  OBVIOUS
<1>5. PICK e : e = Replaced(d, Mark("\""), Mark("\""))
  OBVIOUS
<1>6. ConvertFormat(text) = Replaced(e, Num(0), Blank)
  BY <1>1, <1>2, <1>3, <1>4, <1>5 DEF ConvertFormat
<1>11. a # <<>> /\ \E T : a \in Seq(T)
  BY <1>1, ReplacedType
<1>12. b # <<>> /\ \E T : b \in Seq(T)
  BY <1>2, <1>11, ReplacedType
<1>13. c # <<>> /\ \E T : c \in Seq(T)
  BY <1>3, <1>12, ReplacedType
<1>14. d # <<>> /\ \E T : d \in Seq(T)
  BY <1>4, <1>13, ReplacedType
<1>15. e # <<>> /\ \E T : e \in Seq(T)
  BY <1>5, <1>14, ReplacedType
<1> QED
  BY <1>6, <1>15, ReplacedType

LEMMA ColumnsTyped ==
  ASSUME NEW i \in Inputs, NEW c \in FileColumns(i)
  PROVE  /\ c.fields \in Seq(Seq(STRING)) /\ c.tag \in Seq(STRING)
         /\ c.sep # <<>> /\ \E S : c.sep \in Seq(S)
<1>1. PICK l \in Range(i.lines) : l.kind = "column" /\ c = ColumnNew(l)
  BY DEF FileColumns
<1>2. /\ l.fields \in Seq(Seq(STRING)) /\ l.type.tag \in Seq(STRING)
      /\ l.type.sep \in Seq(Range(l.type.sep))
  BY <1>1, InputsAssumption
<1>3. c.fields = l.fields /\ c.tag = l.type.tag
      /\ c.sep = ConvertFormat(IF l.type.sep = <<>> THEN <<Backslash, Word("n")>> ELSE l.type.sep)
  BY <1>1 DEF ColumnNew
<1>4. <<Backslash, Word("n")>> \in Seq({Backslash, Word("n")}) /\ <<Backslash, Word("n")>> # <<>>
  OBVIOUS
<1>5. c.sep # <<>> /\ \E S : c.sep \in Seq(S)
  <2>1. CASE l.type.sep = <<>>
    BY <1>3, <1>4, <2>1, ConvertFormatType
  <2>2. CASE l.type.sep # <<>>
    BY <1>2, <1>3, <2>2, ConvertFormatType
  <2> QED
    BY <2>1, <2>2
<1> QED
  BY <1>2, <1>3, <1>5

LEMMA InsertNames ==
  ASSUME NEW hash, NEW binds
  PROVE  DOMAIN InsertAll(hash, binds) = DOMAIN hash \cup NamesOf(binds)
BY DEF InsertAll, NamesOf

(* Names without a number change nothing about datasets.                   *)
LEMMA PlainAdded ==
  ASSUME NEW cs, NEW n \in Nat, n > 0, NEW names, NEW szs, Bindings(cs, n, names, szs),
         cs[n].type # "DATASET", NEW N, \A x \in N : x.element = -1
  PROVE  Bindings(cs, n + 1, names \cup N, szs)
<1>1. \A k \in 1 .. (n + 1) - 1 : k \in 1 .. n - 1 \/ k = n
  OBVIOUS
<1>2. \A k \in 1 .. n - 1 : k \in 1 .. (n + 1) - 1
  OBVIOUS
<1>3. \A k \in 1 .. (n + 1) - 1 : cs[k].type = "DATASET" => ElementBound(cs[k], szs, names \cup N)
  BY <1>1 DEF Bindings, ElementBound
<1>4. \A x \in names \cup N : x.element # -1 =>
        \E k \in 1 .. (n + 1) - 1 : cs[k].type = "DATASET" /\ ElementOf(cs[k], szs, x)
  BY <1>2 DEF Bindings
<1> QED
  BY <1>3, <1>4 DEF Bindings

(* A dataset that is as long as its group binds its elements.              *)
LEMMA DatasetAdded ==
  ASSUME NEW cs, NEW n \in Nat, n > 0, NEW names, NEW szs, Bindings(cs, n, names, szs),
         cs[n].type = "DATASET", NEW count \in Nat,
         cs[n].tag \in DOMAIN szs => szs[cs[n].tag] = count,
         NEW szs2, szs2 = [t \in DOMAIN szs \cup {cs[n].tag} |->
                             IF t = cs[n].tag THEN count ELSE szs[t]],
         NEW N, N = ElementNames(cs[n], count)
  PROVE  Bindings(cs, n + 1, names \cup N, szs2)
<1>1. \A k \in 1 .. (n + 1) - 1 : k \in 1 .. n - 1 \/ k = n
  OBVIOUS
<1>2. n \in 1 .. (n + 1) - 1 /\ \A k \in 1 .. n - 1 : k \in 1 .. (n + 1) - 1
  OBVIOUS
<1>3. /\ \A t \in DOMAIN szs : t \in DOMAIN szs2 /\ szs2[t] = szs[t]
      /\ cs[n].tag \in DOMAIN szs2 /\ szs2[cs[n].tag] = count
      /\ \A t \in DOMAIN szs2 : szs2[t] \in Nat
  BY DEF Bindings
<1>4. ElementBound(cs[n], szs2, names \cup N)
  BY <1>3 DEF ElementBound, ElementNames
<1>5. ASSUME NEW k \in 1 .. (n + 1) - 1, cs[k].type = "DATASET"
      PROVE  ElementBound(cs[k], szs2, names \cup N)
  <2>1. CASE k = n
    BY <1>4, <2>1
  <2>2. CASE k \in 1 .. n - 1
    BY <1>3, <1>5, <2>2 DEF Bindings, ElementBound
  <2> QED
    BY <1>1, <2>1, <2>2
<1>6. ASSUME NEW x \in names \cup N, x.element # -1
      PROVE  \E k \in 1 .. (n + 1) - 1 : cs[k].type = "DATASET" /\ ElementOf(cs[k], szs2, x)
  <2>1. CASE x \in N
    <3>1. ElementOf(cs[n], szs2, x)
      BY <1>3, <2>1 DEF ElementOf, ElementNames
    <3> QED
      BY <1>2, <3>1
  <2>2. CASE x \in names
    <3>1. PICK k \in 1 .. n - 1 : cs[k].type = "DATASET" /\ ElementOf(cs[k], szs, x)
      BY <1>6, <2>2 DEF Bindings
    <3>2. ElementOf(cs[k], szs2, x)
      BY <1>3, <3>1 DEF ElementOf
    <3> QED
      BY <1>2, <3>1, <3>2
  <2> QED
    BY <2>1, <2>2
<1> QED
  BY <1>3, <1>5, <1>6 DEF Bindings

(* What fields are bound to without their number.                          *)
Postfixes == {"", "original_file_name", "mime_type", "file_size", "suffix",
              "use_cc", "cc_commercial_use", "cc_modification"}
Parts == STRING \cup Postfixes

Plains(texts) == {[name |-> Name(p), text |-> t] : p \in Seq(Parts), t \in texts}

LEMMA WiderSeqs ==
  ASSUME NEW P, NEW Q, P \in SUBSET Q, NEW f \in Seq(Seq(P))
  PROVE  f \in Seq(Seq(Q))
<1>1. /\ Len(f) \in Nat /\ f \in [1 .. Len(f) -> Seq(P)]
  BY LenProperties
<1>2. \A k \in 1 .. Len(f) : f[k] \in Seq(Q)
  <2> SUFFICES ASSUME NEW k \in 1 .. Len(f) PROVE f[k] \in Seq(Q)
    OBVIOUS
  <2>1. PICK g : g = f[k]
    OBVIOUS
  <2>2. g \in Seq(P)
    BY <1>1, <2>1
  <2>3. Len(g) \in Nat /\ g \in [1 .. Len(g) -> P]
    BY <2>2, LenProperties
  <2>4. g \in [1 .. Len(g) -> Q]
    BY <2>3
  <2>5. g \in Seq(Q)
    BY <2>3, <2>4, FunctionIsSeq
  <2> QED
    BY <2>1, <2>5
<1>3. f \in [1 .. Len(f) -> Seq(Q)]
  BY <1>1, <1>2
<1> QED
  BY <1>1, <1>3, FunctionIsSeq

LEMMA OnePart ==
  ASSUME NEW P
  PROVE  <<>> \in Seq(P) /\ \A x \in P : <<x>> \in Seq(P)
OBVIOUS

LEMMA ColumnFields ==
  ASSUME LoadInv, cols[col] \in FileColumns(input)
  PROVE  IniCol.fields \in Seq(Seq(Parts))
<1>1. PICK fields : fields = IniCol.fields
  OBVIOUS
<1>2. fields \in Seq(Seq(STRING))
  BY <1>1, ColumnsTyped DEF LoadInv, IniCol
<1>3. STRING \in SUBSET Parts
  BY Zenon DEF Parts
<1>4. fields \in Seq(Seq(Parts))
  BY <1>2, <1>3, WiderSeqs
<1> QED
  BY <1>1, <1>4

LEMMA BindsPlain ==
  ASSUME NEW fields \in Seq(Seq(Parts)), NEW postfix \in Seq(Parts), NEW text,
         NEW do_escape, NEW texts, text \in texts, Escaped(text) \in texts
  PROVE  Binds(fields, text, do_escape, postfix) \in Seq(Plains(texts))
<1>1. DOMAIN fields = 1 .. Len(fields) /\ Len(fields) \in Nat
      /\ \A q \in 1 .. Len(fields) : fields[q] \in Seq(Parts)
  BY LenProperties, ElementOfSeq
<1>2. ASSUME NEW q \in 1 .. Len(fields)
      PROVE  [name |-> Name(fields[q] \o postfix),
              text |-> IF do_escape THEN Escaped(text) ELSE text] \in Plains(texts)
  <2>1. fields[q] \o postfix \in Seq(Parts)
    BY <1>1, ConcatProperties
  <2>2. (IF do_escape THEN Escaped(text) ELSE text) \in texts
    OBVIOUS
  <2>3. PICK p \in Seq(Parts) : p = fields[q] \o postfix
    BY <2>1
  <2>4. PICK t \in texts : t = IF do_escape THEN Escaped(text) ELSE text
    BY <2>2
  <2>5. [name |-> Name(p), text |-> t] \in Plains(texts)
    BY DEF Plains
  <2> QED
    BY <2>3, <2>4, <2>5, Zenon
<1>3. PICK b : b = Binds(fields, text, do_escape, postfix)
  OBVIOUS
<1>4. b \in [1 .. Len(fields) -> Plains(texts)]
  <2>1. b = [q \in 1 .. Len(fields) |->
               [name |-> Name(fields[q] \o postfix),
                text |-> IF do_escape THEN Escaped(text) ELSE text]]
    BY <1>1, <1>3, Zenon DEF Binds
  <2> QED
    BY <1>2, <2>1, Zenon
<1>5. b \in Seq(Plains(texts))
  BY <1>1, <1>4, FunctionIsSeq
<1> QED
  BY <1>3, <1>5

LEMMA PlainNames ==
  ASSUME NEW texts, NEW binds \in Seq(Plains(texts))
  PROVE  \A x \in NamesOf(binds) : x.element = -1
<1>1. DOMAIN binds = 1 .. Len(binds) /\ \A k \in 1 .. Len(binds) : binds[k] \in Plains(texts)
  BY LenProperties, ElementOfSeq
<1>2. \A b \in Plains(texts) : b.name.element = -1
  BY DEF Plains, Name
<1> QED
  BY <1>1, <1>2 DEF NamesOf

-----------------------------------------------------------------------------
(* What the steps of a row come to for the bindings: the cell is refused,  *)
(* it takes another step, or its names are bound.                          *)
Refused ==
  /\ phase' = "done" /\ verdict' = "rejected" /\ time' = NotTrying
  /\ UNCHANGED <<cols, col, rep_hash, sizes>>

Waits ==
  /\ col <= Len(cols) /\ cols[col].type = "DATETIME"
  /\ UNCHANGED <<phase, cols, col, rep_hash, sizes, verdict>>

CellPassed(N) ==
  /\ col <= Len(cols) /\ col' = col + 1 /\ time' = NotTrying
  /\ DOMAIN rep_hash' = DOMAIN rep_hash \cup N
  /\ UNCHANGED <<phase, cols, verdict>>

BoundPlainly ==
  /\ cols[col].type # "DATASET" /\ UNCHANGED sizes
  /\ \E N : CellPassed(N) /\ \A x \in N : x.element = -1

BoundAsDataset ==
  /\ cols[col].type = "DATASET"
  /\ \E count \in Nat :
       /\ cols[col].tag \in DOMAIN sizes => sizes[cols[col].tag] = count
       /\ sizes' = [t \in DOMAIN sizes \cup {cols[col].tag} |->
                      IF t = cols[col].tag THEN count ELSE sizes[t]]
       /\ \E N : CellPassed(N) /\ N = ElementNames(cols[col], count)

LEMMA GiveBinds ==
  ASSUME NEW binds, \E given \in {binds} : rep_hash' = InsertAll(rep_hash, given),
         col <= Len(cols), col' = col + 1, time' = NotTrying, UNCHANGED <<phase, cols, verdict>>
  PROVE  CellPassed(NamesOf(binds))
<1>1. rep_hash' = InsertAll(rep_hash, binds)
  OBVIOUS
<1>2. DOMAIN rep_hash' = DOMAIN rep_hash \cup NamesOf(binds)
  BY <1>1, InsertNames
<1> QED
  BY <1>2 DEF CellPassed

LEMMA TextBinds ==
  ASSUME LoadInv, AlignInv, AtCell \/ Trying, cols[col].type # "DATASET", NEW text, NEW do_escape,
         \E binds : binds = Binds(IniCol.fields, text, do_escape, <<>>) /\ Give(binds),
         UNCHANGED sizes
  PROVE  BoundPlainly
<1>1. PICK binds : binds = Binds(IniCol.fields, text, do_escape, <<>>) /\ Give(binds)
  OBVIOUS
<1>2. col <= Len(cols) /\ col \in 1 .. Len(cols) /\ cols[col] \in FileColumns(input)
  <2>1. col <= Len(cols) /\ col \in 1 .. Len(cols) + 1
    BY DEF AtCell, AlignInv
  <2>2. cols \in Seq(FileColumns(input)) /\ Len(cols) \in Nat
    BY LenProperties DEF LoadInv
  <2>3. col \in 1 .. Len(cols)
    BY <2>1, <2>2
  <2> QED
    BY <2>1, <2>2, <2>3, ElementOfSeq
<1>3. IniCol.fields \in Seq(Seq(Parts))
  BY <1>2, ColumnFields
<1>4. PICK fields : fields = IniCol.fields
  OBVIOUS
<1>5. fields \in Seq(Seq(Parts)) /\ binds = Binds(fields, text, do_escape, <<>>)
  BY <1>1, <1>3, <1>4
<1>6. binds \in Seq(Plains({text, Escaped(text)}))
  <2>1. <<>> \in Seq(Parts)
    BY OnePart
  <2> QED
    BY <1>5, <2>1, BindsPlain
<1>7. \A x \in NamesOf(binds) : x.element = -1
  BY <1>6, PlainNames
<1>8. CellPassed(NamesOf(binds))
  BY <1>1, <1>2, GiveBinds DEF Give
<1> QED
  BY <1>7, <1>8 DEF BoundPlainly

LEMMA TextGiven ==
  ASSUME LoadInv, AlignInv, AtCell \/ Trying, cols[col].type # "DATASET",
         \E text, do_escape : GiveText(text, do_escape)
  PROVE  BoundPlainly
<1>1. PICK text, do_escape : GiveText(text, do_escape)
  OBVIOUS
<1>2. /\ \E binds : binds = Binds(IniCol.fields, text, do_escape, <<>>) /\ Give(binds)
      /\ UNCHANGED sizes
  BY <1>1 DEF GiveText
<1> QED
  BY <1>2, TextBinds

LEMMA TypeMet ==
  ASSUME NEW type, AtType(type)
  PROVE  AtCell /\ phase = "row" /\ col <= Len(cols) /\ cols[col].type = type
BY DEF AtType, AtCell, IniCol

(* The cell's column is one of those of the file, and the cell a text.     *)
LEMMA CellTyped ==
  ASSUME LoadInv, AlignInv, AtCell
  PROVE  /\ cols[col] \in FileColumns(input) /\ input \in Inputs /\ col \in 1 .. Len(cols)
         /\ Text \in Seq(Range(Text))
<1>1. /\ input \in Inputs /\ input.cells \in Seq(Range(input.cells)) /\ Len(input.cells) \in Nat
      /\ cols \in Seq(FileColumns(input)) /\ Len(cols) \in Nat
  BY LinesTyped, LenProperties DEF LoadInv
<1>2. col \in 1 .. Len(cols) /\ col \in 1 .. Len(input.cells)
  BY <1>1 DEF AtCell, AlignInv
<1>3. cols[col] \in FileColumns(input) /\ input.cells[col] \in Range(input.cells)
  BY <1>1, <1>2, ElementOfSeq
<1>4. Text \in Seq(Range(Text))
  BY <1>1, <1>3, InputsAssumption DEF Text
<1> QED
  BY <1>1, <1>2, <1>3, <1>4

LEMMA FileBound ==
  ASSUME LoadInv, AlignInv, ReadFile
  PROVE  BoundPlainly
<1>1. /\ AtCell /\ col <= Len(cols) /\ cols[col].type = "FILE" /\ UNCHANGED sizes
      /\ Give(FileBinds(IF Text = <<>> THEN <<>> ELSE <<Tag("file")>>))
  BY TypeMet DEF ReadFile
<1>2. PICK text : text = IF Text = <<>> THEN <<>> ELSE <<Tag("file")>>
  OBVIOUS
<1>3. PICK fields : fields = IniCol.fields
  OBVIOUS
<1>4. fields \in Seq(Seq(Parts))
  BY <1>1, <1>3, CellTyped, ColumnFields
<1> DEFINE texts == {text, Escaped(text)}
           group(k) == Binds(fields, text, FALSE, IF k = 1 THEN <<>> ELSE <<FileNames[k]>>)
           groups == [k \in 1 .. 5 |-> group(k)]
<1>5. \A k \in 1 .. 5 : group(k) \in Seq(Plains(texts))
  <2> SUFFICES ASSUME NEW k \in 1 .. 5 PROVE group(k) \in Seq(Plains(texts))
    OBVIOUS
  <2>1. PICK postfix : postfix = IF k = 1 THEN <<>> ELSE <<FileNames[k]>>
    OBVIOUS
  <2>2. postfix \in Seq(Parts)
    <3>1. CASE k = 1
      BY <2>1, <3>1, OnePart
    <3>2. CASE k # 1
      <4>1. k = 2 \/ k = 3 \/ k = 4 \/ k = 5
        BY <3>2
      <4>2. /\ FileNames[2] = "original_file_name" /\ FileNames[3] = "mime_type"
            /\ FileNames[4] = "file_size" /\ FileNames[5] = "suffix"
        BY DEF FileNames
      <4>3. /\ "original_file_name" \in Postfixes /\ "mime_type" \in Postfixes
            /\ "file_size" \in Postfixes /\ "suffix" \in Postfixes
        BY Zenon DEF Postfixes
      <4>4. FileNames[k] \in Postfixes
        BY <4>1, <4>2, <4>3, Zenon
      <4>5. FileNames[k] \in Parts
        BY <4>4, Zenon DEF Parts
      <4>6. <<FileNames[k]>> \in Seq(Parts)
        BY <4>5, OnePart
      <4> QED
        BY <2>1, <3>2, <4>6, Zenon
    <3> QED
      BY <3>1, <3>2
  <2>3. text \in texts /\ Escaped(text) \in texts
    OBVIOUS
  <2> HIDE DEF texts
  <2>4. Binds(fields, text, FALSE, postfix) \in Seq(Plains(texts))
    BY <1>4, <2>2, <2>3, BindsPlain
  <2> QED
    BY <2>1, <2>4
<1>6. groups \in Seq(Seq(Plains(texts)))
  <2>1. groups \in [1 .. 5 -> Seq(Plains(texts))]
    <3> HIDE DEF group, texts
    <3> QED
      BY <1>5
  <2> HIDE DEF groups, texts
  <2> QED
    BY <2>1, FunctionIsSeq
<1>7. PICK binds : binds = FlattenSeq(groups)
  OBVIOUS
<1>8. binds \in Seq(Plains(texts))
  <2> HIDE DEF groups, texts
  <2> QED
    BY <1>6, <1>7, FlattenType
<1>9. \A x \in NamesOf(binds) : x.element = -1
  <2> HIDE DEF texts
  <2> QED
    BY <1>8, PlainNames
<1>10. Give(binds)
  <2>1. DOMAIN FileNames = 1 .. 5
    BY DEF FileNames
  <2>2. FileBinds(text) = binds
    BY <1>3, <1>7, <2>1, Zenon DEF FileBinds
  <2> QED
    BY <1>1, <1>2, <2>2, Zenon
<1>11. CellPassed(NamesOf(binds))
  BY <1>1, <1>10, GiveBinds DEF Give
<1> QED
  BY <1>1, <1>9, <1>11 DEF BoundPlainly

LEMMA RightsBound ==
  ASSUME LoadInv, AlignInv, ReadRights
  PROVE  BoundPlainly
<1>1. AtCell /\ col <= Len(cols) /\ cols[col].type = "RIGHTS" /\ UNCHANGED sizes
  BY TypeMet DEF ReadRights
<1>2. PICK value, flags, compat, binds :
        /\ binds = Binds(IniCol.fields, value, compat, <<>>)
                     \o Binds(IniCol.fields, <<flags[1]>>, FALSE, <<"use_cc">>)
                     \o Binds(IniCol.fields, <<flags[2]>>, FALSE, <<"cc_commercial_use">>)
                     \o Binds(IniCol.fields, <<flags[3]>>, FALSE, <<"cc_modification">>)
        /\ Give(binds)
  BY DEF ReadRights
<1>3. PICK fields : fields = IniCol.fields
  OBVIOUS
<1>4. fields \in Seq(Seq(Parts))
  BY <1>1, <1>3, CellTyped, ColumnFields
<1> DEFINE texts == {value, Escaped(value)}
                      \cup UNION {{<<flags[k]>>, Escaped(<<flags[k]>>)} : k \in 1 .. 3}
           S == Plains(texts)
<1>5. /\ value \in texts /\ Escaped(value) \in texts
      /\ \A k \in 1 .. 3 : <<flags[k]>> \in texts /\ Escaped(<<flags[k]>>) \in texts
  OBVIOUS
<1>6. /\ <<>> \in Seq(Parts) /\ \A x \in Parts : <<x>> \in Seq(Parts)
      /\ "use_cc" \in Parts /\ "cc_commercial_use" \in Parts /\ "cc_modification" \in Parts
  <2>1. /\ "use_cc" \in Postfixes /\ "cc_commercial_use" \in Postfixes
        /\ "cc_modification" \in Postfixes
    BY Zenon DEF Postfixes
  <2> QED
    BY <2>1, OnePart, Zenon DEF Parts
<1> HIDE DEF texts
<1>7. /\ \A esc : Binds(fields, value, esc, <<>>) \in Seq(Plains(texts))
      /\ \A k \in 1 .. 3, name \in Parts :
           Binds(fields, <<flags[k]>>, FALSE, <<name>>) \in Seq(Plains(texts))
  <2>1. \A esc : Binds(fields, value, esc, <<>>) \in Seq(Plains(texts))
    BY <1>4, <1>5, <1>6, BindsPlain
  <2>2. ASSUME NEW k \in 1 .. 3, NEW name \in Parts
        PROVE  Binds(fields, <<flags[k]>>, FALSE, <<name>>) \in Seq(Plains(texts))
    <3>1. PICK flag : flag = <<flags[k]>>
      OBVIOUS
    <3>2. flag \in texts /\ Escaped(flag) \in texts
      BY <1>5, <3>1
    <3>3. PICK postfix \in Seq(Parts) : postfix = <<name>>
      BY <1>6
    <3>4. Binds(fields, flag, FALSE, postfix) \in Seq(Plains(texts))
      BY <1>4, <3>2, BindsPlain
    <3> QED
      BY <3>1, <3>3, <3>4, Zenon
  <2> QED
    BY <2>1, <2>2
<1>8. binds \in Seq(S)
  <2>1. \A a, b, c, d \in Seq(S) : ((a \o b) \o c) \o d \in Seq(S)
    BY ConcatProperties
  <2>2. 1 \in 1 .. 3 /\ 2 \in 1 .. 3 /\ 3 \in 1 .. 3
    OBVIOUS
  <2>3. /\ Binds(fields, value, compat, <<>>) \in Seq(S)
        /\ Binds(fields, <<flags[1]>>, FALSE, <<"use_cc">>) \in Seq(S)
        /\ Binds(fields, <<flags[2]>>, FALSE, <<"cc_commercial_use">>) \in Seq(S)
        /\ Binds(fields, <<flags[3]>>, FALSE, <<"cc_modification">>) \in Seq(S)
    BY <1>6, <1>7, <2>2, Zenon
  <2> HIDE DEF S
  <2> QED
    BY <1>2, <1>3, <2>1, <2>3, Zenon
<1>9. \A x \in NamesOf(binds) : x.element = -1
  BY <1>8, PlainNames
<1>10. CellPassed(NamesOf(binds))
  BY <1>1, <1>2, GiveBinds DEF Give
<1> QED
  BY <1>1, <1>9, <1>10 DEF BoundPlainly

LEMMA DatasetBound ==
  ASSUME LoadInv, AlignInv, ReadDataset
  PROVE  BoundAsDataset \/ Refused
<1>1. AtCell /\ col <= Len(cols) /\ cols[col].type = "DATASET"
  BY TypeMet DEF ReadDataset
<1>2. CASE Reject
  BY <1>2 DEF Reject, Refused
<1>3. CASE ~Reject
  <2>1. /\ Agrees(Len(Elements)) /\ Give(DatasetBinds)
        /\ sizes' = [tag \in DOMAIN sizes \cup {IniCol.tag} |->
                       IF tag = IniCol.tag THEN Len(Elements) ELSE sizes[tag]]
    BY <1>3 DEF ReadDataset
  <2>2. PICK elements : elements = Elements
    OBVIOUS
  <2>3. PICK c : c = cols[col]
    OBVIOUS
  <2>4. /\ c.fields \in Seq(Seq(STRING)) /\ c.sep # <<>> /\ \E S : c.sep \in Seq(S)
    BY <1>1, <2>3, CellTyped, ColumnsTyped
  <2>5. PICK text : text = Text /\ text \in Seq(Range(text))
    BY <1>1, CellTyped
  <2>6. \E S : elements \in Seq(S)
    <3>1. PICK S : c.sep \in Seq(S)
      BY <2>4
    <3>2. PICK sep : sep = c.sep
      OBVIOUS
    <3>3. PICK S2 : S2 = S \cup Range(text)
      OBVIOUS
    <3>4. sep \in Seq(S2) /\ text \in Seq(S2) /\ sep # <<>>
      BY <2>4, <2>5, <3>1, <3>2, <3>3
    <3>5. Explode(sep, text) \in Seq(Seq(S2))
      BY <3>4, ExplodeType
    <3>6. elements = Explode(sep, text)
      BY <2>2, <2>3, <2>5, <3>2, Zenon DEF Elements, IniCol
    <3> QED
      BY <3>5, <3>6
  <2>7. Len(elements) \in Nat /\ DOMAIN elements = 1 .. Len(elements)
    BY <2>6, LenProperties
  <2>8. DOMAIN c.fields = 1 .. Len(c.fields) /\ Len(c.fields) \in Nat
    BY <2>4, LenProperties
  <2> DEFINE bind(k, q) == [name |-> ElementName(c, c.fields[q], k), text |-> Escaped(elements[k])]
             S == {bind(k, q) : k \in 1 .. Len(elements), q \in 1 .. Len(c.fields)}
             group(k) == [q \in 1 .. Len(c.fields) |-> bind(k, q)]
             groups == [k \in 1 .. Len(elements) |-> group(k)]
  <2>9. \A k \in 1 .. Len(elements) : group(k) \in Seq(S) /\ Len(group(k)) = Len(c.fields)
    <3> SUFFICES ASSUME NEW k \in 1 .. Len(elements)
                 PROVE  group(k) \in Seq(S) /\ Len(group(k)) = Len(c.fields)
      OBVIOUS
    <3>1. group(k) \in [1 .. Len(c.fields) -> S]
      <4> HIDE DEF bind
      <4> QED
        OBVIOUS
    <3> HIDE DEF group, S
    <3> QED
      BY <2>8, <3>1, FunctionIsSeq
  <2>10. groups \in Seq(Seq(S)) /\ Len(groups) = Len(elements)
    <3>1. groups \in [1 .. Len(elements) -> Seq(S)]
      <4> HIDE DEF group, S
      <4> QED
        BY <2>9
    <3> HIDE DEF groups, S
    <3> QED
      BY <2>7, <3>1, FunctionIsSeq
  <2>11. PICK binds : binds = FlattenSeq(groups)
    OBVIOUS
  <2>12. binds \in Seq(S)
    <3> HIDE DEF groups, S
    <3> QED
      BY <2>10, <2>11, FlattenType
  <2>23. Range(binds) = UNION {Range(groups[k]) : k \in 1 .. Len(elements)}
    <3> HIDE DEF groups, S
    <3> QED
      BY <2>10, <2>11, FlattenRange
  <2>13. \A k \in 1 .. Len(elements) : Range(groups[k]) = {bind(k, q) : q \in 1 .. Len(c.fields)}
    <3> SUFFICES ASSUME NEW k \in 1 .. Len(elements)
                 PROVE  Range(groups[k]) = {bind(k, q) : q \in 1 .. Len(c.fields)}
      OBVIOUS
    <3>1. groups[k] = [q \in 1 .. Len(c.fields) |-> bind(k, q)]
      OBVIOUS
    <3> HIDE DEF groups, bind
    <3> QED
      BY <3>1 DEF Range
  <2>14. NamesOf(binds) = {b.name : b \in Range(binds)}
    <3>1. DOMAIN binds = 1 .. Len(binds)
      <4> HIDE DEF S
      <4> QED
        BY <2>12, LenProperties
    <3> QED
      BY <3>1 DEF NamesOf, Range
  <2>15. {b.name : b \in Range(binds)} = ElementNames(c, Len(elements))
    <3>1. \A b : b \in Range(binds) <=>
            \E m \in 1 .. Len(elements), q \in 1 .. Len(c.fields) : b = bind(m, q)
      <4> HIDE DEF bind, groups
      <4>1. ASSUME NEW b, b \in Range(binds)
            PROVE  \E m \in 1 .. Len(elements), q \in 1 .. Len(c.fields) : b = bind(m, q)
        <5>1. PICK m \in 1 .. Len(elements) : b \in Range(groups[m])
          BY <2>23, <4>1
        <5>2. b \in {bind(m, q) : q \in 1 .. Len(c.fields)}
          BY <2>13, <5>1, Zenon
        <5> QED
          BY <5>2
      <4>2. ASSUME NEW m \in 1 .. Len(elements), NEW q \in 1 .. Len(c.fields)
            PROVE  bind(m, q) \in Range(binds)
        <5>1. bind(m, q) \in {bind(m, p) : p \in 1 .. Len(c.fields)}
          OBVIOUS
        <5>2. bind(m, q) \in Range(groups[m])
          BY <2>13, <5>1, Zenon
        <5> QED
          BY <2>23, <5>2, Zenon
      <4> QED
        BY <4>1, <4>2, Zenon
    <3>2. \A m, q : bind(m, q).name = ElementName(c, c.fields[q], m)
      OBVIOUS
    <3> HIDE DEF bind
    <3>3. \A x : x \in {b.name : b \in Range(binds)} <=>
            \E m \in 1 .. Len(elements), q \in 1 .. Len(c.fields) :
              x = ElementName(c, c.fields[q], m)
      BY <3>1, <3>2
    <3>4. \A x : x \in ElementNames(c, Len(elements)) <=>
            \E m \in 1 .. Len(elements), q \in 1 .. Len(c.fields) :
              x = ElementName(c, c.fields[q], m)
      BY DEF ElementNames
    <3>5. \A x : x \in {b.name : b \in Range(binds)} <=> x \in ElementNames(c, Len(elements))
      BY <3>3, <3>4, Zenon
    <3> QED
      BY <3>5, Zenon
  <2>16. Give(binds)
    <3>1. DatasetBinds = FlattenSeq(groups)
      <4>1. DatasetBinds = FlattenSeq([k \in DOMAIN elements |->
               [q \in DOMAIN c.fields |->
                 [name |-> ElementName(c, c.fields[q], k), text |-> Escaped(elements[k])]]])
        BY <2>2, <2>3, Zenon DEF DatasetBinds, IniCol
      <4> QED
        BY <2>7, <2>8, <4>1, Zenon
    <3> QED
      BY <2>1, <2>11, <3>1, Zenon
  <2>17. CellPassed(NamesOf(binds))
    BY <1>1, <2>16, GiveBinds DEF Give
  <2>18. PICK N : N = NamesOf(binds) /\ CellPassed(N)
    BY <2>17
  <2>19. PICK count : count = Len(elements)
    OBVIOUS
  <2>20. /\ count \in Nat
         /\ c.tag \in DOMAIN sizes => sizes[c.tag] = count
         /\ sizes' = [t \in DOMAIN sizes \cup {c.tag} |-> IF t = c.tag THEN count ELSE sizes[t]]
    BY <2>1, <2>2, <2>3, <2>7, <2>19 DEF Agrees, IniCol
  <2>21. N = ElementNames(c, count)
    BY <2>14, <2>15, <2>18, <2>19, Zenon
  <2>22. /\ count \in Nat
         /\ cols[col].tag \in DOMAIN sizes => sizes[cols[col].tag] = count
         /\ sizes' = [t \in DOMAIN sizes \cup {cols[col].tag} |->
                       IF t = cols[col].tag THEN count ELSE sizes[t]]
         /\ N = ElementNames(cols[col], count)
    BY <2>3, <2>20, <2>21, Zenon
  <2> QED
    BY <1>1, <2>18, <2>22, Zenon DEF BoundAsDataset
<1> QED
  BY <1>2, <1>3

LEMMA RowSteps ==
  ASSUME LoadInv, AlignInv, InRow
  PROVE  /\ phase = "row"
         /\ Refused \/ Waits \/ BoundPlainly \/ BoundAsDataset \/ RowRead
<1>1. ASSUME Reject PROVE Refused
  BY <1>1 DEF Reject, Refused
<1>2. ASSUME NEW type, type # "DATASET", AtType(type),
             \E text, do_escape : GiveText(text, do_escape)
      PROVE  BoundPlainly
  <2>1. AtCell /\ cols[col].type # "DATASET"
    BY <1>2, TypeMet
  <2> QED
    BY <1>2, <2>1, TextGiven
<1>3. ASSUME Trying PROVE phase = "row" /\ col <= Len(cols) /\ cols[col].type = "DATETIME"
  BY <1>3 DEF AlignInv
<1>4. ASSUME NEW month, Trying, GiveTime(month) PROVE BoundPlainly
  <2>1. \E text, do_escape : GiveText(text, do_escape)
    BY <1>4 DEF GiveTime
  <2>2. "DATETIME" # "DATASET"
    OBVIOUS
  <2> QED
    BY <1>3, <1>4, <2>1, <2>2, TextGiven
<1>5. CASE CellMissing
  BY <1>1, <1>5 DEF CellMissing
<1>6. CASE CellEmpty
  BY <1>1, <1>6 DEF CellEmpty, AtCell
<1>7. CASE ReadBool
  <2>1. AtType("BOOL") /\ (Reject \/ \E text, do_escape : GiveText(text, do_escape))
    BY <1>7 DEF ReadBool
  <2> QED
    BY <1>1, <1>2, <2>1, TypeMet
<1>8. CASE ReadString
  <2>1. AtType("STRING") /\ (Reject \/ \E text, do_escape : GiveText(text, do_escape))
    BY <1>8 DEF ReadString
  <2> QED
    BY <1>1, <1>2, <2>1, TypeMet
<1>9. CASE ReadEmptyDatetime
  <2>1. AtType("DATETIME") /\ \E text, do_escape : GiveText(text, do_escape)
    BY <1>9 DEF ReadEmptyDatetime
  <2> QED
    BY <1>2, <2>1, TypeMet
<1>10. CASE BeginDatetime
  <2>1. AtType("DATETIME") /\ UNCHANGED <<phase, cols, col, rep_hash, sizes, verdict>>
    BY <1>10 DEF BeginDatetime
  <2> QED
    BY <2>1, TypeMet DEF Waits
<1>11. CASE FormatFits
  <2>1. Trying /\ \E month : GiveTime(month)
    BY <1>11 DEF FormatFits
  <2> QED
    BY <1>3, <1>4, <2>1
<1>12. CASE FormatNamesIt
  <2>1. Trying /\ \E month : GiveTime(month)
    BY <1>12 DEF FormatNamesIt
  <2> QED
    BY <1>3, <1>4, <2>1
<1>13. CASE NextFormat
  <2>1. Trying /\ UNCHANGED <<phase, cols, col, rep_hash, sizes, verdict>>
    BY <1>13 DEF NextFormat
  <2> QED
    BY <1>3, <2>1 DEF Waits
<1>14. CASE NoFormatFits
  BY <1>1, <1>3, <1>14 DEF NoFormatFits
<1>15. CASE ReadSelect
  <2>1. AtType("SELECT") /\ (Reject \/ \E text, do_escape : GiveText(text, do_escape))
    BY <1>15 DEF ReadSelect
  <2> QED
    BY <1>1, <1>2, <2>1, TypeMet
<1>16. CASE ReadFile
  <2>1. phase = "row"
    BY <1>16, TypeMet DEF ReadFile
  <2> QED
    BY <1>16, <2>1, FileBound
<1>17. CASE RejectFile
  BY <1>1, <1>17, TypeMet DEF RejectFile
<1>18. CASE ReadArray
  <2>1. AtType("ARRAY") /\ (Reject \/ \E text, do_escape : GiveText(text, do_escape))
    BY <1>18 DEF ReadArray
  <2> QED
    BY <1>1, <1>2, <2>1, TypeMet
<1>19. CASE ReadDataset
  <2>1. phase = "row"
    BY <1>19, TypeMet DEF ReadDataset
  <2> QED
    BY <1>19, <2>1, DatasetBound
<1>20. CASE ReadRights
  <2>1. phase = "row"
    BY <1>20, TypeMet DEF ReadRights
  <2> QED
    BY <1>20, <2>1, RightsBound
<1>21. CASE ReadIndexes
  <2>1. AtType("INDEXES") /\ (Reject \/ \E text, do_escape : GiveText(text, do_escape))
    BY <1>21 DEF ReadIndexes
  <2> QED
    BY <1>1, <1>2, <2>1, TypeMet
<1>22. CASE RowRead
  BY <1>22 DEF RowRead
<1> QED
  BY <1>5, <1>6, <1>7, <1>8, <1>9, <1>10, <1>11, <1>12, <1>13, <1>14, <1>15, <1>16, <1>17,
     <1>18, <1>19, <1>20, <1>21, <1>22 DEF InRow

LEMMA AlignInit == RowInit => AlignInv
<1> SUFFICES ASSUME RowInit PROVE AlignInv
  OBVIOUS
<1>1. /\ cols = <<>> /\ col = 1 /\ rep_hash = Nothing /\ sizes = Nothing /\ time = NotTrying
      /\ phase = "load" /\ verdict = "none"
  BY DEF RowInit
<1>2. DOMAIN rep_hash = {} /\ DOMAIN sizes = {} /\ Len(cols) = 0
  BY <1>1 DEF Nothing
<1>3. Bindings(cols, col, DOMAIN rep_hash, sizes)
  BY <1>1, <1>2 DEF Bindings
<1> QED
  BY <1>1, <1>2, <1>3 DEF AlignInv, Trying

(* While the file is read, no column is passed and no name is bound.       *)
LEMMA AlignLoading ==
  ASSUME LoadInv, AlignInv, LoadColumn \/ SkipComment
  PROVE  AlignInv'
<1>1. /\ phase = "load" /\ UNCHANGED <<time, phase, col, rep_hash, sizes, verdict>>
      /\ cols' = cols \/ \E c : cols' = Append(cols, c)
  BY DEF LoadColumn, SkipComment, AtLine
<1>2. col = 1 /\ DOMAIN rep_hash = {} /\ time = NotTrying /\ verdict # "accepted"
  BY <1>1 DEF AlignInv
<1>3. Len(cols') \in Nat
  <2>1. \E S : cols \in Seq(S)
    BY DEF LoadInv
  <2>2. CASE cols' = cols
    BY <2>1, <2>2, LenProperties
  <2>3. CASE \E c : cols' = Append(cols, c)
    <3>1. PICK c, old : cols' = Append(old, c) /\ old = cols
      BY <2>3
    <3>2. Len(Append(old, c)) = Len(old) + 1 /\ Len(old) \in Nat
      BY <2>1, <3>1, Lengthened
    <3> QED
      BY <3>1, <3>2
  <2> QED
    BY <1>1, <2>2, <2>3
<1>4. Bindings(cols', 1, {}, sizes)
  BY <1>2 DEF AlignInv, Bindings
<1>5. 1 \in 1 .. Len(cols') + 1
  BY <1>3
<1> QED
  BY <1>1, <1>2, <1>4, <1>5 DEF AlignInv, Trying

(* Binding a cell's names passes on to the next column.                    *)
LEMMA AlignBinding ==
  ASSUME LoadInv, AlignInv, phase = "row", BoundPlainly \/ BoundAsDataset
  PROVE  AlignInv'
<1>1. PICK N : CellPassed(N)
  BY DEF BoundPlainly, BoundAsDataset
<1>2. PICK n : n = col
  OBVIOUS
<1>3. /\ n <= Len(cols) /\ col' = n + 1 /\ time' = NotTrying /\ UNCHANGED <<phase, cols, verdict>>
  BY <1>1, <1>2 DEF CellPassed
<1>4. n \in Nat /\ n > 0 /\ Len(cols) \in Nat
  BY <1>2, LenProperties DEF AlignInv, LoadInv
<1>5. n + 1 \in 1 .. Len(cols) + 1
  BY <1>3, <1>4
<1>6. PICK cs : cs = cols
  OBVIOUS
<1>7. PICK szs : szs = sizes
  OBVIOUS
<1>8. PICK names : names = DOMAIN rep_hash
  OBVIOUS
<1>9. Bindings(cs, n, names, szs)
  BY <1>2, <1>6, <1>7, <1>8, Zenon DEF AlignInv
<1>10. Bindings(cols, col, DOMAIN rep_hash, sizes)'
  <2>1. CASE BoundPlainly
    <3>1. PICK M : CellPassed(M) /\ \A x \in M : x.element = -1
      BY <2>1 DEF BoundPlainly
    <3>2. cs[n].type # "DATASET" /\ sizes' = szs
      BY <1>2, <1>6, <1>7, <2>1 DEF BoundPlainly
    <3>3. Bindings(cs, n + 1, names \cup M, szs)
      BY <1>4, <1>9, <3>1, <3>2, PlainAdded
    <3>4. DOMAIN rep_hash' = names \cup M
      BY <1>8, <3>1 DEF CellPassed
    <3> QED
      BY <1>3, <1>6, <3>2, <3>3, <3>4
  <2>2. CASE BoundAsDataset
    <3>6. PICK count \in Nat :
            /\ cs[n].type = "DATASET"
            /\ cs[n].tag \in DOMAIN szs => szs[cs[n].tag] = count
            /\ sizes' = [t \in DOMAIN szs \cup {cs[n].tag} |->
                           IF t = cs[n].tag THEN count ELSE szs[t]]
            /\ \E M : CellPassed(M) /\ M = ElementNames(cs[n], count)
      BY <1>2, <1>6, <1>7, <2>2, Zenon DEF BoundAsDataset
    <3>7. PICK M : CellPassed(M) /\ M = ElementNames(cs[n], count)
      BY <3>6
    <3>1. /\ cs[n].type = "DATASET"
          /\ cs[n].tag \in DOMAIN szs => szs[cs[n].tag] = count
          /\ sizes' = [t \in DOMAIN szs \cup {cs[n].tag} |->
                         IF t = cs[n].tag THEN count ELSE szs[t]]
          /\ CellPassed(M) /\ M = ElementNames(cs[n], count)
      BY <3>6, <3>7, Zenon
    <3>2. PICK szs2 : szs2 = [t \in DOMAIN szs \cup {cs[n].tag} |->
                               IF t = cs[n].tag THEN count ELSE szs[t]]
      OBVIOUS
    <3>3. Bindings(cs, n + 1, names \cup M, szs2)
      BY <1>4, <1>9, <3>1, <3>2, DatasetAdded
    <3>4. DOMAIN rep_hash' = names \cup M
      BY <1>8, <3>1 DEF CellPassed
    <3>5. sizes' = szs2
      BY <3>1, <3>2, Zenon
    <3> QED
      BY <1>3, <1>6, <3>3, <3>4, <3>5, Zenon
  <2> QED
    BY <2>1, <2>2
<1>11. verdict # "accepted" /\ phase' = "row" /\ phase' # "load"
  BY <1>3 DEF AlignInv
<1> QED
  BY <1>3, <1>5, <1>10, <1>11 DEF AlignInv, Trying

LEMMA AlignNext == LoadInv /\ AlignInv /\ [RowNext]_rowVars => AlignInv'
<1> SUFFICES ASSUME LoadInv, AlignInv, [RowNext]_rowVars PROVE AlignInv'
  OBVIOUS
<1>1. CASE LoadColumn \/ SkipComment
  BY <1>1, AlignLoading
<1>2. CASE LoadFails
  <2>1. /\ phase' = "done" /\ verdict' = "unloadable"
        /\ UNCHANGED <<time, cols, col, rep_hash, sizes>>
        /\ phase = "load"
    BY <1>2 DEF LoadFails, AtLine
  <2> QED
    BY <2>1 DEF AlignInv, Trying
<1>3. CASE Loaded
  <2>1. /\ phase = "load" /\ phase' = "row"
        /\ UNCHANGED <<time, cols, col, rep_hash, sizes, verdict>>
    BY <1>3 DEF Loaded
  <2> QED
    BY <2>1 DEF AlignInv, Trying
<1>4. CASE InRow
  <2>1. phase = "row" /\ (Refused \/ Waits \/ BoundPlainly \/ BoundAsDataset \/ RowRead)
    BY <1>4, RowSteps
  <2>2. CASE Refused
    <3>1. /\ phase' = "done" /\ verdict' = "rejected" /\ time' = NotTrying
          /\ UNCHANGED <<cols, col, rep_hash, sizes>>
      BY <2>2 DEF Refused
    <3> QED
      BY <3>1 DEF AlignInv, Trying
  <2>3. CASE Waits
    <3>1. /\ col <= Len(cols) /\ cols[col].type = "DATETIME"
          /\ UNCHANGED <<phase, cols, col, rep_hash, sizes, verdict>>
      BY <2>3 DEF Waits
    <3> QED
      BY <2>1, <3>1 DEF AlignInv
  <2>4. CASE BoundPlainly \/ BoundAsDataset
    BY <2>1, <2>4, AlignBinding
  <2>5. CASE RowRead
    <3>1. /\ phase' = "done" /\ verdict' = "accepted" /\ col > Len(cols)
          /\ UNCHANGED <<time, cols, col, rep_hash, sizes>>
      BY <2>5 DEF RowRead
    <3>2. col = Len(cols) + 1 /\ ~(col <= Len(cols))
      <4>1. Len(cols) \in Nat /\ col \in 1 .. Len(cols) + 1
        BY LenProperties DEF AlignInv, LoadInv
      <4> QED
        BY <3>1, <4>1
    <3>3. ~Trying
      BY <3>2 DEF AlignInv
    <3> QED
      BY <3>1, <3>2, <3>3 DEF AlignInv, Trying
  <2> QED
    BY <2>1, <2>2, <2>3, <2>4, <2>5
<1>5. CASE ConvertsForEver \/ Terminated \/ UNCHANGED rowVars
  <2>1. UNCHANGED <<time, phase, cols, col, rep_hash, sizes, verdict>>
    BY <1>5 DEF ConvertsForEver, Terminated, rowVars
  <2> QED
    BY <2>1 DEF AlignInv, Trying
<1> QED
  BY <1>1, <1>2, <1>3, <1>4, <1>5 DEF RowNext, InRow

LEMMA AlignAlways == RowSpec => [](LoadInv /\ AlignInv)
<1>1. RowInit => AlignInv
  BY AlignInit
<1> QED
  BY <1>1, LoadAlways, AlignNext, PTL DEF RowSpec

(* With tags of one part, a name tells the tag it was made of.             *)
LEMMA TagsApart ==
  ASSUME NEW P, NEW a \in Seq(P), NEW b \in Seq(P), NEW f \in Seq(P), NEW g \in Seq(P),
         Len(a) = 1, Len(b) = 1, a \o f = b \o g
  PROVE  a = b
<1>1. (a \o f)[1] = a[1] /\ (b \o g)[1] = b[1]
  <2>1. Len(f) \in Nat /\ Len(g) \in Nat
    BY LenProperties
  <2>2. 1 \in 1 .. Len(a) + Len(f) /\ 1 \in 1 .. Len(b) + Len(g) /\ 1 <= Len(a) /\ 1 <= Len(b)
    BY <2>1
  <2>3. (a \o f)[1] = a[1]
    <3>1. \A i \in 1 .. Len(a) + Len(f) :
            (a \o f)[i] = IF i <= Len(a) THEN a[i] ELSE f[i - Len(a)]
      BY ConcatProperties
    <3>2. (a \o f)[1] = IF 1 <= Len(a) THEN a[1] ELSE f[1 - Len(a)]
      BY <2>2, <3>1, Zenon
    <3> QED
      BY <2>2, <3>2, Zenon
  <2>4. (b \o g)[1] = b[1]
    <3>1. \A i \in 1 .. Len(b) + Len(g) :
            (b \o g)[i] = IF i <= Len(b) THEN b[i] ELSE g[i - Len(b)]
      BY ConcatProperties
    <3>2. (b \o g)[1] = IF 1 <= Len(b) THEN b[1] ELSE g[1 - Len(b)]
      BY <2>2, <3>1, Zenon
    <3> QED
      BY <2>2, <3>2, Zenon
  <2> QED
    BY <2>3, <2>4, Zenon
<1> QED
  BY <1>1, SeqEqual

(* What an accepted row has bound for a field of a dataset: its elements,  *)
(* from 0 to one below their number.                                       *)
LEMMA BoundExactly ==
  ASSUME LoadInv, AlignInv, verdict = "accepted", TagsPlain,
         NEW i \in DOMAIN cols, cols[i].type = "DATASET", NEW f \in Range(cols[i].fields)
  PROVE  Bound(cols[i], f) = {m - 1 : m \in 1 .. sizes[cols[i].tag]}
<1>1. /\ cols \in Seq(FileColumns(input)) /\ DOMAIN cols = 1 .. Len(cols) /\ Len(cols) \in Nat
      /\ input \in Inputs
  BY LenProperties DEF LoadInv
<1>2. \A k \in 1 .. Len(cols) : cols[k].fields \in Seq(Seq(STRING)) /\ cols[k].tag \in Seq(STRING)
  BY <1>1, ElementOfSeq, ColumnsTyped
<1>3. col - 1 = Len(cols) /\ Bindings(cols, col, DOMAIN rep_hash, sizes)
  BY <1>1 DEF AlignInv
<1>4. /\ \A t \in DOMAIN sizes : sizes[t] \in Nat
      /\ \A k \in 1 .. Len(cols) :
           cols[k].type = "DATASET" => ElementBound(cols[k], sizes, DOMAIN rep_hash)
      /\ \A x \in DOMAIN rep_hash : x.element # -1 =>
           \E k \in 1 .. Len(cols) : cols[k].type = "DATASET" /\ ElementOf(cols[k], sizes, x)
  BY <1>3 DEF Bindings
<1>5. PICK c : c = cols[i]
  OBVIOUS
<1>6. PICK szs : szs = sizes
  OBVIOUS
<1>7. PICK names : names = DOMAIN rep_hash
  OBVIOUS
<1>8. /\ c.tag \in DOMAIN szs /\ szs[c.tag] \in Nat /\ ElementBound(c, szs, names)
      /\ c.tag \in Seq(STRING) /\ Len(c.tag) = 1
      /\ c.fields \in Seq(Seq(STRING))
  <2>1. ElementBound(c, szs, names)
    BY <1>1, <1>4, <1>5, <1>6, <1>7
  <2>2. c.tag \in DOMAIN szs /\ szs[c.tag] \in Nat
    BY <1>4, <1>6, <2>1 DEF ElementBound
  <2>3. c.tag \in Seq(STRING) /\ c.fields \in Seq(Seq(STRING)) /\ Len(c.tag) = 1
    BY <1>1, <1>2, <1>5 DEF TagsPlain
  <2> QED
    BY <2>1, <2>2, <2>3
<1>9. PICK q \in 1 .. Len(c.fields) : f = c.fields[q]
  <2>1. DOMAIN c.fields = 1 .. Len(c.fields)
    BY <1>8, LenProperties
  <2> QED
    BY <1>5, <2>1 DEF Range
<1>10. f \in Seq(STRING)
  BY <1>8, <1>9, ElementOfSeq
<1>11. ASSUME NEW m \in 1 .. szs[c.tag]
       PROVE  m - 1 \in Bound(c, f)
  <2>1. PICK x : x = ElementName(c, f, m)
    OBVIOUS
  <2>2. x \in names
    BY <1>8, <1>9, <2>1 DEF ElementBound
  <2>3. m - 1 # -1
    BY <1>8
  <2>4. x.parts = c.tag \o f /\ x.element = m - 1
    BY <2>1 DEF ElementName
  <2>5. x \in {y \in DOMAIN rep_hash : y.parts = c.tag \o f /\ y.element # -1}
    BY <1>7, <2>2, <2>3, <2>4
  <2> QED
    BY <2>4, <2>5 DEF Bound
<1>12. ASSUME NEW n \in Bound(c, f)
       PROVE  \E m \in 1 .. szs[c.tag] : n = m - 1
  <2>1. PICK x \in DOMAIN rep_hash : x.parts = c.tag \o f /\ x.element # -1 /\ n = x.element
    BY <1>12 DEF Bound
  <2>2. PICK k \in 1 .. Len(cols) : cols[k].type = "DATASET" /\ ElementOf(cols[k], sizes, x)
    BY <1>4, <2>1
  <2>3. PICK d : d = cols[k]
    OBVIOUS
  <2>4. /\ d.tag \in Seq(STRING) /\ d.fields \in Seq(Seq(STRING)) /\ Len(d.tag) = 1
        /\ ElementOf(d, szs, x)
    BY <1>1, <1>2, <1>6, <2>2, <2>3 DEF TagsPlain
  <2>5. PICK p \in 1 .. Len(d.fields), m \in 1 .. szs[d.tag] : x = ElementName(d, d.fields[p], m)
    BY <2>4 DEF ElementOf
  <2>6. x.parts = d.tag \o d.fields[p] /\ x.element = m - 1
    BY <2>5 DEF ElementName
  <2>7. d.fields[p] \in Seq(STRING)
    BY <2>4, ElementOfSeq
  <2>8. PICK a, b, g : a = c.tag /\ b = d.tag /\ g = d.fields[p]
    OBVIOUS
  <2>9. a = b
    <3>1. a \in Seq(STRING) /\ b \in Seq(STRING) /\ g \in Seq(STRING) /\ a \o f = b \o g
          /\ Len(a) = 1 /\ Len(b) = 1
      BY <1>8, <2>1, <2>4, <2>6, <2>7, <2>8, Zenon
    <3>2. PICK P : P = STRING
      OBVIOUS
    <3>3. a \in Seq(P) /\ b \in Seq(P) /\ g \in Seq(P) /\ f \in Seq(P)
      BY <1>10, <3>1, <3>2, Zenon
    <3> QED
      BY <3>1, <3>3, TagsApart
  <2>10. m \in 1 .. szs[c.tag] /\ n = m - 1
    BY <2>1, <2>6, <2>8, <2>9, Zenon
  <2> QED
    BY <2>10
<1>13. Bound(c, f) = {m - 1 : m \in 1 .. szs[c.tag]}
  <2>1. \A n : n \in Bound(c, f) <=> n \in {m - 1 : m \in 1 .. szs[c.tag]}
    BY <1>11, <1>12
  <2> QED
    BY <2>1, Zenon
<1> QED
  BY <1>5, <1>6, <1>13, Zenon

LEMMA AlignedAtEnd == LoadInv /\ AlignInv => DatasetsAligned
<1> SUFFICES ASSUME LoadInv, AlignInv, verdict = "accepted", TagsPlain,
                    NEW i \in DOMAIN cols, NEW j \in DOMAIN cols,
                    cols[i].type = "DATASET", cols[j].type = "DATASET", cols[i].tag = cols[j].tag,
                    NEW f \in Range(cols[i].fields), NEW g \in Range(cols[j].fields)
             PROVE  Bound(cols[i], f) = Bound(cols[j], g)
  BY DEF DatasetsAligned
<1>1. Bound(cols[i], f) = {m - 1 : m \in 1 .. sizes[cols[i].tag]}
  BY BoundExactly
<1>2. Bound(cols[j], g) = {m - 1 : m \in 1 .. sizes[cols[j].tag]}
  BY BoundExactly
<1> QED
  BY <1>1, <1>2, Zenon

(* tmpl_dataset_get() binds the elements of a group's columns for the same *)
(* numbers, or refuses the row: for every INI file and every row.          *)
THEOREM GroupsAligned == RowSpec => []DatasetsAligned
BY AlignAlways, AlignedAtEnd, PTL
=============================================================================
