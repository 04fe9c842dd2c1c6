-------------------------- MODULE FileAndTextProofs --------------------------
(***************************************************************************)
(* The two ends of a conversion: the file a workbook is read from, and the *)
(* text an item is written as.                                             *)
(*                                                                         *)
(* The OLE2 file: what oledecod.c puts together is the allocation table,   *)
(* and reorder_pps_tree() lists every entry of each directory once, for    *)
(* images of any size and trees of any shape; and what cole.c copies of a  *)
(* stream is what was written, as far as the file has it.                  *)
(*                                                                         *)
(* The text of an item is the template with the row's values in place.     *)
(***************************************************************************)
EXTENDS OleFile, RowText, Recursion, FiniteSetTheorems

(* The numbers a sound directory gives its entries: the rank of an entry   *)
(* in the order they are visited in, and the last rank below its dir,      *)
(* below its next and below its previous link.                             *)
EntryOf(i, n) == At(i.directory, n)
Rank(i, n)    == i.order[n].rank
DirEnd(i, n)  == Rank(i, n) + Below(i, EntryOf(i, n).dir)
NextEnd(i, n) == DirEnd(i, n) + Below(i, EntryOf(i, n).next)
LastRank(i, n) == NextEnd(i, n) + Below(i, EntryOf(i, n).previous)

(* The entries of the same directory.                                      *)
Siblings(i, n, m) == \E d \in DOMAIN i.children : n \in i.children[d] /\ m \in i.children[d]

(* Node c is linked from entry p and begins behind rank r.                 *)
LinkedBehind(i, p, c, r) ==
  \/ c = EntryOf(i, p).dir /\ r = Rank(i, p)
  \/ c = EntryOf(i, p).next /\ r = DirEnd(i, p)
  \/ c = EntryOf(i, p).previous /\ r = NextEnd(i, p)

(* The ranks of an entry and of what is below it: first below its dir,     *)
(* then next, then previous link.                                          *)
Parted(i, n) ==
  LET e == EntryOf(i, n) IN
  /\ Rank(i, n) \in Nat /\ DirEnd(i, n) \in Nat /\ NextEnd(i, n) \in Nat /\ LastRank(i, n) \in Nat
  /\ 1 <= Rank(i, n) /\ Rank(i, n) <= DirEnd(i, n) /\ DirEnd(i, n) <= NextEnd(i, n)
  /\ NextEnd(i, n) <= LastRank(i, n) /\ Rank(i, n) <= LastRank(i, 0)
  /\ {e.dir, e.next, e.previous} \subseteq Entries(i) \cup {FREE}
  /\ e.dir = FREE => DirEnd(i, n) = Rank(i, n)
  /\ e.next = FREE => NextEnd(i, n) = DirEnd(i, n)
  /\ e.previous = FREE => LastRank(i, n) = NextEnd(i, n)
  /\ e.dir # FREE =>
       /\ n \in DOMAIN i.children /\ e.dir \in i.children[n]
       /\ Rank(i, e.dir) = Rank(i, n) + 1 /\ LastRank(i, e.dir) = DirEnd(i, n)
  /\ e.next # FREE =>
       /\ Siblings(i, n, e.next)
       /\ Rank(i, e.next) = DirEnd(i, n) + 1 /\ LastRank(i, e.next) = NextEnd(i, n)
  /\ e.previous # FREE =>
       /\ Siblings(i, n, e.previous)
       /\ Rank(i, e.previous) = NextEnd(i, n) + 1 /\ LastRank(i, e.previous) = LastRank(i, n)

(* A directory whose entries' ranks are like that, each entry in one       *)
(* directory.                                                              *)
WellParted(i) ==
  /\ 0 \in Entries(i) /\ Entries(i) \subseteq Nat /\ FREE \notin Entries(i)
  /\ Rank(i, 0) = 1
  /\ \A n, m \in Entries(i) : Rank(i, n) = Rank(i, m) => n = m
  /\ \A n \in Entries(i) : Parted(i, n)
  /\ \A n \in Entries(i) \ {0} : \E d \in DOMAIN i.children : n \in i.children[d]
  /\ DOMAIN i.children \subseteq Entries(i)
  /\ \A d \in DOMAIN i.children : i.children[d] \subseteq Entries(i) \ {0}
  /\ \A c, d \in DOMAIN i.children : \A n \in i.children[c] : n \in i.children[d] => c = d
  /\ \A d \in DOMAIN i.children : EntryOf(i, d).dir = FREE => i.children[d] = {}

(* A directory has entries, and they have links.                           *)
LEMMA DirectoryTyped ==
  ASSUME NEW i \in Images, i.ole
  PROVE  /\ Len(i.directory) \in Nat \ {0}
         /\ i.directory = [k \in 1 .. Len(i.directory) |-> i.directory[k]]
         /\ \A k \in 1 .. Len(i.directory) : IsEntry(i.directory[k])
<1>1. EntriesWritten(i)
  BY ImagesAssumption
<1>2. /\ i.directory \in Seq(Range(i.directory)) /\ i.directory # <<>>
      /\ \A e \in Range(i.directory) : IsEntry(e)
  BY <1>1 DEF EntriesWritten
<1>3. Len(i.directory) \in Nat \ {0} /\ DOMAIN i.directory = 1 .. Len(i.directory)
      /\ i.directory \in [1 .. Len(i.directory) -> Range(i.directory)]
  BY <1>2, EmptySeq, LenProperties
<1> QED
  BY <1>2, <1>3

(* The trees of a sound directory are what the assumption says.            *)
LEMMA TreesSound ==
  ASSUME NEW i \in Images, i.ole, DOMAIN i.children # {}
  PROVE  SoundTrees(i)
BY ImagesAssumption

(* The links of an entry lead to entries.                                  *)
LEMMA LinksStay ==
  ASSUME NEW i \in Images, i.ole, DOMAIN i.children # {}, NEW n \in Entries(i)
  PROVE  LET e == EntryOf(i, n) IN
         /\ e.dir # FREE =>
              n \in DOMAIN i.children /\ e.dir \in i.children[n] /\ e.dir \in Entries(i)
         /\ e.next # FREE => Siblings(i, n, e.next) /\ e.next \in Entries(i)
         /\ e.previous # FREE => Siblings(i, n, e.previous) /\ e.previous \in Entries(i)
         /\ Below(i, e.dir) \in Nat /\ Below(i, e.next) \in Nat /\ Below(i, e.previous) \in Nat
         /\ i.order[n].size \in Nat /\ i.order[n].rank \in Nat
<1>1. SoundTrees(i)
  BY TreesSound
<1> DEFINE e == EntryOf(i, n)
<1>2. e = At(i.directory, n)
  BY DEF EntryOf
<1>3. \A m \in Entries(i) : i.order[m].size \in Nat /\ i.order[m].rank \in Nat
  <2>1. i.order[0].size \in Nat
    BY <1>1 DEF SoundTrees, Entries
  <2> QED
    BY <1>1, <2>1 DEF SoundTrees
<1>4. e.dir # FREE => n \in DOMAIN i.children /\ e.dir \in i.children[n]
  BY <1>1, <1>2 DEF SoundTrees
<1>5. n # 0 => \E d \in DOMAIN i.children : n \in i.children[d]
  BY DEF Entries
<1>6. n = 0 => e.next = FREE /\ e.previous = FREE
  BY <1>1, <1>2 DEF SoundTrees
<1>7. \A d \in DOMAIN i.children : n \in i.children[d] =>
        {e.next, e.previous} \subseteq i.children[d] \cup {FREE}
  BY <1>1, <1>2 DEF SoundTrees
<1>8. \A d \in DOMAIN i.children : i.children[d] \subseteq Entries(i)
  BY DEF Entries
<1>9. e.next # FREE => Siblings(i, n, e.next) /\ e.next \in Entries(i)
  BY <1>5, <1>6, <1>7, <1>8 DEF Siblings
<1>10. e.previous # FREE => Siblings(i, n, e.previous) /\ e.previous \in Entries(i)
  BY <1>5, <1>6, <1>7, <1>8 DEF Siblings
<1>11. e.dir # FREE => e.dir \in Entries(i)
  BY <1>4, <1>8
<1> HIDE DEF e
<1>12. ASSUME NEW m, m \in Entries(i) \cup {FREE}
       PROVE  Below(i, m) \in Nat
  BY <1>3, <1>12 DEF Below
<1>13. Below(i, e.dir) \in Nat /\ Below(i, e.next) \in Nat /\ Below(i, e.previous) \in Nat
  BY <1>9, <1>10, <1>11, <1>12
<1> QED
  BY <1>3, <1>4, <1>9, <1>10, <1>11, <1>13 DEF e

(* By the sizes of what is below its links, an entry's ranks fall into     *)
(* parts.                                                                  *)
LEMMA PartsOf ==
  ASSUME NEW i \in Images, i.ole, DOMAIN i.children # {}, NEW n \in Entries(i)
  PROVE  Parted(i, n)
<1>1. SoundTrees(i) /\ 0 \in Entries(i)
  BY TreesSound DEF Entries
<1> DEFINE e == EntryOf(i, n)
<1>2. e = At(i.directory, n)
  BY DEF EntryOf
<1>4. /\ i.order[n].rank \in 1 .. i.order[0].size
      /\ i.order[n].size = 1 + Below(i, e.dir) + Below(i, e.next) + Below(i, e.previous)
      /\ e.dir # FREE => i.order[e.dir].rank = i.order[n].rank + 1
      /\ e.next # FREE => i.order[e.next].rank = i.order[n].rank + 1 + Below(i, e.dir)
      /\ e.previous # FREE =>
           i.order[e.previous].rank = i.order[n].rank + 1 + Below(i, e.dir) + Below(i, e.next)
  BY <1>1, <1>2 DEF SoundTrees
<1>9. /\ e.dir # FREE =>
           n \in DOMAIN i.children /\ e.dir \in i.children[n] /\ e.dir \in Entries(i)
      /\ e.next # FREE => Siblings(i, n, e.next) /\ e.next \in Entries(i)
      /\ e.previous # FREE => Siblings(i, n, e.previous) /\ e.previous \in Entries(i)
      /\ Below(i, e.dir) \in Nat /\ Below(i, e.next) \in Nat /\ Below(i, e.previous) \in Nat
      /\ i.order[n].size \in Nat /\ i.order[n].rank \in Nat
  BY LinksStay
<1> HIDE DEF e
<1>12. ASSUME NEW m \in Entries(i), m # FREE PROVE Below(i, m) = i.order[m].size
  BY <1>12 DEF Below
<1>13. ASSUME NEW m \in Entries(i)
       PROVE  /\ LastRank(i, m) = Rank(i, m) + i.order[m].size - 1
              /\ i.order[m].size \in Nat /\ i.order[m].rank \in Nat
  <2> DEFINE a == EntryOf(i, m)
  <2>1. i.order[m].size = 1 + Below(i, a.dir) + Below(i, a.next) + Below(i, a.previous)
    BY <1>1 DEF SoundTrees, EntryOf
  <2>2. /\ Below(i, a.dir) \in Nat /\ Below(i, a.next) \in Nat /\ Below(i, a.previous) \in Nat
        /\ i.order[m].size \in Nat /\ i.order[m].rank \in Nat
    BY LinksStay
  <2>3. LastRank(i, m) =
          i.order[m].rank + Below(i, a.dir) + Below(i, a.next) + Below(i, a.previous)
    BY DEF LastRank, NextEnd, DirEnd, Rank
  <2> HIDE DEF a
  <2> QED
    BY <2>1, <2>2, <2>3 DEF Rank
<1> QED
  <2>1. /\ Below(i, e.dir) \in Nat /\ Below(i, e.next) \in Nat /\ Below(i, e.previous) \in Nat
        /\ i.order[n].rank \in Nat /\ i.order[n].size \in Nat /\ i.order[0].size \in Nat
    BY <1>1, <1>9, <1>13
  <2>2. Rank(i, n) = i.order[n].rank
    BY DEF Rank
  <2>3. /\ DirEnd(i, n) = Rank(i, n) + Below(i, e.dir)
        /\ NextEnd(i, n) = DirEnd(i, n) + Below(i, e.next)
        /\ LastRank(i, n) = NextEnd(i, n) + Below(i, e.previous)
    BY DEF DirEnd, NextEnd, LastRank, e
  <2>4. LastRank(i, 0) = i.order[0].size
    <3>1. 0 \in Entries(i) /\ i.order[0].rank = 1
      BY <1>1 DEF Entries, SoundTrees
    <3>2. i.order[0].size \in Nat
      BY <2>1
    <3> QED
      BY <1>13, <3>1, <3>2 DEF Rank
  <2>5. /\ Rank(i, n) \in Nat /\ DirEnd(i, n) \in Nat /\ NextEnd(i, n) \in Nat /\ LastRank(i, n) \in Nat
        /\ 1 <= Rank(i, n) /\ Rank(i, n) <= DirEnd(i, n) /\ DirEnd(i, n) <= NextEnd(i, n)
        /\ NextEnd(i, n) <= LastRank(i, n) /\ Rank(i, n) <= LastRank(i, 0)
    BY <2>1, <2>2, <2>3, <2>4, <1>4
  <2>6. /\ e.dir = FREE => DirEnd(i, n) = Rank(i, n)
        /\ e.next = FREE => NextEnd(i, n) = DirEnd(i, n)
        /\ e.previous = FREE => LastRank(i, n) = NextEnd(i, n)
    <3>1. \A r \in Nat : r + 0 = r
      OBVIOUS
    <3>2. \A m : m = FREE => Below(i, m) = 0
      BY DEF Below
    <3>3. e.dir = FREE => DirEnd(i, n) = Rank(i, n)
      BY <2>5, <3>1, <3>2, Zenon DEF DirEnd, e
    <3>4. e.next = FREE => NextEnd(i, n) = DirEnd(i, n)
      BY <2>5, <3>1, <3>2, Zenon DEF NextEnd, e
    <3>5. e.previous = FREE => LastRank(i, n) = NextEnd(i, n)
      BY <2>5, <3>1, <3>2, Zenon DEF LastRank, e
    <3> QED
      BY <3>3, <3>4, <3>5
  <2>7. ASSUME NEW m \in Entries(i), m # FREE, NEW a \in Nat, Rank(i, m) = a + 1
        PROVE  LastRank(i, m) = a + Below(i, m)
    <3>1. LastRank(i, m) = Rank(i, m) + i.order[m].size - 1 /\ i.order[m].size \in Nat
      BY <1>13
    <3> QED
      BY <3>1, <2>7, <1>12
  <2>8. e.dir # FREE =>
         /\ n \in DOMAIN i.children /\ e.dir \in i.children[n]
         /\ Rank(i, e.dir) = Rank(i, n) + 1 /\ LastRank(i, e.dir) = DirEnd(i, n)
    <3>1. e.dir # FREE => Rank(i, e.dir) = Rank(i, n) + 1
      BY <1>4 DEF Rank
    <3> QED
      BY <3>1, <2>7, <2>5, <2>3, <1>9
  <2>9. e.next # FREE =>
         /\ Siblings(i, n, e.next)
         /\ Rank(i, e.next) = DirEnd(i, n) + 1 /\ LastRank(i, e.next) = NextEnd(i, n)
    <3>1. e.next # FREE => Rank(i, e.next) = DirEnd(i, n) + 1
      <4>1. e.next # FREE => Rank(i, e.next) = Rank(i, n) + 1 + Below(i, e.dir)
        BY <1>4 DEF Rank
      <4> QED
        BY <4>1, <2>1, <2>3, <2>5
    <3> QED
      BY <3>1, <2>7, <2>5, <2>3, <1>9
  <2>10. e.previous # FREE =>
         /\ Siblings(i, n, e.previous)
         /\ Rank(i, e.previous) = NextEnd(i, n) + 1 /\ LastRank(i, e.previous) = LastRank(i, n)
    <3>1. e.previous # FREE => Rank(i, e.previous) = NextEnd(i, n) + 1
      <4>1. e.previous # FREE =>
              Rank(i, e.previous) = Rank(i, n) + 1 + Below(i, e.dir) + Below(i, e.next)
        BY <1>4 DEF Rank
      <4> QED
        BY <4>1, <2>1, <2>3, <2>5
    <3> QED
      BY <3>1, <2>7, <2>5, <2>3, <1>9
  <2> QED
    BY <2>5, <2>6, <2>8, <2>9, <2>10, <1>9 DEF Parted, e

(* A sound directory is well parted.                                       *)
LEMMA DirectoryParted ==
  ASSUME NEW i \in Images, i.ole, DOMAIN i.children # {}
  PROVE  WellParted(i)
<1>1. SoundTrees(i) /\ Len(i.directory) \in Nat
  BY TreesSound, DirectoryTyped
<1>2. /\ 0 \in Entries(i) /\ Entries(i) \subseteq Nat /\ FREE \notin Entries(i)
  <2>1. 0 \in Entries(i)
    BY DEF Entries
  <2>2. \A n \in Entries(i) : n \in 0 .. Len(i.directory) - 1
    BY <1>1 DEF SoundTrees
  <2>3. FREE \notin Nat
    BY DEF FREE
  <2>4. \A n \in Entries(i) : n \in Nat
    BY <2>2, <1>1
  <2> QED
    BY <2>1, <2>3, <2>4
<1>3. /\ Rank(i, 0) = 1
      /\ \A n, m \in Entries(i) : Rank(i, n) = Rank(i, m) => n = m
  BY <1>1 DEF SoundTrees, Rank
<1>4. \A n \in Entries(i) \ {0} : \E d \in DOMAIN i.children : n \in i.children[d]
  BY DEF Entries
<1>5. DOMAIN i.children \subseteq Entries(i)
  BY <1>1 DEF SoundTrees
<1>6. /\ \A d \in DOMAIN i.children : i.children[d] \subseteq Entries(i) \ {0}
      /\ \A c, d \in DOMAIN i.children : \A n : n \in i.children[c] /\ n \in i.children[d] => c = d
      /\ \A d \in DOMAIN i.children : EntryOf(i, d).dir = FREE => i.children[d] = {}
  BY <1>1 DEF SoundTrees, Entries, EntryOf
<1> QED
  BY <1>2, <1>3, <1>4, <1>5, <1>6, PartsOf DEF WellParted

(* An entry that is linked begins a part of those below the one that links *)
(* it, and is that part.                                                   *)
LEMMA LinkBegins ==
  ASSUME NEW i, WellParted(i), NEW p \in Entries(i), NEW c \in Entries(i), NEW r,
         LinkedBehind(i, p, c, r)
  PROVE  /\ r \in Nat /\ Rank(i, c) = r + 1 /\ Rank(i, p) <= r /\ r <= NextEnd(i, p)
         /\ Rank(i, c) <= LastRank(i, c) /\ LastRank(i, c) <= LastRank(i, p)
         /\ c = EntryOf(i, p).dir => LastRank(i, c) = DirEnd(i, p)
         /\ c = EntryOf(i, p).next => LastRank(i, c) = NextEnd(i, p)
         /\ c = EntryOf(i, p).previous => LastRank(i, c) = LastRank(i, p)
<1>1. Parted(i, p) /\ Parted(i, c) /\ c # FREE
  BY DEF WellParted
<1> QED
  BY <1>1 DEF Parted, LinkedBehind

(* Every entry but the root is linked from one before it.                  *)
LEMMA ParentExists ==
  ASSUME NEW i, WellParted(i), NEW n \in Entries(i), n # 0
  PROVE  \E p \in Entries(i) : \E r \in Nat : LinkedBehind(i, p, n, r)
<1> DEFINE Over == {p \in Entries(i) : Rank(i, p) < Rank(i, n) /\ Rank(i, n) <= LastRank(i, p)}
           P == {Rank(i, n) - Rank(i, p) : p \in Over}
<1>1. \A m \in Entries(i) : Parted(i, m)
  BY DEF WellParted
<1>2. 0 \in Over
  <2>1. 0 \in Entries(i) /\ Rank(i, 0) = 1 /\ Rank(i, n) # 1
    BY DEF WellParted
  <2> QED
    BY <2>1, <1>1 DEF Parted
<1>3. P \in SUBSET Nat /\ P # {}
  BY <1>1, <1>2 DEF Parted
<1>4. PICK k \in P : \A m \in P : k <= m
  BY <1>3, SmallestExists
<1>5. PICK p \in Over : k = Rank(i, n) - Rank(i, p)
  OBVIOUS
<1>6. ASSUME NEW c \in Entries(i), NEW r, LinkedBehind(i, p, c, r),
             Rank(i, c) <= Rank(i, n), Rank(i, n) <= LastRank(i, c)
      PROVE  c = n
  <2>1. Rank(i, c) > Rank(i, p) /\ Rank(i, c) \in Nat /\ Rank(i, p) \in Nat /\ Rank(i, n) \in Nat
    BY <1>1, <1>6, LinkBegins DEF Parted
  <2>2. CASE Rank(i, c) < Rank(i, n)
    <3>1. c \in Over
      BY <2>2, <1>6
    <3>2. Rank(i, n) - Rank(i, c) \in P
      BY <3>1
    <3> QED
      BY <3>2, <1>4, <1>5, <2>1
  <2>3. CASE Rank(i, c) = Rank(i, n)
    BY <2>3 DEF WellParted
  <2> QED
    BY <2>1, <2>2, <2>3, <1>6
<1> DEFINE e == EntryOf(i, p)
<1>7. Parted(i, p) /\ Parted(i, n) /\ Rank(i, p) < Rank(i, n) /\ Rank(i, n) <= LastRank(i, p)
  BY <1>1
<1>8. CASE Rank(i, n) <= DirEnd(i, p)
  <2>1. e.dir # FREE /\ e.dir \in Entries(i) /\ LinkedBehind(i, p, e.dir, Rank(i, p))
    BY <1>7, <1>8 DEF Parted, LinkedBehind
  <2>2. Rank(i, e.dir) <= Rank(i, n) /\ Rank(i, n) <= LastRank(i, e.dir)
    BY <1>7, <1>8, <2>1 DEF Parted
  <2> QED
    BY <2>1, <2>2, <1>6, <1>7 DEF Parted
<1>9. CASE DirEnd(i, p) < Rank(i, n) /\ Rank(i, n) <= NextEnd(i, p)
  <2>1. e.next # FREE /\ e.next \in Entries(i) /\ LinkedBehind(i, p, e.next, DirEnd(i, p))
    BY <1>7, <1>9 DEF Parted, LinkedBehind
  <2>2. Rank(i, e.next) <= Rank(i, n) /\ Rank(i, n) <= LastRank(i, e.next)
    BY <1>7, <1>9, <2>1 DEF Parted
  <2> QED
    BY <2>1, <2>2, <1>6, <1>7 DEF Parted
<1>10. CASE NextEnd(i, p) < Rank(i, n)
  <2>1. /\ e.previous # FREE /\ e.previous \in Entries(i)
        /\ LinkedBehind(i, p, e.previous, NextEnd(i, p))
    BY <1>7, <1>10 DEF Parted, LinkedBehind
  <2>2. Rank(i, e.previous) <= Rank(i, n) /\ Rank(i, n) <= LastRank(i, e.previous)
    BY <1>7, <1>10, <2>1 DEF Parted
  <2> QED
    BY <2>1, <2>2, <1>6, <1>7 DEF Parted
<1> QED
  BY <1>7, <1>8, <1>9, <1>10 DEF Parted

(* Where entry n lies below entry p, all that is below it does, and in the *)
(* same part.                                                              *)
Nested(i, p, n) ==
  Rank(i, p) < Rank(i, n) /\ Rank(i, n) <= LastRank(i, p) =>
    /\ LastRank(i, n) <= LastRank(i, p)
    /\ Rank(i, n) <= DirEnd(i, p) => LastRank(i, n) <= DirEnd(i, p)
    /\ Rank(i, n) <= NextEnd(i, p) => LastRank(i, n) <= NextEnd(i, p)

(* What is below an entry is nested: another entry's part lies within one  *)
(* of its parts or begins behind it.                                       *)
LEMMA AllNested ==
  ASSUME NEW i, WellParted(i), NEW p \in Entries(i), NEW n \in Entries(i)
  PROVE  Nested(i, p, n)
<1> DEFINE Q == {r \in Nat : \A m \in Entries(i) : Rank(i, m) = r => \A q \in Entries(i) : Nested(i, q, m)}
<1>1. \A m \in Entries(i) : Parted(i, m)
  BY DEF WellParted
<1>2. ASSUME NEW r \in Nat, \A k \in Nat : k < r => k \in Q
      PROVE  r \in Q
  <2> SUFFICES ASSUME NEW m \in Entries(i), Rank(i, m) = r, NEW q \in Entries(i),
                      Rank(i, q) < Rank(i, m), Rank(i, m) <= LastRank(i, q)
               PROVE  /\ LastRank(i, m) <= LastRank(i, q)
                      /\ Rank(i, m) <= DirEnd(i, q) => LastRank(i, m) <= DirEnd(i, q)
                      /\ Rank(i, m) <= NextEnd(i, q) => LastRank(i, m) <= NextEnd(i, q)
    BY DEF Nested
  <2>1. m # 0
    BY <1>1 DEF WellParted, Parted
  <2>2. PICK o \in Entries(i), s \in Nat : LinkedBehind(i, o, m, s)
    BY <2>1, ParentExists
  <2>3. /\ Rank(i, m) = s + 1 /\ Rank(i, o) <= s /\ s <= NextEnd(i, o)
        /\ LastRank(i, m) <= LastRank(i, o)
        /\ m = EntryOf(i, o).dir => LastRank(i, m) = DirEnd(i, o)
        /\ m = EntryOf(i, o).next => LastRank(i, m) = NextEnd(i, o)
        /\ m = EntryOf(i, o).previous => LastRank(i, m) = LastRank(i, o)
    BY <2>2, LinkBegins
  <2>4. Parted(i, o) /\ Parted(i, q) /\ Parted(i, m)
    BY <1>1
  <2>5. CASE o = q
    BY <2>2, <2>3, <2>4, <2>5 DEF Parted, LinkedBehind
  <2>6. CASE Rank(i, q) < Rank(i, o)
    <3>1. Rank(i, o) \in Nat /\ Rank(i, o) < r
      BY <2>3, <2>4 DEF Parted
    <3>2. Rank(i, o) \in Q
      BY <3>1, <1>2
    <3>3. Nested(i, q, o)
      BY <3>2
    <3> QED
      BY <3>3, <2>3, <2>4, <2>6 DEF Parted, Nested
  <2>7. CASE Rank(i, o) < Rank(i, q)
    <3>1. Rank(i, q) \in Nat /\ Rank(i, q) < r
      BY <2>4 DEF Parted
    <3>2. Rank(i, q) \in Q
      BY <3>1, <1>2
    <3>3. Nested(i, o, q)
      BY <3>2
    <3> QED
      BY <3>3, <2>2, <2>3, <2>4, <2>7 DEF Parted, Nested, LinkedBehind
  <2>8. o = q \/ Rank(i, q) < Rank(i, o) \/ Rank(i, o) < Rank(i, q)
    <3>1. Rank(i, o) \in Nat /\ Rank(i, q) \in Nat
      BY <2>4 DEF Parted
    <3>2. Rank(i, o) = Rank(i, q) => o = q
      BY DEF WellParted
    <3> QED
      BY <3>1, <3>2
  <2> QED
    BY <2>5, <2>6, <2>7, <2>8
<1> HIDE DEF Q
<1>3. Q = Nat
  <2>1. Q \in SUBSET Nat
    BY DEF Q
  <2> QED
    BY <2>1, <1>2, StrongInduction
<1> QED
  BY <1>1, <1>3 DEF Q, Parted

(* An entry is linked once.                                                *)
LEMMA LinkedOnce ==
  ASSUME NEW i, WellParted(i), NEW p \in Entries(i), NEW q \in Entries(i), NEW c \in Entries(i),
         NEW r, NEW s, LinkedBehind(i, p, c, r), LinkedBehind(i, q, c, s)
  PROVE  /\ p = q /\ r = s
         /\ c = EntryOf(i, p).dir => c # EntryOf(i, q).next /\ c # EntryOf(i, q).previous
         /\ c = EntryOf(i, p).next => c # EntryOf(i, q).previous
<1>1. Parted(i, p) /\ Parted(i, q) /\ Parted(i, c) /\ c # FREE
  BY DEF WellParted
<1>2. /\ r \in Nat /\ Rank(i, c) = r + 1 /\ Rank(i, p) <= r /\ r <= NextEnd(i, p)
      /\ s \in Nat /\ Rank(i, c) = s + 1 /\ Rank(i, q) <= s /\ s <= NextEnd(i, q)
      /\ Rank(i, c) <= LastRank(i, p) /\ Rank(i, c) <= LastRank(i, q)
      /\ Rank(i, c) <= LastRank(i, c)
  BY <1>1, LinkBegins DEF Parted
<1>3. ~ (Rank(i, p) < Rank(i, q))
  <2>1. Nested(i, p, q)
    BY AllNested
  <2> QED
    BY <2>1, <1>1, <1>2 DEF Parted, Nested, LinkedBehind
<1>4. ~ (Rank(i, q) < Rank(i, p))
  <2>1. Nested(i, q, p)
    BY AllNested
  <2> QED
    BY <2>1, <1>1, <1>2 DEF Parted, Nested, LinkedBehind
<1>5. p = q
  BY <1>1, <1>3, <1>4 DEF WellParted, Parted
<1>6. r = s
  BY <1>2
<1> QED
  BY <1>1, <1>5, <1>6 DEF Parted

(* The entries of a directory are below its dir link.                      *)
LEMMA BelowOwner ==
  ASSUME NEW i, WellParted(i), NEW d \in DOMAIN i.children, NEW n \in i.children[d]
  PROVE  Rank(i, d) < Rank(i, n) /\ Rank(i, n) <= DirEnd(i, d)
<1> DEFINE Q == {r \in Nat : \A m \in Entries(i) : Rank(i, m) = r /\ m \in i.children[d] =>
                               Rank(i, d) < r /\ LastRank(i, m) <= DirEnd(i, d)}
<1>1. /\ \A m \in Entries(i) : Parted(i, m)
      /\ d \in Entries(i) /\ i.children[d] \subseteq Entries(i) \ {0}
      /\ \A c \in DOMAIN i.children : \A m : m \in i.children[c] /\ m \in i.children[d] => c = d
  BY DEF WellParted
<1>2. ASSUME NEW r \in Nat, \A k \in Nat : k < r => k \in Q
      PROVE  r \in Q
  <2> SUFFICES ASSUME NEW m \in Entries(i), Rank(i, m) = r, m \in i.children[d]
               PROVE  Rank(i, d) < r /\ LastRank(i, m) <= DirEnd(i, d)
    OBVIOUS
  <2>1. m # 0
    BY <1>1
  <2>2. PICK o \in Entries(i), s \in Nat : LinkedBehind(i, o, m, s)
    BY <2>1, ParentExists
  <2>3. /\ Rank(i, m) = s + 1 /\ Rank(i, o) <= s /\ LastRank(i, m) <= LastRank(i, o)
        /\ m = EntryOf(i, o).dir => LastRank(i, m) = DirEnd(i, o)
    BY <2>2, LinkBegins
  <2>4. Parted(i, o) /\ Parted(i, m) /\ m # FREE
    BY <1>1 DEF WellParted
  <2>5. CASE m = EntryOf(i, o).dir
    <3>1. o \in DOMAIN i.children /\ m \in i.children[o]
      BY <2>4, <2>5 DEF Parted
    <3>2. o = d
      BY <3>1, <1>1
    <3> QED
      BY <3>2, <2>3, <2>4, <2>5 DEF Parted
  <2>6. CASE m = EntryOf(i, o).next \/ m = EntryOf(i, o).previous
    <3>1. Siblings(i, o, m)
      BY <2>4, <2>6 DEF Parted
    <3>2. o \in i.children[d]
      BY <3>1, <1>1 DEF Siblings
    <3>3. Rank(i, o) \in Nat /\ Rank(i, o) < r
      BY <2>3, <2>4 DEF Parted
    <3>4. Rank(i, o) \in Q
      BY <3>3, <1>2
    <3>5. Rank(i, d) < Rank(i, o) /\ LastRank(i, o) <= DirEnd(i, d)
      BY <3>2, <3>4
    <3>6. Rank(i, d) \in Nat /\ DirEnd(i, d) \in Nat
      BY <1>1 DEF Parted
    <3> QED
      BY <3>3, <3>5, <3>6, <2>3, <2>4 DEF Parted
  <2> QED
    BY <2>2, <2>5, <2>6 DEF LinkedBehind
<1> HIDE DEF Q
<1>3. Q = Nat
  <2>1. Q \in SUBSET Nat
    BY DEF Q
  <2> QED
    BY <2>1, <1>2, StrongInduction
<1>4. n \in Entries(i) /\ Parted(i, n) /\ Parted(i, d)
  BY <1>1
<1>5. Rank(i, d) < Rank(i, n) /\ LastRank(i, n) <= DirEnd(i, d)
  BY <1>3, <1>4 DEF Q, Parted
<1> QED
  BY <1>4, <1>5 DEF Parted

(* What is below the dir link of an entry is in directories further down.  *)
LEMMA DeeperBelow ==
  ASSUME NEW i, WellParted(i), NEW n \in Entries(i), NEW d \in DOMAIN i.children,
         NEW m \in i.children[d], Rank(i, n) < Rank(i, m), Rank(i, m) <= DirEnd(i, n)
  PROVE  Rank(i, n) <= Rank(i, d)
<1> DEFINE Q == {r \in Nat : \A k \in Entries(i) : \A c \in DOMAIN i.children :
                   Rank(i, k) = r /\ k \in i.children[c] /\ Rank(i, n) < r /\ r <= DirEnd(i, n)
                     => Rank(i, n) <= Rank(i, c)}
<1>1. /\ \A k \in Entries(i) : Parted(i, k)
      /\ DOMAIN i.children \subseteq Entries(i)
      /\ \A c \in DOMAIN i.children : i.children[c] \subseteq Entries(i) \ {0}
      /\ \A b, c \in DOMAIN i.children : \A k : k \in i.children[b] /\ k \in i.children[c] => b = c
  BY DEF WellParted
<1>2. ASSUME NEW r \in Nat, \A k \in Nat : k < r => k \in Q
      PROVE  r \in Q
  <2> SUFFICES ASSUME NEW k \in Entries(i), NEW c \in DOMAIN i.children, Rank(i, k) = r,
                      k \in i.children[c], Rank(i, n) < r, r <= DirEnd(i, n)
               PROVE  Rank(i, n) <= Rank(i, c)
    OBVIOUS
  <2>1. k # 0
    BY <1>1
  <2>2. PICK o \in Entries(i), s \in Nat : LinkedBehind(i, o, k, s)
    BY <2>1, ParentExists
  <2>3. /\ Rank(i, k) = s + 1 /\ Rank(i, o) <= s
    BY <2>2, LinkBegins
  <2>4. Parted(i, o) /\ Parted(i, k) /\ Parted(i, n) /\ k # FREE
    BY <1>1 DEF WellParted
  <2>5. Rank(i, n) <= Rank(i, o)
    <3>1. Nested(i, o, n)
      BY AllNested
    <3>2. SUFFICES ASSUME Rank(i, o) < Rank(i, n) PROVE FALSE
      BY <2>4 DEF Parted
    <3> QED
      BY <3>1, <3>2, <2>2, <2>3, <2>4 DEF Nested, Parted, LinkedBehind
  <2>6. CASE k = EntryOf(i, o).dir
    <3>1. o \in DOMAIN i.children /\ k \in i.children[o]
      BY <2>4, <2>6 DEF Parted
    <3>2. o = c
      BY <3>1, <1>1
    <3> QED
      BY <3>2, <2>5
  <2>7. CASE k = EntryOf(i, o).next \/ k = EntryOf(i, o).previous
    <3>1. Siblings(i, o, k)
      BY <2>4, <2>7 DEF Parted
    <3>2. o \in i.children[c]
      BY <3>1, <1>1 DEF Siblings
    <3>3. Rank(i, o) \in Nat /\ Rank(i, o) < r
      BY <2>3, <2>4 DEF Parted
    <3>4. Rank(i, o) \in Q
      BY <3>3, <1>2
    <3>5. o # n
      BY <2>3, <2>4, <2>7 DEF Parted
    <3>6. Rank(i, n) < Rank(i, o) /\ Rank(i, o) <= DirEnd(i, n)
      <4>1. Rank(i, n) # Rank(i, o)
        BY <3>5 DEF WellParted
      <4> QED
        BY <4>1, <3>3, <2>4, <2>5 DEF Parted
    <3> QED
      BY <3>2, <3>4, <3>6
  <2> QED
    BY <2>2, <2>6, <2>7 DEF LinkedBehind
<1> HIDE DEF Q
<1>3. Q = Nat
  <2>1. Q \in SUBSET Nat
    BY DEF Q
  <2> QED
    BY <2>1, <1>2, StrongInduction
<1>4. m \in Entries(i) /\ Parted(i, m)
  BY <1>1
<1>5. Rank(i, m) \in Nat
  BY <1>4 DEF Parted
<1> QED
  BY <1>3, <1>4, <1>5 DEF Q

(* An entry that comes behind another one of its directory comes behind    *)
(* all that is below the other's dir link.                                 *)
LEMMA SiblingsBehind ==
  ASSUME NEW i, WellParted(i), NEW n \in Entries(i), NEW m \in Entries(i),
         Siblings(i, n, m), Rank(i, n) < Rank(i, m)
  PROVE  DirEnd(i, n) < Rank(i, m)
<1>1. PICK d \in DOMAIN i.children : n \in i.children[d] /\ m \in i.children[d]
  BY DEF Siblings
<1>2. Parted(i, n) /\ Parted(i, m) /\ Parted(i, d)
  BY DEF WellParted
<1>3. Rank(i, d) < Rank(i, n)
  BY <1>1, BelowOwner
<1>4. SUFFICES ASSUME Rank(i, m) <= DirEnd(i, n) PROVE FALSE
  BY <1>2 DEF Parted
<1>5. Rank(i, n) <= Rank(i, d)
  BY <1>1, <1>4, DeeperBelow
<1> QED
  BY <1>2, <1>3, <1>5 DEF Parted

(* Two entries of the same rank are one.                                   *)
LEMMA RanksApart ==
  ASSUME NEW i, WellParted(i), NEW n \in Entries(i), NEW m \in Entries(i)
  PROVE  /\ Rank(i, n) \in Nat /\ Rank(i, m) \in Nat
         /\ ~ (Rank(i, n) < Rank(i, m)) /\ ~ (Rank(i, m) < Rank(i, n)) => n = m
<1>1. Rank(i, n) \in Nat /\ Rank(i, m) \in Nat
  BY DEF WellParted, Parted
<1>2. Rank(i, n) = Rank(i, m) => n = m
  BY DEF WellParted
<1> QED
  BY <1>1, <1>2

(* Being of the same directory is an equivalence.                          *)
LEMMA SiblingsAlike ==
  ASSUME NEW i, WellParted(i), NEW n, NEW m, NEW k, Siblings(i, n, m), Siblings(i, m, k)
  PROVE  Siblings(i, n, k) /\ Siblings(i, m, n) /\ Siblings(i, k, m)
BY DEF Siblings, WellParted

(* The order the list of a directory is to have: m is the entry behind n.  *)
Comes(i, n, m) ==
  /\ Siblings(i, n, m) /\ Rank(i, n) < Rank(i, m)
  /\ \A k \in Entries(i) : Siblings(i, n, k) /\ Rank(i, n) < Rank(i, k) => Rank(i, m) <= Rank(i, k)

(* What has become of entry n, now v, when entries up to rank t have been  *)
(* visited.                                                                *)
Sorted(i, n, v, t) ==
  LET e == EntryOf(i, n) IN
  /\ v.dir = e.dir
  /\ v.previous = IF NextEnd(i, n) < t THEN FREE ELSE e.previous
  /\ e.next # FREE => v.next = e.next
  /\ e.next = FREE =>
       \/ v.next = FREE /\ \A m \in Entries(i) : Comes(i, n, m) => t < Rank(i, m)
       \/ v.next \in Entries(i) /\ Comes(i, n, v.next) /\ Rank(i, v.next) <= t

(* Before reorder_pps_tree() is called, the links are as they were read.   *)
LEMMA SortedFirst ==
  ASSUME NEW i, WellParted(i), NEW n \in Entries(i)
  PROVE  Sorted(i, n, EntryOf(i, n), 1)
<1>1. Parted(i, n) /\ \A m \in Entries(i) : Parted(i, m)
  BY DEF WellParted
<1>2. ~ (NextEnd(i, n) < 1)
  BY <1>1 DEF Parted
<1>3. ASSUME NEW m \in Entries(i), Comes(i, n, m) PROVE 1 < Rank(i, m)
  BY <1>1, <1>3 DEF Comes, Parted
<1> QED
  BY <1>2, <1>3 DEF Sorted

(* Nothing changes where the next entry is the dir or next link's.         *)
LEMMA SortedOn ==
  ASSUME NEW i, WellParted(i), NEW p \in Entries(i), NEW c \in Entries(i), NEW t,
         \/ c = EntryOf(i, p).dir /\ t = Rank(i, p)
         \/ c = EntryOf(i, p).next /\ t = DirEnd(i, p),
         NEW n \in Entries(i), NEW v, Sorted(i, n, v, t)
  PROVE  Sorted(i, n, v, t + 1)
<1>1. Parted(i, n) /\ Parted(i, p) /\ Parted(i, c) /\ c # FREE
  BY DEF WellParted
<1>2. LinkedBehind(i, p, c, t)
  BY DEF LinkedBehind
<1>3. t \in Nat /\ Rank(i, c) = t + 1 /\ Rank(i, p) <= t
  BY <1>2, LinkBegins
<1> DEFINE e == EntryOf(i, n)
<1>4. e.previous # FREE => NextEnd(i, n) # t
  <2> SUFFICES ASSUME e.previous # FREE, NextEnd(i, n) = t PROVE FALSE
    OBVIOUS
  <2>1. e.previous \in Entries(i) /\ Rank(i, e.previous) = t + 1
    BY <1>1 DEF Parted
  <2>2. e.previous = c
    BY <2>1, <1>3 DEF WellParted
  <2>3. LinkedBehind(i, n, c, t)
    BY <2>2 DEF LinkedBehind
  <2> QED
    BY <2>2, <2>3, <1>2, LinkedOnce
<1>5. ASSUME NEW m \in Entries(i), Comes(i, n, m), Rank(i, m) = t + 1 PROVE e.next # FREE
  <2>1. m = c
    BY <1>3, <1>5 DEF WellParted
  <2>2. Siblings(i, n, c) /\ Rank(i, n) < Rank(i, c)
    BY <1>5, <2>1 DEF Comes
  <2>3. CASE c = EntryOf(i, p).dir /\ t = Rank(i, p)
    <3>1. p \in DOMAIN i.children /\ c \in i.children[p]
      BY <1>1, <2>3 DEF Parted
    <3>2. n \in i.children[p]
      BY <2>2, <3>1 DEF Siblings, WellParted
    <3>3. Rank(i, p) < Rank(i, n)
      BY <3>1, <3>2, BelowOwner
    <3> QED
      BY <3>3, <2>2, <2>3, <1>1, <1>3 DEF Parted
  <2>4. CASE c = EntryOf(i, p).next /\ t = DirEnd(i, p)
    <3>1. Siblings(i, p, c)
      BY <1>1, <2>4 DEF Parted
    <3>2. Siblings(i, n, p) /\ Siblings(i, p, n)
      <4>1. Siblings(i, c, p)
        BY <3>1 DEF Siblings
      <4> QED
        BY <2>2, <4>1, SiblingsAlike
    <3>3. ~ (Rank(i, n) < Rank(i, p))
      BY <1>1, <1>3, <1>5, <2>1, <3>2 DEF Comes, Parted
    <3>4. ~ (Rank(i, p) < Rank(i, n))
      <4> SUFFICES ASSUME Rank(i, p) < Rank(i, n) PROVE FALSE
        OBVIOUS
      <4>1. DirEnd(i, p) < Rank(i, n)
        BY <3>2, SiblingsBehind
      <4> QED
        BY <4>1, <1>1, <1>3, <2>2, <2>4 DEF Parted
    <3>5. n = p
      BY <3>3, <3>4, <1>3, <2>2, RanksApart
    <3> QED
      BY <3>5, <2>4, <1>1
  <2> QED
    BY <2>3, <2>4
<1>6. v.previous = IF NextEnd(i, n) < t + 1 THEN FREE ELSE e.previous
  BY <1>1, <1>3, <1>4 DEF Sorted, Parted
<1>7. ASSUME e.next = FREE
      PROVE  \/ v.next = FREE /\ \A m \in Entries(i) : Comes(i, n, m) => t + 1 < Rank(i, m)
             \/ v.next \in Entries(i) /\ Comes(i, n, v.next) /\ Rank(i, v.next) <= t + 1
  <2>1. \A m \in Entries(i) : Rank(i, m) \in Nat
    BY DEF WellParted, Parted
  <2>2. CASE v.next = FREE /\ \A m \in Entries(i) : Comes(i, n, m) => t < Rank(i, m)
    BY <2>1, <2>2, <1>3, <1>5, <1>7
  <2>3. CASE v.next \in Entries(i) /\ Comes(i, n, v.next) /\ Rank(i, v.next) <= t
    BY <2>1, <2>3, <1>3
  <2> QED
    BY <2>2, <2>3, <1>7 DEF Sorted
<1> QED
  BY <1>6, <1>7 DEF Sorted

(* The last of the siblings of n up to rank t.                             *)
Latest(i, n, k, t) ==
  /\ k \in Entries(i) /\ Siblings(i, n, k) /\ Rank(i, k) <= t
  /\ \A m \in Entries(i) : Siblings(i, n, m) /\ Rank(i, m) <= t => Rank(i, m) <= Rank(i, k)

(* The entry the previous link's is hung behind is the one it comes after, *)
(* and is the end of the list so far.                                      *)
LEMMA HungBehindLatest ==
  ASSUME NEW i, WellParted(i), NEW n \in Entries(i), NEW c \in Entries(i),
         c = EntryOf(i, n).previous, NEW k, Latest(i, n, k, NextEnd(i, n))
  PROVE  /\ EntryOf(i, k).next = FREE /\ Comes(i, k, c)
         /\ \A m \in Entries(i) : Comes(i, m, c) => m = k
<1> DEFINE t == NextEnd(i, n)
<1>1. /\ \A m \in Entries(i) : Parted(i, m)
      /\ c # FREE /\ k \in Entries(i)
  BY DEF WellParted, Latest
<1>2. LinkedBehind(i, n, c, t)
  BY DEF LinkedBehind
<1>3. t \in Nat /\ Rank(i, c) = t + 1 /\ Rank(i, n) <= t /\ Siblings(i, n, c)
  <2>1. Parted(i, n)
    BY <1>1
  <2> QED
    BY <2>1, <1>1 DEF Parted
<1>4. /\ Siblings(i, n, k) /\ Siblings(i, k, n) /\ Siblings(i, k, c) /\ Siblings(i, n, n)
      /\ Rank(i, k) <= t
  <2>1. Siblings(i, n, k)
    BY DEF Latest
  <2>2. Siblings(i, k, n) /\ Siblings(i, c, n)
    BY <2>1, <1>3 DEF Siblings
  <2> QED
    BY <2>1, <2>2, <1>3, SiblingsAlike DEF Latest
<1>5. Rank(i, n) <= Rank(i, k)
  BY <1>3, <1>4 DEF Latest
<1>6. Comes(i, k, c)
  <2>1. Rank(i, k) < Rank(i, c)
    BY <1>1, <1>3, <1>4 DEF Parted
  <2>2. ASSUME NEW m \in Entries(i), Siblings(i, k, m), Rank(i, k) < Rank(i, m)
        PROVE  Rank(i, c) <= Rank(i, m)
    <3>1. Siblings(i, n, m)
      BY <2>2, <1>4, SiblingsAlike
    <3>2. ~ (Rank(i, m) <= t)
      BY <3>1, <2>2, <1>1 DEF Latest, Parted
    <3> QED
      BY <3>2, <1>1, <1>3 DEF Parted
  <2> QED
    BY <2>1, <2>2, <1>4 DEF Comes
<1>7. EntryOf(i, k).next = FREE
  <2> SUFFICES ASSUME EntryOf(i, k).next # FREE PROVE FALSE
    OBVIOUS
  <2> DEFINE b == EntryOf(i, k).next
  <2>1. Parted(i, k) /\ Parted(i, n) /\ Parted(i, c)
    BY <1>1
  <2>2. /\ b \in Entries(i) /\ Siblings(i, k, b) /\ Rank(i, b) = DirEnd(i, k) + 1
        /\ LastRank(i, b) = NextEnd(i, k) /\ Rank(i, k) < Rank(i, b)
    BY <2>1 DEF Parted
  <2>3. Rank(i, c) <= Rank(i, b) /\ Rank(i, b) <= NextEnd(i, k)
    <3>1. Parted(i, b)
      BY <1>1, <2>2
    <3> QED
      BY <3>1, <2>2, <1>6 DEF Comes, Parted
  <2>4. t < NextEnd(i, k)
    BY <2>1, <2>2, <2>3, <1>3 DEF Parted
  <2>5. k # n
    BY <2>4, <1>3
  <2>6. Rank(i, n) < Rank(i, k)
    BY <2>5, <1>1, <1>5, RanksApart
  <2>7. Nested(i, n, k)
    BY <1>1, AllNested
  <2> QED
    BY <2>1, <2>4, <2>6, <2>7, <1>3, <1>4 DEF Nested, Parted
<1>8. ASSUME NEW m \in Entries(i), Comes(i, m, c) PROVE m = k
  <2>1. Siblings(i, m, c) /\ Rank(i, m) < Rank(i, c)
    BY <1>8 DEF Comes
  <2>2. Siblings(i, n, m) /\ Siblings(i, m, k)
    <3>1. Siblings(i, c, n) /\ Siblings(i, c, m)
      BY <2>1, <1>3 DEF Siblings
    <3>2. Siblings(i, m, n) /\ Siblings(i, n, m)
      BY <3>1, <2>1, <1>3, SiblingsAlike
    <3> QED
      BY <3>2, <1>4, SiblingsAlike
  <2>3. Rank(i, m) <= Rank(i, k)
    BY <2>1, <2>2, <1>1, <1>3 DEF Latest, Parted
  <2>4. ~ (Rank(i, m) < Rank(i, k))
    BY <2>2, <1>1, <1>3, <1>4, <1>8 DEF Comes, Parted
  <2> QED
    BY <2>3, <2>4, <1>1, RanksApart
<1> QED
  BY <1>6, <1>7, <1>8

-----------------------------------------------------------------------------
(* The calls under way.  A call returns at the end of the part it was made *)
(* for.                                                                    *)
PartEnd(i, f) == IF f.part = "next" THEN DirEnd(i, f.node) ELSE NextEnd(i, f.node)
Reached(i, cs) ==
  IF cs = <<>> THEN LastRank(i, 0)
  ELSE IF Last(cs).part = "dir" THEN Rank(i, Last(cs).node) ELSE PartEnd(i, Last(cs))

(* The calls under way: each is for a part of what the one below it has    *)
(* left to do, and ends where that part ends.                              *)
Stacked(i, cs) ==
  \A k \in 1 .. Len(cs) :
    /\ cs[k].node \in Entries(i)
    /\ LastRank(i, cs[k].node) = IF k = 1 THEN LastRank(i, 0) ELSE PartEnd(i, cs[k - 1])
    /\ k > 1 /\ cs[k - 1].part = "previous" => Siblings(i, cs[k - 1].node, cs[k].node)
    /\ k < Len(cs) => cs[k].part # "dir"

(* When the previous link is looked at, the last entry visited is the      *)
(* latest one of the directory so far.                                     *)
LatestKnown(i, cs, n) ==
  cs # <<>> /\ Last(cs).part = "previous" /\ Last(cs).node # 0 =>
    Latest(i, Last(cs).node, n, NextEnd(i, Last(cs).node))

(* The tree is in order as far as the calls have got.                      *)
InOrder(i, tr, cs, n) ==
  /\ Len(tr) = Len(i.directory)
  /\ \A m \in Entries(i) : Sorted(i, m, At(tr, m), Reached(i, cs))
  /\ Stacked(i, cs) /\ LatestKnown(i, cs, n)

(* The last call replaced, one added and one taken off.                    *)
Topped(gs, cs, f) == gs = Append(Front(cs), f)
Added(hs, cs, f)  == hs = Append(cs, f)

(* A sequence without its last element.                                    *)
LEMMA FrontIs ==
  ASSUME NEW S, NEW cs \in Seq(S), cs # <<>>
  PROVE  /\ Front(cs) \in Seq(S) /\ Len(cs) \in Nat \ {0} /\ Len(Front(cs)) = Len(cs) - 1
         /\ \A k \in 1 .. Len(cs) - 1 : Front(cs)[k] = cs[k]
<1>1. Len(cs) \in Nat /\ Len(cs) # 0 /\ \A k \in 1 .. Len(cs) : cs[k] \in S
  BY EmptySeq, LenProperties, ElementOfSeq
<1>2. PICK n \in Nat : n = Len(cs) - 1
  BY <1>1
<1>3. \A k \in 1 .. n : cs[k] \in S
  BY <1>1, <1>2
<1>4. /\ SubSeq(cs, 1, n) \in Seq(S)
      /\ Len(SubSeq(cs, 1, n)) = IF 1 <= n THEN n - 1 + 1 ELSE 0
      /\ \A k \in 1 .. n - 1 + 1 : SubSeq(cs, 1, n)[k] = cs[1 + k - 1]
  BY <1>3, SubSeqProperties
<1>5. Len(SubSeq(cs, 1, n)) = n /\ \A k \in 1 .. n : SubSeq(cs, 1, n)[k] = cs[k]
  <2>1. \A k \in 1 .. n : k \in 1 .. n - 1 + 1 /\ 1 + k - 1 = k
    OBVIOUS
  <2> QED
    BY <1>4, <2>1
<1>6. Front(cs) = SubSeq(cs, 1, n)
  BY <1>2 DEF Front
<1> QED
  BY <1>1, <1>2, <1>4, <1>5, <1>6

(* A stack of calls of which the last one goes on: what it holds.          *)
LEMMA LastReplacedIs ==
  ASSUME NEW S, NEW cs \in Seq(S), cs # <<>>, NEW f \in S, NEW gs, Topped(gs, cs, f)
  PROVE  /\ Len(cs) \in Nat \ {0} /\ Len(gs) = Len(cs) /\ gs[Len(cs)] = f
         /\ Last(cs) = cs[Len(cs)] /\ \A k \in 1 .. Len(cs) - 1 : gs[k] = cs[k]
         /\ gs \in Seq(S)
<1>1. Len(cs) \in Nat /\ Len(cs) # 0 /\ \A k \in 1 .. Len(cs) : cs[k] \in S
  BY EmptySeq, LenProperties, ElementOfSeq
<1>2. /\ Front(cs) \in Seq(S) /\ Len(Front(cs)) = Len(cs) - 1
      /\ \A k \in 1 .. Len(cs) - 1 : Front(cs)[k] = cs[k]
  BY FrontIs
<1>3. /\ gs \in Seq(S) /\ Len(gs) = Len(Front(cs)) + 1
      /\ \A k \in 1 .. Len(Front(cs)) : gs[k] = Front(cs)[k]
      /\ gs[Len(Front(cs)) + 1] = f
  BY <1>2, AppendProperties DEF Topped
<1>4. Len(gs) = Len(cs) /\ gs[Len(cs)] = f /\ gs # <<>>
  BY <1>1, <1>2, <1>3
<1> QED
  BY <1>1, <1>2, <1>3, <1>4 DEF Last

(* The same, as much of it as typing needs.                                *)
LEMMA LastReplaced ==
  ASSUME NEW S, NEW cs \in Seq(S), cs # <<>>, NEW f \in S, NEW gs, Topped(gs, cs, f)
  PROVE  gs \in Seq(S) /\ gs # <<>> /\ Last(gs) = f
<1>1. /\ Len(cs) \in Nat \ {0} /\ Len(gs) = Len(cs) /\ gs[Len(cs)] = f
      /\ gs \in Seq(S)
  BY LastReplacedIs
<1> QED
  BY <1>1 DEF Last

(* A stack of calls with one more on top.                                  *)
LEMMA OneAdded ==
  ASSUME NEW S, NEW cs \in Seq(S), NEW f \in S, NEW hs, Added(hs, cs, f)
  PROVE  /\ hs \in Seq(S) /\ hs # <<>> /\ Len(cs) \in Nat
         /\ Len(hs) = Len(cs) + 1 /\ Last(hs) = f /\ hs[Len(cs) + 1] = f
         /\ \A k \in 1 .. Len(cs) : hs[k] = cs[k]
<1>1. /\ hs \in Seq(S) /\ Len(hs) = Len(cs) + 1 /\ Len(cs) \in Nat
      /\ \A k \in 1 .. Len(cs) : hs[k] = cs[k]
      /\ hs[Len(cs) + 1] = f
  BY AppendProperties, LenProperties DEF Added
<1> QED
  BY <1>1 DEF Last

(* The stack stays in order when its last call goes on for an entry that   *)
(* ends where the one before did.                                          *)
LEMMA StackedReplaced ==
  ASSUME NEW i, NEW S, NEW cs \in Seq(S), cs # <<>>, Stacked(i, cs), NEW f \in S,
         f.node \in Entries(i), LastRank(i, f.node) = LastRank(i, Last(cs).node),
         \/ f.node = Last(cs).node
         \/ Len(cs) > 1 /\ cs[Len(cs) - 1].part = "previous"
              => Siblings(i, cs[Len(cs) - 1].node, f.node),
         NEW gs, Topped(gs, cs, f)
  PROVE  Stacked(i, gs)
<1>1. /\ Len(cs) \in Nat \ {0} /\ Len(gs) = Len(cs) /\ gs[Len(cs)] = f /\ Last(cs) = cs[Len(cs)]
      /\ \A k \in 1 .. Len(cs) - 1 : gs[k] = cs[k]
  BY LastReplacedIs
<1>2. ASSUME NEW k \in 1 .. Len(gs)
      PROVE  /\ gs[k].node \in Entries(i)
             /\ LastRank(i, gs[k].node) = IF k = 1 THEN LastRank(i, 0) ELSE PartEnd(i, gs[k - 1])
             /\ k > 1 /\ gs[k - 1].part = "previous" => Siblings(i, gs[k - 1].node, gs[k].node)
             /\ k < Len(gs) => gs[k].part # "dir"
  <2>1. k > 1 => gs[k - 1] = cs[k - 1]
    BY <1>1
  <2>2. k \in 1 .. Len(cs)
    BY <1>1
  <2>3. CASE k < Len(gs)
    BY <1>1, <2>1, <2>2, <2>3 DEF Stacked
  <2>4. CASE k = Len(gs)
    <3>1. /\ LastRank(i, Last(cs).node) = IF k = 1 THEN LastRank(i, 0) ELSE PartEnd(i, cs[k - 1])
          /\ k > 1 /\ cs[k - 1].part = "previous" => Siblings(i, cs[k - 1].node, Last(cs).node)
      BY <1>1, <2>2, <2>4 DEF Stacked
    <3> QED
      BY <3>1, <1>1, <2>1, <2>4
  <2> QED
    BY <1>1, <2>2, <2>3, <2>4
<1> QED
  BY <1>2 DEF Stacked

(* The stack stays in order when a call is made for a part of the last     *)
(* one's entry.                                                            *)
LEMMA StackedAdded ==
  ASSUME NEW i, NEW S, NEW cs \in Seq(S), cs # <<>>, Stacked(i, cs), Last(cs).part # "dir",
         NEW f \in S, f.node \in Entries(i), LastRank(i, f.node) = PartEnd(i, Last(cs)),
         Last(cs).part = "previous" => Siblings(i, Last(cs).node, f.node),
         NEW hs, Added(hs, cs, f)
  PROVE  Stacked(i, hs)
<1>1. /\ Len(hs) = Len(cs) + 1 /\ hs[Len(cs) + 1] = f /\ Len(cs) \in Nat
      /\ \A k \in 1 .. Len(cs) : hs[k] = cs[k]
  BY OneAdded
<1>2. Len(cs) # 0 /\ Last(cs) = cs[Len(cs)]
  BY EmptySeq DEF Last
<1>3. ASSUME NEW k \in 1 .. Len(hs)
      PROVE  /\ hs[k].node \in Entries(i)
             /\ LastRank(i, hs[k].node) = IF k = 1 THEN LastRank(i, 0) ELSE PartEnd(i, hs[k - 1])
             /\ k > 1 /\ hs[k - 1].part = "previous" => Siblings(i, hs[k - 1].node, hs[k].node)
             /\ k < Len(hs) => hs[k].part # "dir"
  <2>1. CASE k <= Len(cs)
    <3>1. k \in 1 .. Len(cs) /\ hs[k] = cs[k]
      BY <1>1, <2>1
    <3>2. k > 1 => hs[k - 1] = cs[k - 1]
      BY <1>1, <2>1
    <3>3. k = Len(cs) => cs[k].part # "dir"
      BY <1>2
    <3> QED
      BY <1>1, <3>1, <3>2, <3>3 DEF Stacked
  <2>2. CASE k = Len(cs) + 1
    <3>1. hs[k] = f /\ k - 1 = Len(cs) /\ hs[k - 1] = Last(cs) /\ k > 1 /\ ~(k < Len(hs)) /\ k # 1
      BY <1>1, <1>2, <2>2
    <3> QED
      BY <3>1
  <2> QED
    BY <1>1, <2>1, <2>2
<1> QED
  BY <1>3 DEF Stacked

(* The stack stays in order when a call returns.                           *)
LEMMA StackedTaken ==
  ASSUME NEW i, NEW S, NEW cs \in Seq(S), cs # <<>>, Stacked(i, cs)
  PROVE  Stacked(i, Front(cs))
<1>1. /\ Len(cs) \in Nat \ {0} /\ Len(Front(cs)) = Len(cs) - 1
      /\ \A k \in 1 .. Len(cs) - 1 : Front(cs)[k] = cs[k]
  BY FrontIs
<1> DEFINE fs == Front(cs)
<1>2. ASSUME NEW k \in 1 .. Len(fs)
      PROVE  /\ fs[k].node \in Entries(i)
             /\ LastRank(i, fs[k].node) = IF k = 1 THEN LastRank(i, 0) ELSE PartEnd(i, fs[k - 1])
             /\ k > 1 /\ fs[k - 1].part = "previous" => Siblings(i, fs[k - 1].node, fs[k].node)
             /\ k < Len(fs) => fs[k].part # "dir"
  <2>1. /\ k \in 1 .. Len(cs) /\ fs[k] = cs[k] /\ (k > 1 => fs[k - 1] = cs[k - 1])
        /\ k < Len(cs)
    BY <1>1
  <2> HIDE DEF fs
  <2> QED
    BY <2>1 DEF Stacked
<1> QED
  BY <1>2 DEF Stacked

(* What is known of the last call.                                         *)
LEMMA TopKnown ==
  ASSUME NEW i, WellParted(i), NEW S, NEW cs \in Seq(S), cs # <<>>, NEW tr, NEW l,
         InOrder(i, tr, cs, l), NEW n, n = Last(cs).node
  PROVE  /\ n \in Entries(i) /\ Parted(i, n) /\ Sorted(i, n, At(tr, n), Reached(i, cs))
         /\ Last(cs).part = "dir" => Reached(i, cs) = Rank(i, n)
         /\ Last(cs).part = "next" => Reached(i, cs) = DirEnd(i, n)
         /\ Last(cs).part = "previous" => Reached(i, cs) = NextEnd(i, n)
<1>1. Len(cs) \in 1 .. Len(cs)
  BY EmptySeq, LenProperties
<1>2. n \in Entries(i)
  BY <1>1 DEF InOrder, Stacked, Last
<1>3. Parted(i, n) /\ Sorted(i, n, At(tr, n), Reached(i, cs))
  BY <1>2 DEF WellParted, InOrder
<1>4. /\ Last(cs).part = "dir" => Reached(i, cs) = Rank(i, n)
      /\ Last(cs).part # "dir" => Reached(i, cs) = PartEnd(i, Last(cs))
  BY DEF Reached
<1> QED
  BY <1>2, <1>3, <1>4 DEF PartEnd

(* reorder_pps_tree() passes a dir link that leads nowhere.                *)
LEMMA DirDone ==
  ASSUME NEW i, WellParted(i), NEW S, NEW cs \in Seq(S), cs # <<>>, NEW tr, NEW l,
         InOrder(i, tr, cs, l), NEW n, n = Last(cs).node,
         Last(cs).part = "dir", At(tr, n).dir = FREE,
         NEW f \in S, f.node = n, f.part = "next", NEW gs, Topped(gs, cs, f)
  PROVE  InOrder(i, tr, gs, l)
<1>1. n \in Entries(i) /\ Parted(i, n) /\ Sorted(i, n, At(tr, n), Rank(i, n)) /\ Reached(i, cs) = Rank(i, n)
  BY TopKnown
<1>2. gs # <<>> /\ Last(gs) = f
  BY LastReplaced
<1>3. Reached(i, gs) = DirEnd(i, n)
  BY <1>2 DEF Reached, PartEnd
<1>4. Reached(i, gs) = Reached(i, cs)
  BY <1>1, <1>3 DEF Sorted, Parted
<1>5. Stacked(i, gs)
  BY <1>1, StackedReplaced DEF InOrder
<1>6. LatestKnown(i, gs, l)
  BY <1>2 DEF LatestKnown
<1> QED
  BY <1>4, <1>5, <1>6 DEF InOrder

(* reorder_pps_tree() follows a dir link.                                  *)
LEMMA DirEntered ==
  ASSUME NEW i, WellParted(i), NEW S, NEW cs \in Seq(S), cs # <<>>, NEW tr, NEW l,
         InOrder(i, tr, cs, l), NEW n, n = Last(cs).node,
         Last(cs).part = "dir", NEW c, c = At(tr, n).dir, c # FREE,
         NEW f \in S, f.node = n, f.part = "next", NEW gs, Topped(gs, cs, f),
         NEW g \in S, g.node = c, g.part = "dir", NEW hs, Added(hs, gs, g)
  PROVE  InOrder(i, tr, hs, l)
<1>1. n \in Entries(i) /\ Parted(i, n) /\ Sorted(i, n, At(tr, n), Rank(i, n)) /\ Reached(i, cs) = Rank(i, n)
  BY TopKnown
<1>2. c = EntryOf(i, n).dir /\ c \in Entries(i)
  BY <1>1 DEF Sorted, Parted
<1>3. gs \in Seq(S) /\ gs # <<>> /\ Last(gs) = f
  BY LastReplaced
<1>4. hs # <<>> /\ Last(hs) = g
  BY <1>3, OneAdded
<1>5. Stacked(i, gs)
  BY <1>1, StackedReplaced DEF InOrder
<1>6. LastRank(i, c) = DirEnd(i, n) /\ Rank(i, c) = Rank(i, n) + 1
  BY <1>1, <1>2 DEF Parted
<1>7. Stacked(i, hs)
  <2>1. LastRank(i, g.node) = PartEnd(i, Last(gs))
    BY <1>3, <1>6 DEF PartEnd
  <2>2. Last(gs).part # "dir" /\ Last(gs).part # "previous"
    BY <1>3
  <2> QED
    BY <1>2, <1>3, <1>5, <2>1, <2>2, StackedAdded
<1>8. Reached(i, hs) = Rank(i, n) + 1
  BY <1>4, <1>6 DEF Reached
<1>9. ASSUME NEW m \in Entries(i) PROVE Sorted(i, m, At(tr, m), Rank(i, n) + 1)
  <2>1. Sorted(i, m, At(tr, m), Rank(i, n))
    BY <1>1 DEF InOrder
  <2> QED
    BY <1>1, <1>2, <2>1, SortedOn
<1>10. LatestKnown(i, hs, l)
  BY <1>4 DEF LatestKnown
<1> QED
  BY <1>7, <1>8, <1>9, <1>10 DEF InOrder

(* reorder_pps_tree() passes a next link that leads nowhere: the entry is  *)
(* the last one visited of its directory.                                  *)
LEMMA NextDone ==
  ASSUME NEW i, WellParted(i), NEW S, NEW cs \in Seq(S), cs # <<>>, NEW tr, NEW l,
         InOrder(i, tr, cs, l), NEW n, n = Last(cs).node,
         Last(cs).part = "next", At(tr, n).next = FREE,
         NEW f \in S, f.node = n, f.part = "previous", NEW gs, Topped(gs, cs, f)
  PROVE  InOrder(i, tr, gs, n)
<1>1. n \in Entries(i) /\ Parted(i, n) /\ Sorted(i, n, At(tr, n), DirEnd(i, n)) /\ Reached(i, cs) = DirEnd(i, n)
  BY TopKnown
<1>2. gs # <<>> /\ Last(gs) = f
  BY LastReplaced
<1>3. Reached(i, gs) = NextEnd(i, n)
  BY <1>2 DEF Reached, PartEnd
<1>4. NextEnd(i, n) = DirEnd(i, n)
  BY <1>1 DEF Sorted, Parted
<1>5. Stacked(i, gs)
  BY <1>1, StackedReplaced DEF InOrder
<1>6. LatestKnown(i, gs, n)
  <2> SUFFICES ASSUME n # 0 PROVE Latest(i, n, n, NextEnd(i, n))
    BY <1>2 DEF LatestKnown
  <2>1. Siblings(i, n, n)
    BY <1>1 DEF Siblings, WellParted
  <2>2. Rank(i, n) <= NextEnd(i, n)
    BY <1>1, <1>4 DEF Parted
  <2>3. ASSUME NEW m \in Entries(i), Siblings(i, n, m), Rank(i, m) <= NextEnd(i, n)
        PROVE  Rank(i, m) <= Rank(i, n)
    <3>1. ~ (Rank(i, n) < Rank(i, m))
      <4> SUFFICES ASSUME Rank(i, n) < Rank(i, m) PROVE FALSE
        OBVIOUS
      <4>1. DirEnd(i, n) < Rank(i, m)
        BY <1>1, <2>3, SiblingsBehind
      <4>2. Rank(i, m) \in Nat
        BY <1>1, RanksApart
      <4> QED
        BY <4>1, <4>2, <2>3, <1>1, <1>4 DEF Parted
    <3> QED
      BY <3>1, <1>1, RanksApart
  <2> QED
    BY <1>1, <2>1, <2>2, <2>3 DEF Latest
<1> QED
  BY <1>1, <1>3, <1>4, <1>5, <1>6 DEF InOrder

(* reorder_pps_tree() follows a next link.                                 *)
LEMMA NextEntered ==
  ASSUME NEW i, WellParted(i), NEW S, NEW cs \in Seq(S), cs # <<>>, NEW tr, NEW l,
         InOrder(i, tr, cs, l), NEW n, n = Last(cs).node,
         Last(cs).part = "next", NEW c, c = At(tr, n).next, c # FREE,
         NEW f \in S, f.node = n, f.part = "previous", NEW gs, Topped(gs, cs, f),
         NEW g \in S, g.node = c, g.part = "dir", NEW hs, Added(hs, gs, g)
  PROVE  InOrder(i, tr, hs, l)
<1>1. n \in Entries(i) /\ Parted(i, n) /\ Sorted(i, n, At(tr, n), DirEnd(i, n)) /\ Reached(i, cs) = DirEnd(i, n)
  BY TopKnown
<1>2. c = EntryOf(i, n).next
  <2> SUFFICES ASSUME EntryOf(i, n).next = FREE PROVE FALSE
    BY <1>1 DEF Sorted
  <2>1. c \in Entries(i) /\ Comes(i, n, c) /\ Rank(i, c) <= DirEnd(i, n)
    BY <1>1 DEF Sorted
  <2>2. DirEnd(i, n) < Rank(i, c)
    BY <2>1, <1>1, SiblingsBehind DEF Comes
  <2> QED
    BY <2>1, <2>2, <1>1, RanksApart DEF Parted
<1>3. c \in Entries(i) /\ Siblings(i, n, c)
  BY <1>1, <1>2 DEF Parted
<1>4. gs \in Seq(S) /\ gs # <<>> /\ Last(gs) = f
  BY LastReplaced
<1>5. hs # <<>> /\ Last(hs) = g
  BY <1>4, OneAdded
<1>6. Stacked(i, gs)
  BY <1>1, StackedReplaced DEF InOrder
<1>7. LastRank(i, c) = NextEnd(i, n) /\ Rank(i, c) = DirEnd(i, n) + 1
  BY <1>1, <1>2 DEF Parted
<1>8. Stacked(i, hs)
  <2>1. LastRank(i, g.node) = PartEnd(i, Last(gs))
    BY <1>4, <1>7 DEF PartEnd
  <2>2. Last(gs).part # "dir" /\ Siblings(i, Last(gs).node, g.node)
    BY <1>3, <1>4
  <2> QED
    BY <1>3, <1>4, <1>6, <2>1, <2>2, StackedAdded
<1>9. Reached(i, hs) = DirEnd(i, n) + 1
  BY <1>5, <1>7 DEF Reached
<1>10. ASSUME NEW m \in Entries(i) PROVE Sorted(i, m, At(tr, m), DirEnd(i, n) + 1)
  <2>1. Sorted(i, m, At(tr, m), DirEnd(i, n))
    BY <1>1 DEF InOrder
  <2> QED
    BY <1>1, <1>2, <1>3, <2>1, SortedOn
<1>11. LatestKnown(i, hs, l)
  BY <1>5 DEF LatestKnown
<1> QED
  BY <1>8, <1>9, <1>10, <1>11 DEF InOrder

(* reorder_pps_tree() returns from an entry with no previous link.         *)
LEMMA PreviousDone ==
  ASSUME NEW i, WellParted(i), NEW S, NEW cs \in Seq(S), cs # <<>>, NEW tr, NEW l,
         InOrder(i, tr, cs, l), NEW n, n = Last(cs).node,
         Last(cs).part = "previous", At(tr, n).previous = FREE, NEW fs, fs = Front(cs)
  PROVE  InOrder(i, tr, fs, l)
<1>1. /\ n \in Entries(i) /\ Parted(i, n) /\ Sorted(i, n, At(tr, n), NextEnd(i, n))
      /\ Reached(i, cs) = NextEnd(i, n)
  BY TopKnown
<1>2. EntryOf(i, n).previous = FREE
  <2>1. ~ (NextEnd(i, n) < NextEnd(i, n))
    BY <1>1 DEF Parted
  <2> QED
    BY <1>1, <2>1 DEF Sorted
<1>3. LastRank(i, n) = NextEnd(i, n)
  BY <1>1, <1>2 DEF Parted
<1>4. /\ fs \in Seq(S) /\ Len(cs) \in Nat \ {0} /\ Len(fs) = Len(cs) - 1
      /\ \A k \in 1 .. Len(cs) - 1 : fs[k] = cs[k]
  BY FrontIs
<1>5. Stacked(i, fs)
  BY StackedTaken DEF InOrder
<1>6. /\ LastRank(i, n) = IF Len(cs) = 1 THEN LastRank(i, 0) ELSE PartEnd(i, cs[Len(cs) - 1])
      /\ Len(cs) > 1 /\ cs[Len(cs) - 1].part = "previous" => Siblings(i, cs[Len(cs) - 1].node, n)
  <2>1. Len(cs) \in 1 .. Len(cs)
    BY <1>4
  <2> QED
    BY <2>1 DEF InOrder, Stacked, Last
<1>7. CASE Len(cs) = 1
  <2>1. fs = <<>>
    BY <1>4, <1>7, EmptySeq
  <2>2. Reached(i, fs) = Reached(i, cs)
    BY <2>1, <1>1, <1>3, <1>6, <1>7 DEF Reached
  <2>3. LatestKnown(i, fs, l)
    BY <2>1 DEF LatestKnown
  <2> QED
    BY <2>2, <2>3, <1>5 DEF InOrder
<1>8. CASE Len(cs) # 1
  <2>1. fs # <<>> /\ Last(fs) = cs[Len(cs) - 1] /\ Len(cs) > 1
    BY <1>4, <1>8, EmptySeq DEF Last
  <2>2. cs[Len(cs) - 1].part # "dir"
    <3>1. Len(cs) - 1 \in 1 .. Len(cs) /\ Len(cs) - 1 < Len(cs)
      BY <1>4, <1>8
    <3> QED
      BY <3>1 DEF InOrder, Stacked
  <2>3. Reached(i, fs) = Reached(i, cs)
    BY <2>1, <2>2, <1>1, <1>3, <1>6, <1>8 DEF Reached
  <2>4. LatestKnown(i, fs, l)
    <3> DEFINE b == Last(fs).node
    <3> SUFFICES ASSUME Last(fs).part = "previous" PROVE Latest(i, b, l, NextEnd(i, b))
      BY DEF LatestKnown
    <3>1. Siblings(i, b, n) /\ NextEnd(i, b) = NextEnd(i, n)
      BY <2>1, <1>3, <1>6, <1>8 DEF PartEnd
    <3>2. n # 0
      BY <3>1 DEF Siblings, WellParted
    <3>3. Latest(i, n, l, NextEnd(i, n))
      BY <3>2 DEF InOrder, LatestKnown
    <3>4. Siblings(i, b, l)
      BY <3>1, <3>3, SiblingsAlike DEF Latest
    <3>5. ASSUME NEW m \in Entries(i), Siblings(i, b, m) PROVE Siblings(i, n, m)
      <4>1. Siblings(i, n, b)
        BY <3>1, SiblingsAlike DEF Siblings
      <4> QED
        BY <4>1, <3>5, SiblingsAlike
    <3> QED
      BY <3>1, <3>3, <3>4, <3>5 DEF Latest
  <2> QED
    BY <2>3, <2>4, <1>5 DEF InOrder
<1> QED
  BY <1>7, <1>8

(* Two links of the tree overwritten.                                      *)
Rehung(tr2, tr, l, n, c) == tr2 = [tr EXCEPT ![l + 1].next = c, ![n + 1].previous = FREE]

(* What hanging the previous entries behind the last one visited changes   *)
(* in the tree: two links.                                                 *)
LEMMA LinksWritten ==
  ASSUME NEW tr, Len(tr) \in Nat, tr = [k \in 1 .. Len(tr) |-> tr[k]],
         \A k \in 1 .. Len(tr) : IsEntry(tr[k]),
         NEW l \in Int, NEW n \in Nat, NEW c \in Nat \cup {FREE},
         NEW tr2, Rehung(tr2, tr, l, n, c)
  PROVE  /\ Len(tr2) = Len(tr) /\ tr2 = [k \in 1 .. Len(tr2) |-> tr2[k]]
         /\ \A k \in 1 .. Len(tr2) :
              /\ IsEntry(tr2[k])
              /\ tr2[k].dir = tr[k].dir
              /\ tr2[k].next = IF k = l + 1 THEN c ELSE tr[k].next
              /\ tr2[k].previous = IF k = n + 1 THEN FREE ELSE tr[k].previous
<1> DEFINE hung(e)  == [e EXCEPT !.next = c]
           freed(e) == [e EXCEPT !.previous = FREE]
<1>1. ASSUME NEW e, IsEntry(e)
      PROVE  /\ IsEntry(hung(e)) /\ hung(e).next = c /\ hung(e).dir = e.dir
             /\ hung(e).previous = e.previous
             /\ IsEntry(freed(e)) /\ freed(e).next = e.next /\ freed(e).dir = e.dir
             /\ freed(e).previous = FREE
  BY <1>1 DEF IsEntry
<1> DEFINE tr1 == [tr EXCEPT ![l + 1] = hung(tr[l + 1])]
<1>2. tr2 = [tr1 EXCEPT ![n + 1] = freed(tr1[n + 1])]
  BY DEF Rehung
<1> HIDE DEF hung, freed
<1>3. /\ tr1 = [k \in 1 .. Len(tr) |-> IF k = l + 1 THEN hung(tr[k]) ELSE tr[k]]
  OBVIOUS
<1>4. tr2 = [k \in 1 .. Len(tr) |-> IF k = n + 1 THEN freed(tr1[k]) ELSE tr1[k]]
  BY <1>2, <1>3
<1> HIDE DEF tr1
<1>5. ASSUME NEW k \in 1 .. Len(tr)
      PROVE  /\ IsEntry(tr1[k]) /\ tr1[k].dir = tr[k].dir /\ tr1[k].previous = tr[k].previous
             /\ tr1[k].next = IF k = l + 1 THEN c ELSE tr[k].next
  BY <1>1, <1>3
<1>6. ASSUME NEW k \in 1 .. Len(tr)
      PROVE  /\ IsEntry(tr2[k]) /\ tr2[k].dir = tr1[k].dir /\ tr2[k].next = tr1[k].next
             /\ tr2[k].previous = IF k = n + 1 THEN FREE ELSE tr1[k].previous
  BY <1>1, <1>4, <1>5
<1>7. Len(tr2) = Len(tr)
  BY <1>4
<1>8. tr2 = [k \in 1 .. Len(tr2) |-> tr2[k]]
  BY <1>4, <1>7
<1> QED
  BY <1>5, <1>6, <1>7, <1>8

(* A sequence of entries.                                                  *)
AreEntries(tr) == tr = [k \in 1 .. Len(tr) |-> tr[k]] /\ \A k \in 1 .. Len(tr) : IsEntry(tr[k])

(* reorder_pps_tree() hangs the previous entries behind the last one       *)
(* visited and follows the link: this is where the order is made.          *)
LEMMA PreviousEntered ==
  ASSUME NEW i \in Images, i.ole, DOMAIN i.children # {}, WellParted(i),
         NEW S, NEW cs \in Seq(S), cs # <<>>, NEW tr, NEW l,
         InOrder(i, tr, cs, l), NEW n, n = Last(cs).node,
         AreEntries(tr),
         Last(cs).part = "previous", NEW c, c = At(tr, n).previous, c # FREE,
         NEW tr2, Rehung(tr2, tr, l, n, c),
         NEW g \in S, g.node = c, g.part = "dir", NEW gs, Topped(gs, cs, g)
  PROVE  InOrder(i, tr2, gs, l)
<1>1. /\ n \in Entries(i) /\ Parted(i, n) /\ Sorted(i, n, At(tr, n), NextEnd(i, n))
      /\ Reached(i, cs) = NextEnd(i, n)
  BY TopKnown
<1> DEFINE t == NextEnd(i, n)
<1>2. c = EntryOf(i, n).previous /\ c \in Entries(i)
  <2>1. ~ (NextEnd(i, n) < NextEnd(i, n))
    BY <1>1 DEF Parted
  <2> QED
    BY <1>1, <2>1 DEF Sorted, Parted
<1>3. Siblings(i, n, c) /\ Rank(i, c) = t + 1 /\ LastRank(i, c) = LastRank(i, n) /\ t \in Nat
  BY <1>1, <1>2 DEF Parted
<1>4. Latest(i, n, l, t)
  <2>1. n # 0
    BY <1>3 DEF Siblings, WellParted
  <2> QED
    BY <2>1 DEF InOrder, LatestKnown
<1>5. /\ EntryOf(i, l).next = FREE /\ Comes(i, l, c) /\ l \in Entries(i)
      /\ \A m \in Entries(i) : Comes(i, m, c) => m = l
  <2>1. l \in Entries(i)
    BY <1>4 DEF Latest
  <2> QED
    BY <2>1, <1>1, <1>2, <1>4, HungBehindLatest
<1>6. /\ Len(tr) = Len(i.directory) /\ Len(i.directory) \in Nat
      /\ \A m \in Entries(i) : m \in Nat /\ m + 1 \in 1 .. Len(tr)
  <2>1. Len(tr) = Len(i.directory) /\ Len(i.directory) \in Nat
    BY DirectoryTyped DEF InOrder
  <2>2. \A m \in Entries(i) : m \in 0 .. Len(i.directory) - 1
    BY TreesSound DEF SoundTrees
  <2> QED
    BY <2>1, <2>2
<1>7. /\ Len(tr2) = Len(tr)
      /\ \A k \in 1 .. Len(tr2) :
           /\ tr2[k].dir = tr[k].dir
           /\ tr2[k].next = IF k = l + 1 THEN c ELSE tr[k].next
           /\ tr2[k].previous = IF k = n + 1 THEN FREE ELSE tr[k].previous
  <2>1. l \in Int /\ n \in Nat /\ c \in Nat \cup {FREE} /\ Len(tr) \in Nat
    BY <1>1, <1>2, <1>5, <1>6
  <2> QED
    BY <2>1, LinksWritten, SMTT(20) DEF AreEntries
<1>8. ASSUME NEW m \in Entries(i)
      PROVE  /\ At(tr2, m).dir = At(tr, m).dir
             /\ At(tr2, m).next = IF m = l THEN c ELSE At(tr, m).next
             /\ At(tr2, m).previous = IF m = n THEN FREE ELSE At(tr, m).previous
  <2>1. m + 1 \in 1 .. Len(tr2) /\ (m + 1 = l + 1 <=> m = l) /\ (m + 1 = n + 1 <=> m = n)
    BY <1>1, <1>5, <1>6, <1>7
  <2> QED
    BY <2>1, <1>7 DEF At
<1>9. ASSUME NEW m \in Entries(i) PROVE Sorted(i, m, At(tr2, m), t + 1)
  <2> DEFINE e == EntryOf(i, m)
             v == At(tr, m)
             w == At(tr2, m)
  <2>1. Sorted(i, m, v, t)
    BY <1>1 DEF InOrder
  <2>2. Parted(i, m) /\ NextEnd(i, m) \in Nat
    BY DEF WellParted, Parted
  <2>3. w.dir = e.dir
    BY <2>1, <1>8 DEF Sorted
  <2>4. w.previous = IF NextEnd(i, m) < t + 1 THEN FREE ELSE e.previous
    <3>1. CASE m = n
      <4>1. NextEnd(i, m) < t + 1
        BY <3>1, <1>3
      <4> QED
        BY <4>1, <3>1, <1>8
    <3>2. CASE m # n
      <4>1. e.previous # FREE => NextEnd(i, m) # t
        <5> SUFFICES ASSUME e.previous # FREE, NextEnd(i, m) = t PROVE FALSE
          OBVIOUS
        <5>1. e.previous \in Entries(i) /\ Rank(i, e.previous) = t + 1
          BY <2>2 DEF Parted
        <5>2. e.previous = c
          BY <5>1, <1>2, <1>3 DEF WellParted
        <5>3. LinkedBehind(i, m, c, t) /\ LinkedBehind(i, n, c, t)
          BY <5>2, <1>2 DEF LinkedBehind
        <5> QED
          BY <5>3, <3>2, <1>1, <1>2, LinkedOnce
      <4>2. v.previous = IF NextEnd(i, m) < t THEN FREE ELSE e.previous
        BY <2>1 DEF Sorted
      <4>3. w.previous = v.previous
        BY <3>2, <1>8
      <4> QED
        BY <4>1, <4>2, <4>3, <2>2, <1>3
    <3> QED
      BY <3>1, <3>2
  <2>5. e.next # FREE => w.next = e.next
    BY <2>1, <1>5, <1>8 DEF Sorted
  <2>6. ASSUME e.next = FREE
        PROVE  \/ w.next = FREE /\ \A k \in Entries(i) : Comes(i, m, k) => t + 1 < Rank(i, k)
               \/ w.next \in Entries(i) /\ Comes(i, m, w.next) /\ Rank(i, w.next) <= t + 1
    <3>1. CASE m = l
      BY <3>1, <1>2, <1>3, <1>5, <1>8
    <3>2. CASE m # l
      <4>1. w.next = v.next
        BY <3>2, <1>8
      <4>2. CASE v.next = FREE /\ \A k \in Entries(i) : Comes(i, m, k) => t < Rank(i, k)
        <5>1. ASSUME NEW k \in Entries(i), Comes(i, m, k) PROVE t + 1 < Rank(i, k)
          <6>1. Rank(i, k) # t + 1
            <7>1. Rank(i, k) = Rank(i, c) => k = c
              BY <1>2 DEF WellParted
            <7> QED
              BY <7>1, <1>3, <1>5, <3>2, <5>1
          <6>2. Rank(i, k) \in Nat /\ t < Rank(i, k)
            BY <4>2, <5>1, RanksApart
          <6> QED
            BY <6>1, <6>2, <1>3
        <5> QED
          BY <4>1, <4>2, <5>1
      <4>3. CASE v.next \in Entries(i) /\ Comes(i, m, v.next) /\ Rank(i, v.next) <= t
        <5>1. Rank(i, v.next) \in Nat
          BY <4>3, RanksApart
        <5> QED
          BY <4>1, <4>3, <5>1, <1>3
      <4> QED
        BY <2>1, <2>6, <4>2, <4>3 DEF Sorted
    <3> QED
      BY <3>1, <3>2
  <2> QED
    BY <2>3, <2>4, <2>5, <2>6 DEF Sorted
<1>10. gs # <<>> /\ Last(gs) = g
  BY LastReplaced
<1>11. Reached(i, gs) = t + 1
  BY <1>3, <1>10 DEF Reached
<1>12. Stacked(i, gs)
  <2>1. ASSUME Len(cs) > 1, cs[Len(cs) - 1].part = "previous"
        PROVE  Siblings(i, cs[Len(cs) - 1].node, c)
    <3>1. Len(cs) \in 1 .. Len(cs)
      BY EmptySeq, LenProperties
    <3>2. Siblings(i, cs[Len(cs) - 1].node, n)
      BY <2>1, <3>1 DEF InOrder, Stacked, Last
    <3> QED
      BY <3>2, <1>3, SiblingsAlike
  <2> QED
    BY <2>1, <1>2, <1>3, StackedReplaced DEF InOrder
<1>13. LatestKnown(i, gs, l)
  BY <1>10 DEF LatestKnown
<1> QED
  BY <1>6, <1>7, <1>9, <1>11, <1>12, <1>13 DEF InOrder

-----------------------------------------------------------------------------
(* What is in the blocks of an image.                                      *)
BlockValues(i) == UNION {Range(i.blocks[n]) : n \in DOMAIN i.blocks}

(* A block, in the file or not, is a sequence of what is in blocks.        *)
LEMMA BlockTyped ==
  ASSUME NEW i, DepotWritten(i), NEW n \in Nat
  PROVE  BlockIn(i, n) \in Seq(BlockValues(i))
<1>1. Len(i.blocks) \in Nat /\ DOMAIN i.blocks = 1 .. Len(i.blocks)
  BY DEF DepotWritten
<1>2. CASE n < Len(i.blocks)
  <2>1. n + 1 \in DOMAIN i.blocks
    BY <1>1, <1>2
  <2> DEFINE b == i.blocks[n + 1]
  <2>2. b \in Seq(Range(b)) /\ Range(b) \subseteq BlockValues(i)
    BY <2>1 DEF DepotWritten, BlockValues
  <2>3. b \in Seq(BlockValues(i))
    <3> HIDE DEF b
    <3>1. DOMAIN b = 1 .. Len(b) /\ Len(b) \in Nat /\ b = [k \in 1 .. Len(b) |-> b[k]]
      BY <2>2, LenProperties
    <3>2. b \in [1 .. Len(b) -> BlockValues(i)]
      BY <2>2, <3>1 DEF Range
    <3> QED
      BY <3>1, <3>2, FunctionIsSeq
  <2> QED
    BY <2>3, <1>2 DEF BlockIn, At
<1>3. CASE ~(n < Len(i.blocks))
  BY <1>3, EmptySeq DEF BlockIn
<1> QED
  BY <1>2, <1>3

(* The blocks of a list, one by one.                                       *)
BlockList(i, ns) == [k \in DOMAIN ns |-> BlockIn(i, ns[k])]

(* The blocks of a list, and what they hold one after another.             *)
LEMMA BlockListTyped ==
  ASSUME NEW i, DepotWritten(i), NEW ns \in Seq(Nat)
  PROVE  /\ BlockList(i, ns) \in Seq(Seq(BlockValues(i))) /\ Len(BlockList(i, ns)) = Len(ns)
         /\ \A k \in 1 .. Len(ns) : BlockList(i, ns)[k] = BlockIn(i, ns[k])
         /\ BlocksIn(i, ns) = FlattenSeq(BlockList(i, ns)) /\ BlocksIn(i, ns) \in Seq(BlockValues(i))
<1>1. DOMAIN ns = 1 .. Len(ns) /\ Len(ns) \in Nat /\ \A k \in 1 .. Len(ns) : ns[k] \in Nat
  BY LenProperties, ElementOfSeq
<1>2. BlockList(i, ns) \in [1 .. Len(ns) -> Seq(BlockValues(i))]
  BY <1>1, BlockTyped DEF BlockList
<1>3. BlockList(i, ns) \in Seq(Seq(BlockValues(i))) /\ Len(BlockList(i, ns)) = Len(ns)
  BY <1>1, <1>2, FunctionIsSeq
<1>4. BlocksIn(i, ns) = FlattenSeq(BlockList(i, ns))
  BY DEF BlocksIn, BlockList
<1>5. FlattenSeq(BlockList(i, ns)) \in Seq(BlockValues(i))
  BY <1>3, FlattenType
<1> QED
  BY <1>1, <1>3, <1>4, <1>5 DEF BlockList

(* The blocks of one list after another.                                   *)
LEMMA BlocksConcat ==
  ASSUME NEW i, DepotWritten(i), NEW a \in Seq(Nat), NEW b \in Seq(Nat)
  PROVE  BlocksIn(i, a \o b) = BlocksIn(i, a) \o BlocksIn(i, b)
<1> DEFINE A == BlockList(i, a)
           B == BlockList(i, b)
           C == BlockList(i, a \o b)
<1>1. /\ a \o b \in Seq(Nat) /\ Len(a \o b) = Len(a) + Len(b) /\ Len(a) \in Nat /\ Len(b) \in Nat
      /\ \A k \in 1 .. Len(a) + Len(b) :
           (a \o b)[k] = IF k <= Len(a) THEN a[k] ELSE b[k - Len(a)]
  BY ConcatProperties, LenProperties
<1>2. /\ A \in Seq(Seq(BlockValues(i))) /\ Len(A) = Len(a)
      /\ \A k \in 1 .. Len(a) : A[k] = BlockIn(i, a[k])
      /\ BlocksIn(i, a) = FlattenSeq(A)
  BY BlockListTyped
<1>3. /\ B \in Seq(Seq(BlockValues(i))) /\ Len(B) = Len(b)
      /\ \A k \in 1 .. Len(b) : B[k] = BlockIn(i, b[k])
      /\ BlocksIn(i, b) = FlattenSeq(B)
  BY BlockListTyped
<1>4. /\ C \in Seq(Seq(BlockValues(i))) /\ Len(C) = Len(a \o b)
      /\ \A k \in 1 .. Len(a \o b) : C[k] = BlockIn(i, (a \o b)[k])
      /\ BlocksIn(i, a \o b) = FlattenSeq(C)
  BY <1>1, BlockListTyped
<1> HIDE DEF A, B, C
<1>5. /\ A \o B \in Seq(Seq(BlockValues(i))) /\ Len(A \o B) = Len(a) + Len(b)
      /\ \A k \in 1 .. Len(a) + Len(b) :
           (A \o B)[k] = IF k <= Len(a) THEN A[k] ELSE B[k - Len(a)]
  <2>1. PICK X : X = Seq(BlockValues(i))
    OBVIOUS
  <2>2. A \in Seq(X) /\ B \in Seq(X) /\ Len(A) = Len(a) /\ Len(B) = Len(b)
    BY <2>1, <1>2, <1>3
  <2>3. /\ A \o B \in Seq(X) /\ Len(A \o B) = Len(A) + Len(B)
        /\ \A k \in 1 .. Len(A) + Len(B) :
             (A \o B)[k] = IF k <= Len(A) THEN A[k] ELSE B[k - Len(A)]
    BY <2>2, ConcatProperties
  <2> QED
    BY <2>1, <2>2, <2>3
<1>6. \A k \in 1 .. Len(a) + Len(b) : C[k] = (A \o B)[k]
  <2> SUFFICES ASSUME NEW k \in 1 .. Len(a) + Len(b) PROVE C[k] = (A \o B)[k]
    OBVIOUS
  <2>1. C[k] = BlockIn(i, IF k <= Len(a) THEN a[k] ELSE b[k - Len(a)])
    BY <1>1, <1>4
  <2>2. k <= Len(a) => k \in 1 .. Len(a)
    BY <1>1
  <2>3. ~(k <= Len(a)) => k - Len(a) \in 1 .. Len(b)
    BY <1>1
  <2> QED
    BY <2>1, <2>2, <2>3, <1>2, <1>3, <1>5
<1>7. C = A \o B
  BY <1>1, <1>4, <1>5, <1>6, SeqEqual
<1>8. FlattenSeq(A \o B) = FlattenSeq(A) \o FlattenSeq(B)
  <2>1. A \in Seq(Seq(BlockValues(i))) /\ B \in Seq(Seq(BlockValues(i)))
    BY <1>2, <1>3
  <2>2. PICK V : V = BlockValues(i)
    OBVIOUS
  <2>3. A \in Seq(Seq(V)) /\ B \in Seq(Seq(V))
    BY <2>1, <2>2
  <2> QED
    BY <2>3, FlattenConcat
<1> QED
  BY <1>2, <1>3, <1>4, <1>7, <1>8, Zenon

(* What is made of a list of depot blocks is the numbers it was filled     *)
(* with.                                                                   *)
LEMMA DepotList ==
  ASSUME NEW S, NEW block \in Seq(S), NEW part \in Seq(Nat), Len(block) > Len(part),
         \A m \in 1 .. Len(block) - 1 :
           block[m] = IF m <= Len(part) THEN part[m] ELSE FREE
  PROVE  DepotBlocks(block) = part
<1> DEFINE fs == Front(block)
           EndMarks == {m \in 1 .. Len(fs) : fs[m] \in {FREE, END, FAT}}
<1>1. /\ Len(part) \in Nat /\ Len(block) \in Nat \ {0} /\ part = [m \in 1 .. Len(part) |-> part[m]]
      /\ \A m \in 1 .. Len(part) : part[m] \in Nat
  BY LenProperties, ElementOfSeq
<1>2. /\ fs \in Seq(S) /\ Len(fs) = Len(block) - 1
      /\ \A m \in 1 .. Len(block) - 1 : fs[m] = block[m]
  BY <1>1, EmptySeq, FrontIs
<1>3. Listed(fs) = IF EndMarks # {} THEN Min(EndMarks) ELSE 0
  BY DEF Listed, SelectInSeq
<1> HIDE DEF fs
<1>4. \A m \in 1 .. Len(block) - 1 : m \in EndMarks <=> Len(part) < m
  BY <1>1, <1>2 DEF FREE, END, FAT
<1>5. CASE Len(part) = Len(block) - 1
  <2>1. EndMarks = {}
    BY <1>1, <1>2, <1>4, <1>5
  <2>2. DepotBlocks(block) = fs
    BY <1>3, <2>1 DEF DepotBlocks, fs
  <2>3. Len(fs) = Len(part) /\ \A m \in 1 .. Len(part) : fs[m] = part[m]
    BY <1>1, <1>2, <1>5
  <2>4. fs = part
    BY <2>3, <1>1, <1>2, SeqEqual, SMTT(20)
  <2> QED
    BY <2>2, <2>4
<1>6. CASE Len(part) < Len(block) - 1
  <2> DEFINE p == Len(part) + 1
  <2>1. p \in EndMarks /\ \A m \in EndMarks : p <= m
    <3>1. p \in 1 .. Len(block) - 1
      BY <1>1, <1>6
    <3>2. \A m \in EndMarks : m \in 1 .. Len(block) - 1
      BY <1>2
    <3> QED
      BY <3>1, <3>2, <1>1, <1>4
  <2>2. EndMarks \in SUBSET Nat
    OBVIOUS
  <2>3. Min(EndMarks) = p
    <3> HIDE DEF EndMarks, p
    <3> QED
      BY <2>1, <2>2, SmallestIsMin
  <2>4. Listed(fs) = p
    BY <1>3, <2>1, <2>3
  <2>5. DepotBlocks(block) = SubSeq(block, 1, Len(part))
    BY <2>4, <1>1 DEF DepotBlocks, fs
  <2>6. \A m \in 1 .. Len(part) : m \in 1 .. Len(block) - 1 /\ block[m] = part[m] /\ block[m] \in S
    BY <1>1, <1>6, ElementOfSeq
  <2>7. /\ SubSeq(block, 1, Len(part)) \in Seq(S) /\ Len(SubSeq(block, 1, Len(part))) = Len(part)
        /\ \A m \in 1 .. Len(part) : SubSeq(block, 1, Len(part))[m] = block[m]
    <3>1. \A m \in 1 .. Len(part) : block[m] \in S
      BY <2>6
    <3>2. /\ SubSeq(block, 1, Len(part)) \in Seq(S)
          /\ Len(SubSeq(block, 1, Len(part))) = IF 1 <= Len(part) THEN Len(part) - 1 + 1 ELSE 0
          /\ \A m \in 1 .. Len(part) - 1 + 1 : SubSeq(block, 1, Len(part))[m] = block[1 + m - 1]
      BY <1>1, <3>1, SubSeqProperties
    <3>3. \A m \in 1 .. Len(part) : m \in 1 .. Len(part) - 1 + 1 /\ 1 + m - 1 = m
      BY <1>1
    <3> QED
      BY <1>1, <3>2, <3>3
  <2> QED
    BY <2>5, <2>6, <2>7, <1>1, SeqEqual
<1> QED
  BY <1>1, <1>5, <1>6

(* The depot's blocks of the header and of the first lists.                *)
ListsTo(i, n) == FlattenSeq(SubSeq(i.lists, 1, n))
DepotTo(i, n) == BlocksIn(i, InHeader(i)) \o BlocksIn(i, ListsTo(i, n))

(* The depot as far as n of its further lists are read.                    *)
LEMMA PartsTyped ==
  ASSUME NEW i, DepotWritten(i), NEW n \in 0 .. Len(i.lists)
  PROVE  /\ InHeader(i) \in Seq(Nat) /\ ListsTo(i, n) \in Seq(Nat)
         /\ BlocksIn(i, InHeader(i)) \in Seq(BlockValues(i))
         /\ BlocksIn(i, ListsTo(i, n)) \in Seq(BlockValues(i)) /\ DepotTo(i, n) \in Seq(BlockValues(i))
         /\ SubSeq(i.lists, 1, n) \in Seq(Seq(Nat)) /\ Len(SubSeq(i.lists, 1, n)) = n
         /\ \A k \in 1 .. n : SubSeq(i.lists, 1, n)[k] = i.lists[k]
<1> DEFINE h == Least(i.header.num_bbd_blocks, HeaderList)
<1>1. /\ i.header.bbd \in Seq(Nat) /\ h \in Nat /\ h <= Len(i.header.bbd)
      /\ i.lists \in Seq(Seq(Nat)) /\ Len(i.lists) \in Nat /\ Len(i.header.bbd) \in Nat
  BY BlocksAssumption, LenProperties DEF DepotWritten, Least
<1> HIDE DEF h
<1>2. ASSUME NEW S, NEW s \in Seq(S), NEW m \in Nat, m <= Len(s)
      PROVE  /\ SubSeq(s, 1, m) \in Seq(S) /\ Len(SubSeq(s, 1, m)) = m
             /\ \A k \in 1 .. m : SubSeq(s, 1, m)[k] = s[k]
  <2>1. \A k \in 1 .. m : s[k] \in S
    <3>1. \A k \in 1 .. m : k \in 1 .. Len(s)
      BY <1>2, LenProperties
    <3> QED
      BY <3>1, ElementOfSeq
  <2>2. /\ SubSeq(s, 1, m) \in Seq(S)
        /\ Len(SubSeq(s, 1, m)) = IF 1 <= m THEN m - 1 + 1 ELSE 0
        /\ \A k \in 1 .. m - 1 + 1 : SubSeq(s, 1, m)[k] = s[1 + k - 1]
    BY <2>1, SubSeqProperties
  <2>3. \A k \in 1 .. m : k \in 1 .. m - 1 + 1 /\ 1 + k - 1 = k
    OBVIOUS
  <2> QED
    BY <2>2, <2>3
<1>3. InHeader(i) \in Seq(Nat)
  BY <1>1, <1>2 DEF InHeader, h
<1>4. n \in Nat /\ n <= Len(i.lists)
  BY <1>1
<1>5. /\ SubSeq(i.lists, 1, n) \in Seq(Seq(Nat)) /\ Len(SubSeq(i.lists, 1, n)) = n
      /\ \A k \in 1 .. n : SubSeq(i.lists, 1, n)[k] = i.lists[k]
  <2>1. PICK X : X = Seq(Nat)
    OBVIOUS
  <2>2. i.lists \in Seq(X)
    BY <2>1, <1>1
  <2> QED
    BY <2>1, <2>2, <1>2, <1>4
<1>6. ListsTo(i, n) \in Seq(Nat)
  BY <1>5, FlattenType DEF ListsTo
<1>7. /\ BlocksIn(i, InHeader(i)) \in Seq(BlockValues(i))
      /\ BlocksIn(i, ListsTo(i, n)) \in Seq(BlockValues(i))
  BY <1>3, <1>6, BlockListTyped
<1> QED
  BY <1>3, <1>5, <1>6, <1>7, ConcatProperties DEF DepotTo

(* It begins with the blocks of the header, and is the table when all      *)
(* lists are read.                                                         *)
LEMMA DepotBegins ==
  ASSUME NEW i, DepotWritten(i)
  PROVE  /\ DepotTo(i, 0) = BlocksIn(i, InHeader(i))
         /\ DepotTo(i, Len(i.lists)) = i.table /\ i.table \in Seq(BlockValues(i))
<1>1. i.lists \in Seq(Seq(Nat)) /\ Len(i.lists) \in Nat
  BY LenProperties DEF DepotWritten
<1>2. SubSeq(i.lists, 1, 0) = <<>>
  BY <1>1, PartsTyped, EmptySeq
<1>3. ListsTo(i, 0) = <<>> /\ <<>> \in Seq(Nat)
  BY <1>2, FlattenEmpty, EmptySeq DEF ListsTo
<1>4. BlocksIn(i, <<>>) = <<>>
  <2>1. BlockList(i, <<>>) = <<>>
    BY <1>3, BlockListTyped, EmptySeq
  <2> QED
    BY <1>3, <2>1, BlockListTyped, FlattenEmpty
<1>5. DepotTo(i, 0) = BlocksIn(i, InHeader(i))
  <2>1. 0 \in 0 .. Len(i.lists)
    BY <1>1
  <2>2. BlocksIn(i, InHeader(i)) \in Seq(BlockValues(i))
    BY <2>1, PartsTyped
  <2> QED
    BY <2>2, <1>3, <1>4, ConcatEmptySeq DEF DepotTo
<1>6. Len(i.lists) \in 0 .. Len(i.lists)
  BY <1>1
<1>7. SubSeq(i.lists, 1, Len(i.lists)) = i.lists
  <2>1. /\ SubSeq(i.lists, 1, Len(i.lists)) \in Seq(Seq(Nat))
        /\ Len(SubSeq(i.lists, 1, Len(i.lists))) = Len(i.lists)
        /\ \A k \in 1 .. Len(i.lists) : SubSeq(i.lists, 1, Len(i.lists))[k] = i.lists[k]
    BY <1>6, PartsTyped
  <2>2. PICK X : X = Seq(Nat)
    OBVIOUS
  <2> QED
    BY <1>1, <2>1, <2>2, SeqEqual
<1>8. DepotTo(i, Len(i.lists)) = i.table
  BY <1>7 DEF DepotTo, ListsTo, DepotWritten
<1> QED
  BY <1>5, <1>6, <1>8, PartsTyped

(* One more list is read.                                                  *)
LEMMA DepotGrows ==
  ASSUME NEW i, DepotWritten(i), NEW n \in 0 .. Len(i.lists) - 1
  PROVE  DepotTo(i, n + 1) = DepotTo(i, n) \o BlocksIn(i, i.lists[n + 1])
<1>1. i.lists \in Seq(Seq(Nat)) /\ Len(i.lists) \in Nat
  BY LenProperties DEF DepotWritten
<1>2. /\ n \in Nat /\ n \in 0 .. Len(i.lists) /\ n + 1 \in 0 .. Len(i.lists)
      /\ n + 1 \in 1 .. Len(i.lists)
  BY <1>1
<1> DEFINE a == SubSeq(i.lists, 1, n)
           b == SubSeq(i.lists, 1, n + 1)
           x == i.lists[n + 1]
<1>3. a \in Seq(Seq(Nat)) /\ Len(a) = n /\ \A k \in 1 .. n : a[k] = i.lists[k]
  BY <1>2, PartsTyped
<1>4. b \in Seq(Seq(Nat)) /\ Len(b) = n + 1 /\ \A k \in 1 .. n + 1 : b[k] = i.lists[k]
  BY <1>2, PartsTyped
<1>5. x \in Seq(Nat)
  BY <1>1, <1>2, ElementOfSeq
<1>6. ListsTo(i, n) = FlattenSeq(a) /\ ListsTo(i, n + 1) = FlattenSeq(b)
  BY DEF ListsTo
<1> HIDE DEF a, b, x
<1>7. b = a \o <<x>>
  <2>1. PICK X : X = Seq(Nat)
    OBVIOUS
  <2>2. a \in Seq(X) /\ b \in Seq(X) /\ <<x>> \in Seq(X) /\ Len(<<x>>) = 1 /\ <<x>>[1] = x
    BY <2>1, <1>3, <1>4, <1>5
  <2> DEFINE y == a \o <<x>>
  <2>3. /\ y \in Seq(X) /\ Len(y) = Len(a) + 1
        /\ \A k \in 1 .. Len(a) + 1 : y[k] = IF k <= Len(a) THEN a[k] ELSE <<x>>[k - Len(a)]
    BY <2>2, ConcatProperties
  <2> HIDE DEF y
  <2>4. \A k \in 1 .. n + 1 : k \in 1 .. n \/ k = n + 1
    BY <1>2
  <2>5. ASSUME NEW k \in 1 .. n PROVE b[k] = y[k]
    <3>1. k \in 1 .. n + 1 /\ k <= n
      BY <1>2
    <3> QED
      BY <3>1, <2>3, <1>3, <1>4
  <2>6. b[n + 1] = y[n + 1]
    <3>1. n + 1 \in 1 .. n + 1 /\ ~(n + 1 <= n) /\ n + 1 - n = 1
      BY <1>2
    <3>2. b[n + 1] = x
      BY <3>1, <1>4 DEF x
    <3>3. y[n + 1] = <<x>>[1]
      BY <3>1, <2>3, <1>3
    <3> QED
      BY <3>2, <3>3, <2>2
  <2>7. \A k \in 1 .. n + 1 : b[k] = y[k]
    BY <2>4, <2>5, <2>6
  <2> QED
    BY <2>2, <2>3, <2>7, <1>3, <1>4, SeqEqual DEF y
<1>8. ListsTo(i, n + 1) = ListsTo(i, n) \o x
  <2>1. <<x>> \in Seq(Seq(Nat)) /\ FlattenSeq(<<x>>) = x
    BY <1>5, FlattenOne
  <2>2. FlattenSeq(a \o <<x>>) = FlattenSeq(a) \o FlattenSeq(<<x>>)
    BY <2>1, <1>3, FlattenConcat
  <2> QED
    BY <2>1, <2>2, <1>6, <1>7, Zenon
<1>9. BlocksIn(i, ListsTo(i, n + 1)) = BlocksIn(i, ListsTo(i, n)) \o BlocksIn(i, x)
  BY <1>2, <1>5, <1>8, PartsTyped, BlocksConcat
<1>10. /\ BlocksIn(i, InHeader(i)) \in Seq(BlockValues(i)) /\ BlocksIn(i, ListsTo(i, n)) \in Seq(BlockValues(i))
       /\ BlocksIn(i, x) \in Seq(BlockValues(i))
  BY <1>2, <1>5, PartsTyped, BlockListTyped
<1>11. PICK V, p, q, r : /\ V = BlockValues(i) /\ p = BlocksIn(i, InHeader(i))
                         /\ q = BlocksIn(i, ListsTo(i, n)) /\ r = BlocksIn(i, x)
  OBVIOUS
<1>12. p \in Seq(V) /\ q \in Seq(V) /\ r \in Seq(V) /\ (p \o q) \o r = p \o (q \o r)
  <2>1. p \in Seq(V) /\ q \in Seq(V) /\ r \in Seq(V)
    BY <1>10, <1>11
  <2> QED
    BY <2>1, ConcatAssociative, SMTT(20)
<1>13. DepotTo(i, n + 1) = DepotTo(i, n) \o BlocksIn(i, x)
  <2>1. DepotTo(i, n) = p \o q /\ DepotTo(i, n + 1) = p \o (q \o r)
    BY <1>9, <1>11, Zenon DEF DepotTo
  <2> QED
    BY <2>1, <1>11, <1>12, Zenon
<1> QED
  BY <1>13 DEF x

-----------------------------------------------------------------------------
(* The states in which the tree has been read.                             *)
HasTree == stage \in {"reorder", "sbfile", "locate", "extract"} \/ ret \in {"OPEN", "BADFILE"}

(* The invariant: stages, and what is said of the stream;                  *)
StageInv ==
  /\ image \in Images
  /\ stage \in {"header", "bbd", "xbbd", "sbd", "root", "reorder", "sbfile", "locate", "extract",
                "plain", "done"}
  /\ stage # "done" => ret = "NONE"
  /\ stage \notin {"header", "plain", "done"} \/ ret \in {"OPEN", "BADFILE"} => image.ole

(* the depot, as far as its lists are read;                                *)
PartsRead  == Len(image.lists) - xbbd.left
DepotInv ==
  image.ole =>
    /\ stage = "xbbd" =>
         /\ xbbd.left \in 0 .. Len(image.lists)
         /\ xbbd.left > 0 => xbbd.next = image.listAt[PartsRead + 1]
         /\ BDepot = DepotTo(image, PartsRead)
    /\ stage \notin {"header", "bbd", "xbbd"} => BDepot = image.table

(* the chain that is followed;                                             *)
Followed == IF stage = "sbd" THEN image.chains.sbd ELSE image.chains.root
ChainInv ==
  stage \in {"sbd", "root"} =>
    /\ Len(chain) \in 1 .. Len(Followed) /\ chain = SubSeq(Followed, 1, Len(chain))
    /\ Last(chain) \notin {FREE, FAT}

(* tree and calls;                                                         *)
Parts == {"dir", "next", "previous"}
TreeInv ==
  /\ calls \in Seq([node : 0 .. Len(tree) - 1, part : Parts]) /\ last \in Nat \cup {FREE}
  /\ HasTree =>
       /\ Len(tree) \in Nat \ {0} /\ tree = [k \in 1 .. Len(tree) |-> tree[k]]
       /\ \A k \in 1 .. Len(tree) : IsEntry(tree[k])
       /\ stage # "reorder" => calls = <<>>

(* and the order.                                                          *)
SortInv ==
  HasTree /\ DOMAIN image.children # {} =>
    InOrder(image, tree, calls, last)

(* All of it.                                                              *)
OleInv == StageInv /\ DepotInv /\ ChainInv /\ TreeInv /\ SortInv

-----------------------------------------------------------------------------
(* The marks are no numbers of blocks, and are three.                      *)
LEMMA MarksApart == FREE \notin Nat /\ END \notin Nat /\ FAT \notin Nat /\ END # FREE /\ END # FAT
BY DEF FREE, END, FAT

(* Before __OLEdecode() reads anything, the invariant holds.               *)
LEMMA OleBegins == OleInit => OleInv
<1> SUFFICES ASSUME OleInit PROVE OleInv
  OBVIOUS
<1>1. stage = "header" /\ ret = "NONE" /\ image \in Images /\ calls = <<>> /\ last = FREE
  BY DEF OleInit
<1>2. StageInv
  BY <1>1 DEF StageInv
<1>3. DepotInv
  BY <1>1 DEF DepotInv
<1>4. ChainInv
  BY <1>1 DEF ChainInv
<1>5. ~HasTree
  BY <1>1 DEF HasTree
<1>6. calls \in Seq([node : 0 .. Len(tree) - 1, part : Parts])
  BY <1>1, EmptySeq
<1>7. TreeInv
  BY <1>1, <1>5, <1>6 DEF TreeInv
<1>8. SortInv
  BY <1>5 DEF SortInv
<1> QED
  BY <1>2, <1>3, <1>4, <1>7, <1>8 DEF OleInv

(* The stage and what is said of the stream.                               *)
LEMMA StageKept ==
  StageInv /\ [OleNext]_oleVars => StageInv'
<1> SUFFICES ASSUME StageInv, [OleNext]_oleVars PROVE StageInv'
  OBVIOUS
<1>1. CASE OpenImage
  BY <1>1 DEF StageInv, OpenImage, Mount, MountFails
<1>2. CASE ReadDepot
  BY <1>2 DEF StageInv, ReadDepot
<1>3. CASE ReadDepotList
  BY <1>3 DEF StageInv, ReadDepotList
<1>4. CASE DepotRead
  BY <1>4 DEF StageInv, DepotRead
<1>5. CASE FollowChain
  BY <1>5 DEF StageInv, FollowChain, Mount, MountFails
<1>6. CASE ReadSmallDepot
  BY <1>6 DEF StageInv, ReadSmallDepot
<1>7. CASE ReadDirectory
  BY <1>7 DEF StageInv, ReadDirectory
<1>8. CASE ReorderDir
  <2>1. stage = "reorder" /\ (stage' = stage \/ stage' = "plain") /\ ret' = ret /\ image' = image
    BY <1>8 DEF ReorderDir, Reordering, Mount, MountFails
  <2> QED
    BY <2>1 DEF StageInv
<1>9. CASE ReorderNext
  <2>1. stage = "reorder" /\ (stage' = stage \/ stage' = "plain") /\ ret' = ret /\ image' = image
    BY <1>9 DEF ReorderNext, Reordering, Mount, MountFails
  <2> QED
    BY <2>1 DEF StageInv
<1>10. CASE ReorderPrevious
  <2>1. stage = "reorder" /\ (stage' = stage \/ stage' = "plain") /\ ret' = ret /\ image' = image
    BY <1>10 DEF ReorderPrevious, Reordering, Mount, MountFails
  <2> QED
    BY <2>1 DEF StageInv
<1>11. CASE BeginSmallFile
  BY <1>11 DEF StageInv, BeginSmallFile
<1>12. CASE CopySmallFile
  BY <1>12 DEF StageInv, CopySmallFile
<1>13. CASE Mounted
  BY <1>13 DEF StageInv, Mounted
<1>14. CASE OtherEntry
  BY <1>14 DEF StageInv, OtherEntry
<1>15. CASE TryBook
  BY <1>15 DEF StageInv, TryBook
<1>16. CASE NoBook
  BY <1>16 DEF StageInv, NoBook
<1>17. CASE IsStorage
  BY <1>17 DEF StageInv, IsStorage
<1>18. CASE OpenStream
  BY <1>18 DEF StageInv, OpenStream
<1>19. CASE CopyBlock
  BY <1>19 DEF StageInv, CopyBlock
<1>20. CASE StreamOpen
  BY <1>20 DEF StageInv, StreamOpen
<1>21. CASE ReadPlain
  BY <1>21 DEF StageInv, ReadPlain
<1>22. CASE UNCHANGED oleVars
  BY <1>22 DEF StageInv, oleVars
<1> QED
  BY <1>1, <1>2, <1>3, <1>4, <1>5, <1>6, <1>7, <1>8, <1>9, <1>10, <1>11, <1>12, <1>13, <1>14,
     <1>15, <1>16, <1>17, <1>18, <1>19, <1>20, <1>21, <1>22 DEF OleNext, Closed

(* Steps after the depot is read leave it and the chain alone; before the  *)
(* directory is, the tree and the calls.                                   *)
DepotAlone == UNCHANGED <<image, BDepot, xbbd>> /\ stage \notin {"header", "bbd", "xbbd"}
                /\ stage' \notin {"header", "bbd", "xbbd"}
ChainGone  == stage' \notin {"sbd", "root"}
TreeAlone  == UNCHANGED <<image, tree, calls, last>>
Later ==
  \/ ReorderDir \/ ReorderNext \/ ReorderPrevious
  \/ BeginSmallFile \/ CopySmallFile \/ Mounted
  \/ OtherEntry \/ TryBook \/ NoBook \/ IsStorage \/ OpenStream
  \/ CopyBlock \/ StreamOpen \/ ReadPlain

(* Once the directory is read, __OLEdecode() leaves depot and chain alone. *)
LEMMA LaterAlone ==
  Later => DepotAlone /\ ChainGone
<1>1. ReorderDir => DepotAlone /\ ChainGone
  BY DEF ReorderDir, Reordering, Mount, MountFails, DepotAlone, ChainGone
<1>2. ReorderNext => DepotAlone /\ ChainGone
  BY DEF ReorderNext, Reordering, Mount, MountFails, DepotAlone, ChainGone
<1>3. ReorderPrevious => DepotAlone /\ ChainGone
  <2> SUFFICES ASSUME ReorderPrevious PROVE DepotAlone /\ ChainGone
    OBVIOUS
  <2>1. stage = "reorder" /\ (stage' = stage \/ stage' = "plain") /\ UNCHANGED <<image, BDepot, xbbd>>
    BY DEF ReorderPrevious, Reordering, Mount, MountFails
  <2> QED
    BY <2>1 DEF DepotAlone, ChainGone
<1>4. BeginSmallFile => DepotAlone /\ ChainGone
  BY DEF BeginSmallFile, DepotAlone, ChainGone, mountVars
<1>5. CopySmallFile => DepotAlone /\ ChainGone
  BY DEF CopySmallFile, DepotAlone, ChainGone, mountVars
<1>6. Mounted => DepotAlone /\ ChainGone
  BY DEF Mounted, DepotAlone, ChainGone
<1>7. OtherEntry => DepotAlone /\ ChainGone
  BY DEF OtherEntry, DepotAlone, ChainGone, mountVars
<1>8. TryBook => DepotAlone /\ ChainGone
  BY DEF TryBook, DepotAlone, ChainGone, mountVars
<1>9. NoBook => DepotAlone /\ ChainGone
  BY DEF NoBook, DepotAlone, ChainGone, mountVars
<1>10. IsStorage => DepotAlone /\ ChainGone
  BY DEF IsStorage, DepotAlone, ChainGone, mountVars
<1>11. OpenStream => DepotAlone /\ ChainGone
  BY DEF OpenStream, DepotAlone, ChainGone, mountVars
<1>12. CopyBlock => DepotAlone /\ ChainGone
  BY DEF CopyBlock, DepotAlone, ChainGone, mountVars
<1>13. StreamOpen => DepotAlone /\ ChainGone
  BY DEF StreamOpen, DepotAlone, ChainGone, mountVars
<1>14. ReadPlain => DepotAlone /\ ChainGone
  BY DEF ReadPlain, DepotAlone, ChainGone, mountVars
<1> QED
  BY <1>1, <1>2, <1>3, <1>4, <1>5, <1>6, <1>7, <1>8, <1>9, <1>10, <1>11, <1>12, <1>13, <1>14
     DEF Later

(* The depot.                                                              *)
LEMMA DepotKept ==
  StageInv /\ DepotInv /\ [OleNext]_oleVars => DepotInv'
<1> SUFFICES ASSUME StageInv, DepotInv, [OleNext]_oleVars, image'.ole PROVE DepotInv'
  BY DEF DepotInv
<1>0. image' = image /\ image.ole /\ image \in Images
  BY DEF StageInv, OleNext, oleVars, OpenImage, ReadDepot, ReadDepotList, DepotRead, FollowChain,
         ReadSmallDepot, ReadDirectory, ReorderDir, ReorderNext, ReorderPrevious, BeginSmallFile,
         CopySmallFile, Mounted, OtherEntry, TryBook, NoBook, IsStorage, OpenStream, CopyBlock,
         StreamOpen, ReadPlain, Closed
<1>1. PICK i : i = image
  OBVIOUS
<1>2. DepotWritten(i) /\ Len(i.lists) \in Nat
  <2>1. DepotWritten(i)
    BY <1>0, <1>1, ImagesAssumption
  <2>2. i.lists \in Seq(Seq(Nat))
    BY <2>1 DEF DepotWritten
  <2> QED
    BY <2>1, <2>2, LenProperties
<1>3. CASE OpenImage
  BY <1>0, <1>3 DEF DepotInv, OpenImage, Mount, MountFails
<1>4. CASE ReadDepot
  <2>1. BDepot' = BlocksIn(i, InHeader(i)) /\ stage' = "xbbd"
    BY <1>1, <1>4 DEF ReadDepot, BlocksAt
  <2>2. xbbd'.left = Len(i.lists) /\ xbbd'.next = i.header.xbbd
    BY <1>1, <1>2, <1>4 DEF ReadDepot, Header, DepotWritten
  <2>3. PartsRead' = 0
    BY <2>2, <1>0, <1>1, <1>2 DEF PartsRead
  <2>4. BDepot' = DepotTo(i, 0)
    BY <2>1, <1>2, DepotBegins
  <2>5. Len(i.lists) > 0 => i.header.xbbd = i.listAt[1]
    <3>1. i.lists # <<>> => i.header.xbbd = i.listAt[1]
      BY <1>2 DEF DepotWritten
    <3> QED
      BY <3>1, EmptySeq
  <2>6. 0 + 1 = 1
    OBVIOUS
  <2> QED
    BY <2>1, <2>2, <2>3, <2>4, <2>5, <2>6, <1>0, <1>1, <1>2 DEF DepotInv
<1>5. CASE ReadDepotList
  <2>1. /\ stage = "xbbd" /\ stage' = "xbbd" /\ xbbd.left > 0
        /\ BDepot' = BDepot \o BlocksIn(i, DepotBlocks(BlockIn(i, xbbd.next)))
        /\ xbbd'.next = Last(BlockIn(i, xbbd.next)) /\ xbbd'.left = xbbd.left - 1
    BY <1>1, <1>5 DEF ReadDepotList, BlocksAt, BlockAt, NextDepotList
  <2>2. PICK n : n = PartsRead
    OBVIOUS
  <2>3. /\ n \in 0 .. Len(i.lists) - 1 /\ xbbd.left = Len(i.lists) - n
        /\ xbbd.next = i.listAt[n + 1] /\ BDepot = DepotTo(i, n)
    <3>1. xbbd.left \in 0 .. Len(i.lists) /\ n = Len(i.lists) - xbbd.left
      BY <2>1, <2>2, <1>0, <1>1 DEF DepotInv, PartsRead
    <3>2. xbbd.next = i.listAt[n + 1] /\ BDepot = DepotTo(i, n)
      BY <2>1, <2>2, <1>0, <1>1 DEF DepotInv
    <3> QED
      BY <3>1, <3>2, <2>1, <1>2
  <2>4. PICK block : block = BlockIn(i, i.listAt[n + 1])
    OBVIOUS
  <2>5. n + 1 \in DOMAIN i.lists /\ i.listAt[n + 1] \in Nat /\ i.lists[n + 1] \in Seq(Nat)
    <3>1. i.lists \in Seq(Seq(Nat)) /\ i.listAt \in Seq(Nat) /\ Len(i.listAt) = Len(i.lists)
      BY <1>2 DEF DepotWritten
    <3>2. n + 1 \in 1 .. Len(i.lists) /\ DOMAIN i.lists = 1 .. Len(i.lists)
      BY <2>3, <3>1, <1>2, LenProperties
    <3> QED
      BY <3>1, <3>2, ElementOfSeq
  <2>6. /\ Len(block) > Len(i.lists[n + 1])
        /\ \A m \in 1 .. Len(block) - 1 :
             block[m] = IF m <= Len(i.lists[n + 1]) THEN i.lists[n + 1][m] ELSE FREE
        /\ n + 1 < Len(i.lists) => Last(block) = i.listAt[n + 1 + 1]
    BY <2>4, <2>5, <1>2 DEF DepotWritten
  <2>7. block \in Seq(BlockValues(i))
    BY <2>4, <2>5, <1>2, BlockTyped
  <2>8. DepotBlocks(block) = i.lists[n + 1]
    BY <2>5, <2>6, <2>7, DepotList
  <2>9. BDepot' = DepotTo(i, n + 1)
    BY <2>1, <2>3, <2>4, <2>8, <1>2, DepotGrows
  <2>10. PartsRead' = n + 1 /\ xbbd'.left \in 0 .. Len(i.lists)
         /\ (xbbd'.left > 0 => n + 1 < Len(i.lists))
    BY <2>1, <2>3, <1>0, <1>1, <1>2 DEF PartsRead
  <2>11. xbbd'.next = Last(block)
    BY <2>1, <2>3, <2>4
  <2> QED
    BY <2>1, <2>6, <2>9, <2>10, <2>11, <1>0, <1>1 DEF DepotInv
<1>6. CASE DepotRead
  <2>1. stage = "xbbd" /\ xbbd.left = 0 /\ stage' = "sbd" /\ BDepot' = BDepot
    BY <1>6 DEF DepotRead
  <2>2. BDepot = DepotTo(i, Len(i.lists))
    <3>1. PartsRead = Len(i.lists)
      BY <2>1, <1>1, <1>2 DEF PartsRead
    <3> QED
      BY <3>1, <2>1, <1>0, <1>1 DEF DepotInv
  <2> QED
    BY <2>1, <2>2, <1>0, <1>1, <1>2, DepotBegins DEF DepotInv
<1>7. CASE FollowChain
  BY <1>0, <1>7 DEF DepotInv, FollowChain, Mount, MountFails
<1>8. CASE ReadSmallDepot
  BY <1>0, <1>8 DEF DepotInv, ReadSmallDepot
<1>9. CASE ReadDirectory
  BY <1>0, <1>9 DEF DepotInv, ReadDirectory
<1>10. CASE Later
  BY <1>0, <1>10, LaterAlone DEF DepotInv, DepotAlone
<1>11. CASE UNCHANGED oleVars
  BY <1>0, <1>11 DEF DepotInv, PartsRead, oleVars, mountVars
<1> QED
  BY <1>3, <1>4, <1>5, <1>6, <1>7, <1>8, <1>9, <1>10, <1>11 DEF OleNext, Closed, Later

(* The first n numbers of a chain, and the next.                           *)
Upto(ch, ns, n) == ch = SubSeq(ns, 1, n)

(* What was followed of a chain, and what comes next in it.                *)
LEMMA ChainGoes ==
  ASSUME NEW i, DepotWritten(i), NEW first, NEW ns, ChainWritten(i, first, ns),
         NEW n \in 1 .. Len(ns), NEW ch, Upto(ch, ns, n)
  PROVE  /\ Len(ch) = n /\ Last(ch) = ns[n] /\ ns \in Seq(Int) /\ Len(ns) \in Nat
         /\ n < Len(ns) => /\ ns[n] \in 0 .. Len(i.table) - 1 /\ ns[n + 1] = At(i.table, ns[n])
                           /\ n + 1 \in 1 .. Len(ns)
                           /\ Upto(Append(ch, ns[n + 1]), ns, n + 1)
         /\ n = Len(ns) => ns[n] \in {END, FREE, FAT} /\ ch = ns
         /\ Len(i.table) \in Nat
<1>1. ns \in Seq(Int) /\ Len(ns) \in Nat /\ n \in Nat /\ \A k \in 1 .. Len(ns) : ns[k] \in Int
  BY LenProperties, ElementOfSeq DEF ChainWritten
<1>2. ASSUME NEW m \in 1 .. Len(ns)
      PROVE  /\ SubSeq(ns, 1, m) \in Seq(Int) /\ Len(SubSeq(ns, 1, m)) = m
             /\ \A k \in 1 .. m : SubSeq(ns, 1, m)[k] = ns[k]
  <2>1. \A k \in 1 .. m : ns[k] \in Int
    BY <1>1
  <2>2. /\ SubSeq(ns, 1, m) \in Seq(Int)
        /\ Len(SubSeq(ns, 1, m)) = IF 1 <= m THEN m - 1 + 1 ELSE 0
        /\ \A k \in 1 .. m - 1 + 1 : SubSeq(ns, 1, m)[k] = ns[1 + k - 1]
    BY <2>1, <1>1, SubSeqProperties
  <2>3. \A k \in 1 .. m : k \in 1 .. m - 1 + 1 /\ 1 + k - 1 = k
    BY <1>1
  <2> QED
    BY <2>2, <2>3, <1>1
<1>3. ch \in Seq(Int) /\ Len(ch) = n /\ \A k \in 1 .. n : ch[k] = ns[k]
  BY <1>2 DEF Upto
<1>4. Last(ch) = ns[n]
  BY <1>1, <1>3 DEF Last
<1>5. Len(i.table) \in Nat
  BY DepotBegins, LenProperties
<1>6. ASSUME n < Len(ns)
      PROVE  /\ ns[n] \in 0 .. Len(i.table) - 1 /\ ns[n + 1] = At(i.table, ns[n])
             /\ n + 1 \in 1 .. Len(ns) /\ Upto(Append(ch, ns[n + 1]), ns, n + 1)
  <2>1. n \in 1 .. Len(ns) - 1 /\ n + 1 \in 1 .. Len(ns)
    BY <1>1, <1>6
  <2>2. ns[n] \in 0 .. Len(i.table) - 1 /\ ns[n + 1] = At(i.table, ns[n])
    BY <2>1 DEF ChainWritten
  <2> DEFINE a == Append(ch, ns[n + 1])
             b == SubSeq(ns, 1, n + 1)
  <2>3. /\ a \in Seq(Int) /\ Len(a) = n + 1 /\ a[n + 1] = ns[n + 1]
        /\ \A k \in 1 .. n : a[k] = ns[k]
    BY <2>1, <1>1, <1>3, AppendProperties
  <2>4. b \in Seq(Int) /\ Len(b) = n + 1 /\ \A k \in 1 .. n + 1 : b[k] = ns[k]
    BY <2>1, <1>2
  <2> HIDE DEF a, b
  <2>5. \A k \in 1 .. n + 1 : k \in 1 .. n \/ k = n + 1
    BY <1>1
  <2>6. \A k \in 1 .. n + 1 : a[k] = b[k]
    BY <2>3, <2>4, <2>5
  <2>7. a = b
    BY <2>3, <2>4, <2>6, SeqEqual
  <2> QED
    BY <2>1, <2>2, <2>7 DEF a, b, Upto
<1>7. ASSUME n = Len(ns) PROVE ns[n] \in {END, FREE, FAT} /\ ch = ns
  <2>1. Last(ns) = ns[n]
    BY <1>7 DEF Last
  <2>2. ch = ns
    BY <1>1, <1>3, <1>7, SeqEqual
  <2> QED
    BY <2>1, <2>2 DEF ChainWritten
<1> QED
  BY <1>1, <1>3, <1>4, <1>5, <1>6, <1>7

(* A chain's first number.                                                 *)
LEMMA ChainStarts ==
  ASSUME NEW i, DepotWritten(i), NEW first, NEW ns, ChainWritten(i, first, ns)
  PROVE  /\ 1 \in 1 .. Len(ns) /\ <<first>> = SubSeq(ns, 1, 1) /\ Len(<<first>>) = 1
         /\ Last(<<first>>) = first /\ first \notin {FREE, FAT}
<1>1. ns \in Seq(Int) /\ Len(ns) \in Nat \ {0} /\ ns[1] = first
  BY LenProperties, EmptySeq DEF ChainWritten
<1>2. 1 \in 1 .. Len(ns) /\ ns[1] \in Int
  BY <1>1, ElementOfSeq
<1> DEFINE s == SubSeq(ns, 1, 1)
<1>3. Len(s) = 1 /\ Last(s) = ns[1] /\ s \in Seq(Int)
  <2>1. Len(s) = 1 /\ Last(s) = ns[1]
    <3>1. PICK n : n = 1
      OBVIOUS
    <3>2. Upto(s, ns, n) /\ n \in 1 .. Len(ns)
      BY <3>1, <1>2 DEF Upto
    <3> HIDE DEF s
    <3>3. Len(s) = n /\ Last(s) = ns[n]
      BY <3>2, ChainGoes
    <3> QED
      BY <3>1, <3>3
  <2>2. \A k \in 1 .. 1 : ns[k] \in Int
    BY <1>2
  <2> QED
    BY <2>1, <2>2, <1>1, SubSeqProperties
<1>4. <<first>> \in Seq(Int) /\ Len(<<first>>) = 1 /\ <<first>>[1] = first
  BY <1>1, <1>2
<1>5. s[1] = first
  BY <1>1, <1>3 DEF Last
<1> HIDE DEF s
<1>6. <<first>> = s
  <2>1. \A k \in 1 .. Len(s) : <<first>>[k] = s[k]
    BY <1>3, <1>4, <1>5
  <2> QED
    BY <2>1, <1>3, <1>4, SeqEqual
<1>7. first \notin {FREE, FAT}
  <2>1. CASE Len(ns) = 1
    <3>1. Last(ns) = END /\ Last(ns) = ns[1]
      BY <2>1 DEF ChainWritten, Last
    <3> QED
      BY <3>1, <1>1, MarksApart
  <2>2. CASE Len(ns) # 1
    <3>1. PICK l : l = Len(ns)
      OBVIOUS
    <3>2. 1 < l
      BY <3>1, <2>2, <1>1
    <3>3. Upto(s, ns, 1)
      BY DEF Upto, s
    <3> HIDE DEF s
    <3>4. ns[1] \in 0 .. Len(i.table) - 1 /\ Len(i.table) \in Nat
      BY <3>1, <3>2, <3>3, <1>2, ChainGoes
    <3> QED
      BY <3>4, <1>1, MarksApart
  <2> QED
    BY <2>1, <2>2
<1> QED
  BY <1>1, <1>2, <1>3, <1>4, <1>6, <1>7 DEF s

(* What is written of the image that is read.                              *)
LEMMA ImageWritten ==
  StageInv /\ image.ole =>
    /\ DepotWritten(image) /\ EntriesWritten(image)
    /\ stage \in {"sbd", "root"} =>
         \E first : ChainWritten(image, first, Followed)
<1> SUFFICES ASSUME StageInv, image.ole
             PROVE  /\ DepotWritten(image) /\ EntriesWritten(image)
                    /\ \E first : ChainWritten(image, first, Followed)
  OBVIOUS
<1>1. DepotWritten(image) /\ EntriesWritten(image)
  BY ImagesAssumption DEF StageInv
<1> QED
  BY <1>1 DEF EntriesWritten, Followed

(* The chain.                                                              *)
LEMMA ChainKept ==
  StageInv /\ DepotInv /\ ChainInv /\ [OleNext]_oleVars => ChainInv'
<1> SUFFICES ASSUME StageInv, DepotInv, ChainInv, [OleNext]_oleVars PROVE ChainInv'
  OBVIOUS
<1>1. CASE OpenImage
  BY <1>1 DEF ChainInv, OpenImage, Mount, MountFails
<1>2. CASE ReadDepot
  BY <1>2 DEF ChainInv, ReadDepot
<1>3. CASE ReadDepotList
  BY <1>3 DEF ChainInv, ReadDepotList
<1>4. CASE DepotRead
  <2>1. /\ stage = "xbbd" /\ stage' = "sbd" /\ chain' = <<image.header.sbd>> /\ image' = image
    BY <1>4 DEF DepotRead, Header
  <2>2. image.ole
    BY <2>1 DEF StageInv
  <2>3. PICK i, first, ns : i = image /\ first = image.header.sbd /\ ns = image.chains.sbd
    OBVIOUS
  <2>4. DepotWritten(i) /\ ChainWritten(i, first, ns)
    BY <2>2, <2>3, ImageWritten DEF EntriesWritten
  <2>5. Followed' = ns
    BY <2>1, <2>3 DEF Followed
  <2> QED
    BY <2>1, <2>3, <2>4, <2>5, ChainStarts DEF ChainInv
<1>5. CASE FollowChain
  <2>1. /\ stage \in {"sbd", "root"} /\ Last(chain) # END /\ image' = image
        /\ NextInChain \in {FREE, FAT} => stage' = "plain"
        /\ NextInChain \notin {FREE, FAT} => stage' = stage
        /\ chain' = Append(chain, NextInChain)
    BY <1>5 DEF FollowChain, Mount, MountFails
  <2>2. CASE NextInChain \in {FREE, FAT}
    BY <2>1, <2>2 DEF ChainInv
  <2>3. CASE NextInChain \notin {FREE, FAT}
    <3>1. image.ole /\ BDepot = image.table
      <4>1. image.ole
        BY <2>1 DEF StageInv
      <4> QED
        BY <4>1, <2>1 DEF DepotInv
    <3>2. Followed' = Followed /\ stage' = stage
      BY <2>1, <2>3 DEF Followed
    <3>3. PICK i, ns, ch, n : i = image /\ ns = Followed /\ ch = chain /\ n = Len(chain)
      OBVIOUS
    <3>4. PICK first : DepotWritten(i) /\ ChainWritten(i, first, ns)
      BY <2>1, <3>1, <3>3, ImageWritten
    <3>5. n \in 1 .. Len(ns) /\ Upto(ch, ns, n) /\ Last(ch) \notin {FREE, FAT, END}
      BY <2>1, <3>3 DEF ChainInv, Upto
    <3>6. /\ Last(ch) = ns[n] /\ Len(ns) \in Nat
          /\ n < Len(ns) => /\ ns[n + 1] = At(i.table, ns[n])
                            /\ n + 1 \in 1 .. Len(ns)
                            /\ Upto(Append(ch, ns[n + 1]), ns, n + 1)
          /\ n = Len(ns) => ns[n] \in {END, FREE, FAT}
      BY <3>4, <3>5, ChainGoes
    <3>7. n < Len(ns)
      BY <3>5, <3>6
    <3>8. NextInChain = ns[n + 1]
      BY <3>1, <3>3, <3>6, <3>7 DEF NextInChain
    <3>9. Upto(chain', ns, n + 1) /\ n + 1 \in 1 .. Len(ns)
      BY <2>1, <3>3, <3>6, <3>7, <3>8
    <3>10. PICK ch2 : ch2 = chain'
      OBVIOUS
    <3>11. Len(ch2) = n + 1 /\ Last(ch2) = ns[n + 1]
      BY <3>4, <3>9, <3>10, ChainGoes
    <3> QED
      BY <2>3, <3>2, <3>3, <3>8, <3>9, <3>10, <3>11 DEF ChainInv, Upto
  <2> QED
    BY <2>2, <2>3
<1>6. CASE ReadSmallDepot
  <2>1. /\ stage = "sbd" /\ stage' = "root" /\ chain' = <<image.header.root>> /\ image' = image
    BY <1>6 DEF ReadSmallDepot, Header
  <2>2. image.ole
    BY <2>1 DEF StageInv
  <2>3. PICK i, first, ns : i = image /\ first = image.header.root /\ ns = image.chains.root
    OBVIOUS
  <2>4. DepotWritten(i) /\ ChainWritten(i, first, ns)
    BY <2>2, <2>3, ImageWritten DEF EntriesWritten
  <2>5. Followed' = ns
    BY <2>1, <2>3 DEF Followed
  <2> QED
    BY <2>1, <2>3, <2>4, <2>5, ChainStarts DEF ChainInv
<1>7. CASE ReadDirectory
  BY <1>7 DEF ChainInv, ReadDirectory
<1>8. CASE Later
  BY <1>8, LaterAlone DEF ChainInv, ChainGone
<1>9. CASE UNCHANGED oleVars
  BY <1>9 DEF ChainInv, Followed, oleVars, mountVars
<1> QED
  BY <1>1, <1>2, <1>3, <1>4, <1>5, <1>6, <1>7, <1>8, <1>9 DEF OleNext, Closed, Later

(* The tree and the calls, where a step leaves them alone.                 *)
LEMMA TreeStays ==
  TreeInv /\ SortInv /\ TreeAlone /\ (HasTree' => HasTree)
    /\ (HasTree' /\ stage' # "reorder" => calls = <<>>) => TreeInv' /\ SortInv'
<1> SUFFICES ASSUME TreeInv, SortInv, TreeAlone, HasTree' => HasTree,
                    HasTree' /\ stage' # "reorder" => calls = <<>>
             PROVE  TreeInv' /\ SortInv'
  OBVIOUS
<1>1. image' = image /\ tree' = tree /\ calls' = calls /\ last' = last
  BY DEF TreeAlone
<1>2. TreeInv'
  BY <1>1 DEF TreeInv
<1>3. SortInv'
  BY <1>1 DEF SortInv
<1> QED
  BY <1>2, <1>3

(* Which steps leave the tree alone, before it is read and after it is in  *)
(* order.                                                                  *)
LEMMA TreeLaidAside ==
  StageInv =>
    /\ OpenImage \/ ReadDepot \/ ReadDepotList \/ DepotRead \/ FollowChain \/ ReadSmallDepot \/ ReadPlain
         => TreeAlone /\ ~HasTree'
    /\ CopySmallFile \/ Mounted \/ OtherEntry \/ TryBook \/ NoBook \/ IsStorage \/ OpenStream
       \/ CopyBlock \/ StreamOpen => TreeAlone /\ HasTree /\ stage # "reorder"
<1> SUFFICES ASSUME StageInv
             PROVE  /\ OpenImage \/ ReadDepot \/ ReadDepotList \/ DepotRead \/ FollowChain
                         \/ ReadSmallDepot \/ ReadPlain => TreeAlone /\ ~HasTree'
                    /\ CopySmallFile \/ Mounted \/ OtherEntry \/ TryBook \/ NoBook \/ IsStorage
                         \/ OpenStream \/ CopyBlock \/ StreamOpen
                         => TreeAlone /\ HasTree /\ stage # "reorder"
  OBVIOUS
<1>1. OpenImage => TreeAlone /\ ~HasTree'
  BY DEF StageInv, OpenImage, Mount, MountFails, TreeAlone, HasTree, mountVars
<1>2. ReadDepot => TreeAlone /\ ~HasTree'
  BY DEF StageInv, ReadDepot, TreeAlone, HasTree
<1>3. ReadDepotList => TreeAlone /\ ~HasTree'
  BY DEF StageInv, ReadDepotList, TreeAlone, HasTree
<1>4. DepotRead => TreeAlone /\ ~HasTree'
  BY DEF StageInv, DepotRead, TreeAlone, HasTree
<1>5. FollowChain => TreeAlone /\ ~HasTree'
  BY DEF StageInv, FollowChain, Mount, MountFails, TreeAlone, HasTree
<1>6. ReadSmallDepot => TreeAlone /\ ~HasTree'
  BY DEF StageInv, ReadSmallDepot, TreeAlone, HasTree
<1>7. ReadPlain => TreeAlone /\ ~HasTree'
  BY DEF ReadPlain, TreeAlone, HasTree, mountVars
<1>8. CopySmallFile => TreeAlone /\ HasTree /\ stage # "reorder"
  BY DEF CopySmallFile, TreeAlone, HasTree, mountVars
<1>9. Mounted => TreeAlone /\ HasTree /\ stage # "reorder"
  BY DEF Mounted, TreeAlone, HasTree
<1>10. OtherEntry => TreeAlone /\ HasTree /\ stage # "reorder"
  BY DEF OtherEntry, TreeAlone, HasTree, mountVars
<1>11. TryBook => TreeAlone /\ HasTree /\ stage # "reorder"
  BY DEF TryBook, TreeAlone, HasTree, mountVars
<1>12. NoBook => TreeAlone /\ HasTree /\ stage # "reorder"
  BY DEF NoBook, TreeAlone, HasTree, mountVars
<1>13. IsStorage => TreeAlone /\ HasTree /\ stage # "reorder"
  BY DEF IsStorage, TreeAlone, HasTree, mountVars
<1>14. OpenStream => TreeAlone /\ HasTree /\ stage # "reorder"
  BY DEF OpenStream, TreeAlone, HasTree, mountVars
<1>15. CopyBlock => TreeAlone /\ HasTree /\ stage # "reorder"
  BY DEF CopyBlock, TreeAlone, HasTree, mountVars
<1>16. StreamOpen => TreeAlone /\ HasTree /\ stage # "reorder"
  BY DEF StreamOpen, TreeAlone, HasTree, mountVars
<1> QED
  BY <1>1, <1>2, <1>3, <1>4, <1>5, <1>6, <1>7, <1>8, <1>9, <1>10, <1>11, <1>12, <1>13, <1>14,
     <1>15, <1>16

(* The directory as it is read.                                            *)
LEMMA DirectoryReadIn ==
  StageInv /\ DepotInv /\ ChainInv /\ TreeInv /\ ReadDirectory => TreeInv' /\ SortInv'
<1> SUFFICES ASSUME StageInv, DepotInv, ChainInv, TreeInv, ReadDirectory PROVE TreeInv' /\ SortInv'
  OBVIOUS
<1>1. /\ stage = "root" /\ Last(chain) = END /\ stage' = "reorder"
      /\ image' = image /\ tree' = BlocksIn(image, Front(chain)) /\ last' = last
      /\ calls' = <<[node |-> 0, part |-> "dir"]>>
  BY DEF ReadDirectory, BlocksAt
<1>2. image.ole /\ image \in Images
  BY <1>1 DEF StageInv
<1>3. PICK i, ns, ch, n : i = image /\ ns = image.chains.root /\ ch = chain /\ n = Len(chain)
  OBVIOUS
<1>4. i \in Images /\ i.ole /\ DepotWritten(i) /\ ChainWritten(i, i.header.root, ns)
      /\ (Last(ns) = END => BlocksIn(i, Front(ns)) = i.directory)
  BY <1>2, <1>3, ImageWritten DEF EntriesWritten
<1>5. n \in 1 .. Len(ns) /\ Upto(ch, ns, n)
  BY <1>1, <1>3 DEF ChainInv, Followed, Upto
<1>6. tree' = i.directory
  <2>1. PICK first : first = i.header.root
    OBVIOUS
  <2>2. ChainWritten(i, first, ns)
    BY <2>1, <1>4
  <2>3. /\ Last(ch) = ns[n] /\ Len(ns) \in Nat /\ Len(i.table) \in Nat
        /\ n < Len(ns) => ns[n] \in 0 .. Len(i.table) - 1
        /\ n = Len(ns) => ch = ns
    BY <2>2, <1>4, <1>5, ChainGoes
  <2>4. ns[n] = END
    BY <2>3, <1>1, <1>3
  <2>5. ~(n < Len(ns))
    BY <2>3, <2>4, MarksApart
  <2>6. ch = ns
    BY <2>3, <2>5, <1>5
  <2> QED
    BY <2>6, <1>1, <1>3, <1>4
<1>7. /\ Len(i.directory) \in Nat \ {0}
      /\ i.directory = [k \in 1 .. Len(i.directory) |-> i.directory[k]]
      /\ \A k \in 1 .. Len(i.directory) : IsEntry(i.directory[k])
  BY <1>4, DirectoryTyped
<1>8. PICK f, cs : f = [node |-> 0, part |-> "dir"] /\ cs = <<f>>
  OBVIOUS
<1>9. /\ f.node = 0 /\ f.part = "dir" /\ Len(cs) = 1 /\ cs[1] = f /\ cs # <<>> /\ Last(cs) = f
      /\ calls' = cs
  BY <1>1, <1>8 DEF Last
<1>10. calls' \in Seq([node : 0 .. Len(tree') - 1, part : Parts])
  <2>1. f \in [node : 0 .. Len(i.directory) - 1, part : Parts]
    BY <1>7, <1>8 DEF Parts
  <2>2. PICK S : S = [node : 0 .. Len(i.directory) - 1, part : Parts]
    OBVIOUS
  <2>3. cs \in Seq(S)
    BY <2>1, <2>2, <1>8
  <2> QED
    BY <2>2, <2>3, <1>6, <1>9
<1>11. TreeInv'
  BY <1>1, <1>6, <1>7, <1>10 DEF TreeInv
<1>12. ASSUME DOMAIN i.children # {} PROVE InOrder(i, i.directory, cs, last)
  <2>1. WellParted(i)
    BY <1>4, <1>12, DirectoryParted
  <2>2. Reached(i, cs) = 1
    BY <2>1, <1>9 DEF Reached, WellParted
  <2>3. \A m \in Entries(i) : Sorted(i, m, At(i.directory, m), Reached(i, cs))
    BY <2>1, <2>2, SortedFirst DEF EntryOf
  <2>4. Stacked(i, cs)
    BY <2>1, <1>9 DEF Stacked, WellParted
  <2>5. LatestKnown(i, cs, last)
    BY <1>9 DEF LatestKnown
  <2> QED
    BY <2>3, <2>4, <2>5 DEF InOrder
<1>13. SortInv'
  BY <1>1, <1>3, <1>6, <1>9, <1>12 DEF SortInv
<1> QED
  BY <1>11, <1>13

(* The last call under way, and its entry.                                 *)
CallsOf(tr) == [node : 0 .. Len(tr) - 1, part : Parts]

(* The last call is for an entry of the tree, which has links.             *)
LEMMA FrameKnown ==
  ASSUME NEW tr, Len(tr) \in Nat \ {0}, \A k \in 1 .. Len(tr) : IsEntry(tr[k]),
         NEW cs \in Seq(CallsOf(tr)), cs # <<>>, NEW n, n = Last(cs).node
  PROVE  /\ Last(cs) \in CallsOf(tr) /\ n \in 0 .. Len(tr) - 1 /\ n \in Nat
         /\ IsEntry(At(tr, n))
         /\ At(tr, n).dir \in Nat \cup {FREE} /\ At(tr, n).next \in Nat \cup {FREE}
         /\ At(tr, n).previous \in Nat \cup {FREE}
<1>1. Last(cs) \in CallsOf(tr)
  <2>1. PICK S : S = CallsOf(tr)
    OBVIOUS
  <2>2. Len(cs) \in 1 .. Len(cs) /\ cs \in Seq(S)
    BY <2>1, EmptySeq, LenProperties
  <2>3. Last(cs) \in S
    BY <2>2, ElementOfSeq DEF Last
  <2> QED
    BY <2>1, <2>3
<1>2. n \in 0 .. Len(tr) - 1
  BY <1>1 DEF CallsOf
<1>3. n \in Nat /\ n + 1 \in 1 .. Len(tr)
  BY <1>2
<1>4. IsEntry(At(tr, n))
  BY <1>3 DEF At
<1> QED
  BY <1>1, <1>2, <1>3, <1>4 DEF IsEntry

(* A call goes on with another part of its entry, or for a linked entry.   *)
LEMMA FramesTyped ==
  ASSUME NEW tr, Len(tr) \in Nat \ {0}, NEW e \in CallsOf(tr), NEW p \in Parts,
         NEW f, f = [e EXCEPT !.part = p]
  PROVE  f \in CallsOf(tr) /\ f.node = e.node /\ f.part = p
BY DEF CallsOf

(* A call for an entry that has a name is one for an entry of the tree.    *)
LEMMA NewCallTyped ==
  ASSUME NEW tr, Len(tr) \in Nat \ {0}, NEW m \in Nat, ~Nameless(m), tr = tree
  PROVE  CallOf(m) \in CallsOf(tr) /\ CallOf(m).node = m /\ CallOf(m).part = "dir"
<1>1. m \in 0 .. Len(tr) - 1
  <2>1. ~(m >= Len(tree))
    BY Zenon DEF Nameless
  <2> QED
    BY <2>1
<1> QED
  BY <1>1 DEF CallOf, CallsOf, Parts

(* The three parts of reorder_pps_tree(): its dir link,                    *)
LEMMA ReorderDirKept ==
  StageInv /\ TreeInv /\ SortInv /\ ReorderDir => TreeInv' /\ SortInv'
<1> SUFFICES ASSUME StageInv, TreeInv, SortInv, ReorderDir PROVE TreeInv' /\ SortInv'
  OBVIOUS
<1>1. /\ stage = "reorder" /\ calls # <<>> /\ Last(calls).part = "dir"
      /\ UNCHANGED <<image, tree, last, ret>>
  BY DEF ReorderDir, Reordering, Frame
<1>2. HasTree /\ image.ole /\ image \in Images /\ ret = "NONE"
  BY <1>1 DEF HasTree, StageInv
<1>3. PICK i, cs, tr, l, n, f, gs :
        /\ i = image /\ cs = calls /\ tr = tree /\ l = last /\ n = Last(calls).node
        /\ f = [Last(calls) EXCEPT !.part = "next"] /\ gs = Append(Front(calls), f)
  OBVIOUS
<1>4. /\ Len(tr) \in Nat \ {0} /\ tr = [k \in 1 .. Len(tr) |-> tr[k]]
      /\ \A k \in 1 .. Len(tr) : IsEntry(tr[k])
      /\ cs \in Seq(CallsOf(tr)) /\ cs # <<>> /\ n = Last(cs).node /\ Last(cs).part = "dir"
      /\ l \in Nat \cup {FREE}
  BY <1>1, <1>2, <1>3 DEF TreeInv, CallsOf
<1>5. /\ Last(cs) \in CallsOf(tr) /\ At(tr, n).dir \in Nat \cup {FREE}
  BY <1>4, FrameKnown
<1>6. f \in CallsOf(tr) /\ f.node = n /\ f.part = "next"
  <2>1. PICK p : p = "next"
    OBVIOUS
  <2>2. p \in Parts /\ f = [Last(cs) EXCEPT !.part = p]
    BY <2>1, <1>3 DEF Parts
  <2>3. f \in CallsOf(tr) /\ f.node = Last(cs).node /\ f.part = p
    BY <2>2, <1>4, <1>5, FramesTyped
  <2> QED
    BY <2>1, <2>3, <1>4
<1>7. Topped(gs, cs, f)
  BY <1>3 DEF Topped
<1>8. PICK S : S = CallsOf(tr)
  OBVIOUS
<1>9. cs \in Seq(S) /\ f \in S
  BY <1>4, <1>6, <1>8
<1>10. gs \in Seq(S)
  BY <1>4, <1>7, <1>9, LastReplaced
<1>11. DOMAIN i.children # {} => WellParted(i) /\ InOrder(i, tr, cs, l)
  BY <1>2, <1>3, DirectoryParted DEF SortInv
<1>12. CASE At(tr, n).dir = FREE
  <2>1. calls' = gs /\ stage' = stage
    BY <1>3, <1>12 DEF ReorderDir, Node, Frame, Going, Mount
  <2>2. TreeInv'
    BY <2>1, <1>1, <1>3, <1>4, <1>8, <1>10 DEF TreeInv, CallsOf
  <2>3. DOMAIN i.children # {} => InOrder(i, tr, gs, l)
    BY <1>4, <1>6, <1>7, <1>9, <1>11, <1>12, DirDone
  <2>4. SortInv'
    BY <2>1, <2>3, <1>1, <1>3 DEF SortInv
  <2> QED
    BY <2>2, <2>4
<1>13. CASE At(tr, n).dir # FREE /\ Nameless(At(tr, n).dir)
  <2>1. calls' = calls /\ stage' = "plain"
    BY <1>3, <1>13 DEF ReorderDir, Node, Frame, MountFails
  <2>2. ~HasTree' /\ TreeAlone
    BY <2>1, <1>1, <1>2 DEF HasTree, TreeAlone
  <2> QED
    BY <2>2, TreeStays
<1>14. CASE At(tr, n).dir # FREE /\ ~Nameless(At(tr, n).dir)
  <2>1. PICK c, g, hs : c = At(tr, n).dir /\ g = CallOf(c) /\ hs = Append(gs, g)
    OBVIOUS
  <2>2. calls' = hs /\ stage' = stage
    BY <2>1, <1>3, <1>14 DEF ReorderDir, Node, Frame, Going, Mount
  <2>3. c \in Nat
    BY <2>1, <1>5, <1>14
  <2>4. g \in S /\ g.node = c /\ g.part = "dir"
    BY <2>1, <2>3, <1>3, <1>4, <1>8, <1>14, NewCallTyped
  <2>5. Added(hs, gs, g)
    BY <2>1 DEF Added
  <2>6. hs \in Seq(S)
    BY <2>4, <2>5, <1>10, OneAdded
  <2>7. TreeInv'
    BY <2>2, <2>6, <1>1, <1>3, <1>4, <1>8 DEF TreeInv, CallsOf
  <2>8. DOMAIN i.children # {} => InOrder(i, tr, hs, l)
    BY <2>1, <2>4, <2>5, <1>4, <1>6, <1>7, <1>9, <1>11, <1>14, DirEntered
  <2>9. SortInv'
    BY <2>2, <2>8, <1>1, <1>3 DEF SortInv
  <2> QED
    BY <2>7, <2>9
<1> QED
  BY <1>12, <1>13, <1>14

(* its next link                                                           *)
LEMMA ReorderNextKept ==
  StageInv /\ TreeInv /\ SortInv /\ ReorderNext => TreeInv' /\ SortInv'
<1> SUFFICES ASSUME StageInv, TreeInv, SortInv, ReorderNext PROVE TreeInv' /\ SortInv'
  OBVIOUS
<1>1. /\ stage = "reorder" /\ calls # <<>> /\ Last(calls).part = "next"
      /\ UNCHANGED <<image, tree, ret>>
  BY DEF ReorderNext, Reordering, Frame
<1>2. HasTree /\ image.ole /\ image \in Images /\ ret = "NONE"
  BY <1>1 DEF HasTree, StageInv
<1>3. PICK i, cs, tr, l, n, f, gs :
        /\ i = image /\ cs = calls /\ tr = tree /\ l = last /\ n = Last(calls).node
        /\ f = [Last(calls) EXCEPT !.part = "previous"] /\ gs = Append(Front(calls), f)
  OBVIOUS
<1>4. /\ Len(tr) \in Nat \ {0} /\ tr = [k \in 1 .. Len(tr) |-> tr[k]]
      /\ \A k \in 1 .. Len(tr) : IsEntry(tr[k])
      /\ cs \in Seq(CallsOf(tr)) /\ cs # <<>> /\ n = Last(cs).node /\ Last(cs).part = "next"
      /\ l \in Nat \cup {FREE}
  BY <1>1, <1>2, <1>3 DEF TreeInv, CallsOf
<1>5. /\ Last(cs) \in CallsOf(tr) /\ n \in Nat /\ At(tr, n).next \in Nat \cup {FREE}
  BY <1>4, FrameKnown
<1>6. f \in CallsOf(tr) /\ f.node = n /\ f.part = "previous"
  <2>1. PICK p : p = "previous"
    OBVIOUS
  <2>2. p \in Parts /\ f = [Last(cs) EXCEPT !.part = p]
    BY <2>1, <1>3 DEF Parts
  <2>3. f \in CallsOf(tr) /\ f.node = Last(cs).node /\ f.part = p
    BY <2>2, <1>4, <1>5, FramesTyped
  <2> QED
    BY <2>1, <2>3, <1>4
<1>7. Topped(gs, cs, f)
  BY <1>3 DEF Topped
<1>8. PICK S : S = CallsOf(tr)
  OBVIOUS
<1>9. cs \in Seq(S) /\ f \in S
  BY <1>4, <1>6, <1>8
<1>10. gs \in Seq(S)
  BY <1>4, <1>7, <1>9, LastReplaced
<1>11. DOMAIN i.children # {} => WellParted(i) /\ InOrder(i, tr, cs, l)
  BY <1>2, <1>3, DirectoryParted DEF SortInv
<1>12. CASE At(tr, n).next = FREE
  <2>1. calls' = gs /\ stage' = stage /\ last' = n
    BY <1>3, <1>12 DEF ReorderNext, Node, Frame, Going, Mount
  <2>2. TreeInv'
    BY <2>1, <1>1, <1>3, <1>4, <1>5, <1>8, <1>10 DEF TreeInv, CallsOf
  <2>3. DOMAIN i.children # {} => InOrder(i, tr, gs, n)
    BY <1>4, <1>6, <1>7, <1>9, <1>11, <1>12, NextDone
  <2>4. SortInv'
    BY <2>1, <2>3, <1>1, <1>3 DEF SortInv
  <2> QED
    BY <2>2, <2>4
<1>13. CASE At(tr, n).next # FREE /\ Nameless(At(tr, n).next)
  <2>1. calls' = calls /\ last' = last /\ stage' = "plain"
    BY <1>3, <1>13 DEF ReorderNext, Node, Frame, MountFails
  <2>2. ~HasTree' /\ TreeAlone
    BY <2>1, <1>1, <1>2 DEF HasTree, TreeAlone
  <2> QED
    BY <2>2, TreeStays
<1>14. CASE At(tr, n).next # FREE /\ ~Nameless(At(tr, n).next)
  <2>1. PICK c, g, hs : c = At(tr, n).next /\ g = CallOf(c) /\ hs = Append(gs, g)
    OBVIOUS
  <2>2. calls' = hs /\ stage' = stage /\ last' = last
    BY <2>1, <1>3, <1>14 DEF ReorderNext, Node, Frame, Going, Mount
  <2>3. c \in Nat
    BY <2>1, <1>5, <1>14
  <2>4. g \in S /\ g.node = c /\ g.part = "dir"
    BY <2>1, <2>3, <1>3, <1>4, <1>8, <1>14, NewCallTyped
  <2>5. Added(hs, gs, g)
    BY <2>1 DEF Added
  <2>6. hs \in Seq(S)
    BY <2>4, <2>5, <1>10, OneAdded
  <2>7. TreeInv'
    BY <2>2, <2>6, <1>1, <1>3, <1>4, <1>8 DEF TreeInv, CallsOf
  <2>8. DOMAIN i.children # {} => InOrder(i, tr, hs, l)
    BY <2>1, <2>4, <2>5, <1>4, <1>6, <1>7, <1>9, <1>11, <1>14, NextEntered
  <2>9. SortInv'
    BY <2>2, <2>8, <1>1, <1>3 DEF SortInv
  <2> QED
    BY <2>7, <2>9
<1> QED
  BY <1>12, <1>13, <1>14

(* and its previous link.                                                  *)
LEMMA ReorderPreviousKept ==
  StageInv /\ TreeInv /\ SortInv /\ ReorderPrevious => TreeInv' /\ SortInv'
<1> SUFFICES ASSUME StageInv, TreeInv, SortInv, ReorderPrevious PROVE TreeInv' /\ SortInv'
  OBVIOUS
<1>1. /\ stage = "reorder" /\ calls # <<>> /\ Last(calls).part = "previous"
      /\ UNCHANGED <<image, last, ret>>
  BY DEF ReorderPrevious, Reordering, Frame
<1>2. HasTree /\ image.ole /\ image \in Images /\ ret = "NONE"
  BY <1>1 DEF HasTree, StageInv
<1>3. PICK i, cs, tr, l, n :
        /\ i = image /\ cs = calls /\ tr = tree /\ l = last /\ n = Last(calls).node
  OBVIOUS
<1>4. /\ Len(tr) \in Nat \ {0} /\ tr = [k \in 1 .. Len(tr) |-> tr[k]]
      /\ \A k \in 1 .. Len(tr) : IsEntry(tr[k])
      /\ cs \in Seq(CallsOf(tr)) /\ cs # <<>> /\ n = Last(cs).node /\ Last(cs).part = "previous"
      /\ l \in Nat \cup {FREE}
  BY <1>1, <1>2, <1>3 DEF TreeInv, CallsOf
<1>5. n \in Nat /\ At(tr, n).previous \in Nat \cup {FREE}
  BY <1>4, FrameKnown
<1>6. PICK S : S = CallsOf(tr)
  OBVIOUS
<1>7. cs \in Seq(S)
  BY <1>4, <1>6
<1>8. DOMAIN i.children # {} => WellParted(i) /\ InOrder(i, tr, cs, l)
  BY <1>2, <1>3, DirectoryParted DEF SortInv
<1>9. CASE At(tr, n).previous = FREE
  <2>1. PICK fs : fs = Front(cs)
    OBVIOUS
  <2>2. calls' = fs /\ stage' = stage /\ tree' = tr
    BY <2>1, <1>3, <1>9 DEF ReorderPrevious, Node, Frame, Mount
  <2>3. fs \in Seq(S)
    BY <2>1, <1>4, <1>7, FrontIs
  <2>4. TreeInv'
    BY <2>2, <2>3, <1>1, <1>3, <1>4, <1>6 DEF TreeInv, CallsOf
  <2>5. DOMAIN i.children # {} => InOrder(i, tr, fs, l)
    BY <2>1, <1>4, <1>7, <1>8, <1>9, PreviousDone
  <2>6. SortInv'
    BY <2>2, <2>5, <1>1, <1>3 DEF SortInv
  <2> QED
    BY <2>4, <2>6
<1>10. CASE At(tr, n).previous # FREE /\ Nameless(At(tr, n).previous)
  <2>1. calls' = calls /\ tree' = tree /\ stage' = "plain"
    BY <1>3, <1>10 DEF ReorderPrevious, Node, Frame, MountFails
  <2>2. ~HasTree' /\ TreeAlone
    BY <2>1, <1>1, <1>2 DEF HasTree, TreeAlone
  <2> QED
    BY <2>2, TreeStays
<1>11. CASE At(tr, n).previous # FREE /\ ~Nameless(At(tr, n).previous)
  <2>1. PICK c, g, gs, tr2 :
          /\ c = At(tr, n).previous /\ g = CallOf(c) /\ gs = Append(Front(cs), g)
          /\ tr2 = [tr EXCEPT ![l + 1].next = c, ![n + 1].previous = FREE]
    OBVIOUS
  <2>2. calls' = gs /\ stage' = stage /\ tree' = tr2
    BY <2>1, <1>3, <1>11 DEF ReorderPrevious, Node, Frame, Mount, Behind
  <2>3. Rehung(tr2, tr, l, n, c) /\ Topped(gs, cs, g)
    BY <2>1 DEF Rehung, Topped
  <2>4. c \in Nat /\ l \in Int
    BY <2>1, <1>4, <1>5, <1>11 DEF FREE
  <2>5. g \in S /\ g.node = c /\ g.part = "dir"
    BY <2>1, <2>4, <1>3, <1>4, <1>6, <1>11, NewCallTyped
  <2>6. gs \in Seq(S)
    BY <2>3, <2>5, <1>4, <1>7, LastReplaced
  <2>7. /\ Len(tr2) = Len(tr) /\ tr2 = [k \in 1 .. Len(tr2) |-> tr2[k]]
        /\ \A k \in 1 .. Len(tr2) : IsEntry(tr2[k])
    <3>1. Len(tr) \in Nat
      BY <1>4
    <3> QED
      BY <3>1, <2>3, <2>4, <1>4, <1>5, LinksWritten, SMTT(20)
  <2>8. TreeInv'
    <3>1. gs \in Seq([node : 0 .. Len(tr2) - 1, part : Parts])
      BY <2>6, <2>7, <1>6 DEF CallsOf
    <3> QED
      BY <3>1, <2>2, <2>7, <1>1, <1>3, <1>4 DEF TreeInv
  <2>9. DOMAIN i.children # {} => InOrder(i, tr2, gs, l)
    <3>1. i \in Images /\ i.ole /\ c # FREE /\ AreEntries(tr)
      BY <2>1, <1>2, <1>3, <1>4, <1>11 DEF AreEntries
    <3>2. c = At(tr, n).previous
      BY <2>1
    <3>3. cs # <<>> /\ n = Last(cs).node /\ Last(cs).part = "previous"
      BY <1>4
    <3> QED
      BY <3>1, <3>2, <3>3, <2>3, <2>5, <1>7, <1>8, PreviousEntered
  <2>10. SortInv'
    BY <2>2, <2>9, <1>1, <1>3 DEF SortInv
  <2> QED
    BY <2>8, <2>10
<1> QED
  BY <1>9, <1>10, <1>11

(* The tree and the order.                                                 *)
LEMMA TreeKept ==
  OleInv /\ [OleNext]_oleVars => TreeInv' /\ SortInv'
<1> SUFFICES ASSUME OleInv, [OleNext]_oleVars PROVE TreeInv' /\ SortInv'
  OBVIOUS
<1>1. StageInv /\ DepotInv /\ ChainInv /\ TreeInv /\ SortInv
  BY DEF OleInv
<1>2. CASE OpenImage \/ ReadDepot \/ ReadDepotList \/ DepotRead \/ FollowChain \/ ReadSmallDepot
             \/ ReadPlain
  BY <1>1, <1>2, TreeLaidAside, TreeStays
<1>3. CASE ReadDirectory
  BY <1>1, <1>3, DirectoryReadIn
<1>4. CASE ReorderDir
  BY <1>1, <1>4, ReorderDirKept
<1>5. CASE ReorderNext
  BY <1>1, <1>5, ReorderNextKept
<1>6. CASE ReorderPrevious
  BY <1>1, <1>6, ReorderPreviousKept
<1>7. CASE BeginSmallFile
  <2>1. stage = "reorder" /\ calls = <<>> /\ TreeAlone
    BY <1>7 DEF BeginSmallFile, TreeAlone, mountVars
  <2>2. HasTree
    BY <2>1 DEF HasTree
  <2> QED
    BY <2>1, <2>2, <1>1, TreeStays
<1>8. CASE CopySmallFile \/ Mounted \/ OtherEntry \/ TryBook \/ NoBook \/ IsStorage \/ OpenStream
             \/ CopyBlock \/ StreamOpen
  <2>1. TreeAlone /\ HasTree /\ stage # "reorder"
    BY <1>1, <1>8, TreeLaidAside
  <2>2. calls = <<>>
    BY <2>1, <1>1 DEF TreeInv
  <2> QED
    BY <2>1, <2>2, <1>1, TreeStays
<1>9. CASE UNCHANGED oleVars
  <2>1. TreeAlone /\ (HasTree' => HasTree) /\ stage' = stage
    BY <1>9 DEF oleVars, mountVars, TreeAlone, HasTree
  <2>2. HasTree /\ stage # "reorder" => calls = <<>>
    BY <1>1 DEF TreeInv
  <2> QED
    BY <2>1, <2>2, <1>1, TreeStays
<1> QED
  BY <1>2, <1>3, <1>4, <1>5, <1>6, <1>7, <1>8, <1>9 DEF OleNext, Closed

(* Every step keeps the invariant.                                         *)
LEMMA OleKept == OleInv /\ [OleNext]_oleVars => OleInv'
<1> SUFFICES ASSUME OleInv, [OleNext]_oleVars PROVE OleInv'
  OBVIOUS
<1>1. StageInv' /\ DepotInv' /\ ChainInv'
  BY StageKept, DepotKept, ChainKept DEF OleInv
<1> QED
  BY <1>1, TreeKept DEF OleInv

(* The depot put together is the table, and a chain stays in it.           *)
LEMMA TableRight == OleInv => DepotIsTable
<1> SUFFICES ASSUME OleInv PROVE DepotIsTable
  OBVIOUS
<1>1. StageInv /\ DepotInv /\ ChainInv
  BY DEF OleInv
<1>2. ASSUME image.ole, stage \notin {"header", "bbd", "xbbd", "plain"}
      PROVE  SubSeq(BDepot, 1, Len(image.table)) = image.table
  <2>1. BDepot = image.table
    BY <1>1, <1>2 DEF DepotInv
  <2>2. PICK s, V : s = image.table /\ V = BlockValues(image)
    OBVIOUS
  <2>3. s \in Seq(V)
    <3>1. PICK i : i = image
      OBVIOUS
    <3>2. DepotWritten(i)
      BY <3>1, <1>1, <1>2, ImageWritten
    <3> QED
      BY <3>1, <3>2, <2>2, DepotBegins
  <2>4. SubSeq(s, 1, Len(s)) = s
    <3>1. Len(s) \in Nat /\ \A k \in 1 .. Len(s) : s[k] \in V
      BY <2>3, LenProperties, ElementOfSeq
    <3>2. /\ SubSeq(s, 1, Len(s)) \in Seq(V)
          /\ Len(SubSeq(s, 1, Len(s))) = IF 1 <= Len(s) THEN Len(s) - 1 + 1 ELSE 0
          /\ \A k \in 1 .. Len(s) - 1 + 1 : SubSeq(s, 1, Len(s))[k] = s[1 + k - 1]
      BY <3>1, SubSeqProperties
    <3>3. \A k \in 1 .. Len(s) : k \in 1 .. Len(s) - 1 + 1 /\ 1 + k - 1 = k
      BY <3>1
    <3>4. PICK u : u = SubSeq(s, 1, Len(s))
      OBVIOUS
    <3>5. u \in Seq(V) /\ Len(u) = Len(s) /\ \A k \in 1 .. Len(s) : u[k] = s[k]
      BY <3>1, <3>2, <3>3, <3>4
    <3> QED
      BY <2>3, <3>4, <3>5, SeqEqual
  <2> QED
    BY <2>1, <2>2, <2>4
<1>3. ASSUME stage \in {"sbd", "root"} PROVE Last(chain) \in {END} \cup 0 .. Len(BDepot) - 1
  <2>1. image.ole /\ BDepot = image.table
    BY <1>1, <1>3 DEF StageInv, DepotInv
  <2>2. PICK i, ns, ch, n : i = image /\ ns = Followed /\ ch = chain /\ n = Len(chain)
    OBVIOUS
  <2>3. PICK first : DepotWritten(i) /\ ChainWritten(i, first, ns)
    BY <2>1, <2>2, <1>1, <1>3, ImageWritten
  <2>4. n \in 1 .. Len(ns) /\ Upto(ch, ns, n) /\ Last(ch) \notin {FREE, FAT}
    BY <2>2, <1>1, <1>3 DEF ChainInv, Upto
  <2>5. /\ Last(ch) = ns[n] /\ Len(ns) \in Nat
        /\ n < Len(ns) => ns[n] \in 0 .. Len(i.table) - 1
        /\ n = Len(ns) => ns[n] \in {END, FREE, FAT}
    BY <2>3, <2>4, ChainGoes
  <2>6. n < Len(ns) \/ n = Len(ns)
    BY <2>4, <2>5
  <2> QED
    BY <2>1, <2>2, <2>4, <2>5, <2>6
<1> QED
  BY <1>2, <1>3 DEF DepotIsTable

(* From mounting to reading, oledecod.c keeps the invariant: the depot is  *)
(* the table as far as it was read, a chain is followed as it was written, *)
(* and the directory is in order as far as reorder_pps_tree() has got.     *)
THEOREM OleInvariant == OleSpec => []OleInv
<1> QED
  BY OleBegins, OleKept, PTL DEF OleSpec

(* The depot that is put together by __OLEdecode() from the header and the *)
(* lists in further blocks is the allocation table of the file, and no     *)
(* chain that is followed in it leads out of it: for images, lists and     *)
(* chains of any length.                                                   *)
THEOREM DepotAssembled == OleSpec => []DepotIsTable
<1> QED
  BY OleInvariant, TableRight, PTL

-----------------------------------------------------------------------------
(* Going along the next links.  Within a set they do not lead out of, the  *)
(* walk along them is defined.                                             *)
Goes(w, tr, first) ==
  /\ w[1] = first
  /\ \A k \in 1 .. Len(tr) - 1 : w[k + 1] = IF w[k] = FREE THEN FREE ELSE At(tr, w[k]).next

(* That walk exists, and does not lead out of the set.                     *)
LEMMA WalkDefined ==
  ASSUME NEW tr, tr = tree, Len(tr) \in Nat \ {0}, NEW S, FREE \in S, NEW first \in S,
         \A x \in S : x # FREE => At(tr, x).next \in S
  PROVE  Along(first) \in [1 .. Len(tr) -> S] /\ Goes(Along(first), tr, first)
<1> DEFINE after(x) == IF x = FREE THEN FREE ELSE At(tr, x).next
           step == [p \in Nat \X S |-> after(p[2])]
           IsWalk(w) == w = [k \in 1 .. Len(tr) |->
                               IF k = 1 THEN first
                               ELSE IF w[k - 1] = FREE THEN FREE ELSE At(tr, w[k - 1]).next]
<1>1. \A x \in S : after(x) \in S
  OBVIOUS
<1>2. step \in [Nat \X S -> S] /\ \A n \in Nat, x \in S : step[<<n, x>>] = after(x)
  <2> HIDE DEF after
  <2> QED
    BY <1>1
<1>3. PICK f \in [Nat -> S] : Recursive(f, first, step)
  <2> HIDE DEF step
  <2> QED
    BY <1>2, RecursionExists DEF Defined
<1>4. f[0] = first /\ \A n \in Nat : f[n] \in S /\ f[n + 1] = after(f[n])
  <2> HIDE DEF step, after
  <2> QED
    BY <1>2, <1>3 DEF Recursive
<1> DEFINE g == [k \in 1 .. Len(tr) |-> f[k - 1]]
<1>5. \A k \in 1 .. Len(tr) : k - 1 \in Nat /\ g[k] = f[k - 1] /\ (k # 1 => k - 1 \in 1 .. Len(tr))
  OBVIOUS
<1>6. g \in [1 .. Len(tr) -> S]
  <2> HIDE DEF after, step
  <2> QED
    BY <1>4, <1>5
<1>7. ASSUME NEW k \in 1 .. Len(tr)
      PROVE  g[k] = IF k = 1 THEN first
                    ELSE IF g[k - 1] = FREE THEN FREE ELSE At(tr, g[k - 1]).next
  <2>1. CASE k = 1
    BY <1>4, <1>5, <2>1
  <2>2. CASE k # 1
    <3>1. k - 1 \in 1 .. Len(tr) /\ k - 1 \in Nat /\ k - 1 - 1 \in Nat /\ (k - 1 - 1) + 1 = k - 1
      BY <1>5, <2>2
    <3>2. g[k] = f[k - 1] /\ g[k - 1] = f[k - 1 - 1]
      BY <1>5, <3>1
    <3>3. f[k - 1] = after(f[k - 1 - 1])
      <4> HIDE DEF after
      <4>1. f[(k - 1 - 1) + 1] = after(f[k - 1 - 1])
        BY <1>4, <3>1
      <4> QED
        BY <3>1, <4>1
    <3> QED
      BY <2>2, <3>2, <3>3, Zenon
  <2> QED
    BY <2>1, <2>2
<1>8. IsWalk(g)
  <2>1. g = [k \in 1 .. Len(tr) |-> g[k]]
    OBVIOUS
  <2> HIDE DEF g, step, after
  <2> QED
    BY <1>7, <2>1
<1>9. Along(first) = CHOOSE w : IsWalk(w)
  BY DEF Along
<1>10. IsWalk(Along(first))
  <2> HIDE DEF IsWalk, g, step, after
  <2> QED
    BY <1>8, <1>9
<1> DEFINE W == Along(first)
<1>11. /\ DOMAIN W = 1 .. Len(tr) /\ W = [k \in 1 .. Len(tr) |-> W[k]]
       /\ \A k \in 1 .. Len(tr) : W[k] = IF k = 1 THEN first
            ELSE IF W[k - 1] = FREE THEN FREE ELSE At(tr, W[k - 1]).next
  <2>1. PICK w : w = Along(first)
    OBVIOUS
  <2>2. w = [k \in 1 .. Len(tr) |->
               IF k = 1 THEN first
               ELSE IF w[k - 1] = FREE THEN FREE ELSE At(tr, w[k - 1]).next]
    BY <1>10, <2>1
  <2>3. /\ DOMAIN w = 1 .. Len(tr) /\ w = [k \in 1 .. Len(tr) |-> w[k]]
        /\ \A k \in 1 .. Len(tr) : w[k] = IF k = 1 THEN first
             ELSE IF w[k - 1] = FREE THEN FREE ELSE At(tr, w[k - 1]).next
    BY <2>2
  <2> QED
    BY <2>1, <2>3, Zenon
<1> HIDE DEF W, g, step, after, IsWalk
<1>12. 1 \in 1 .. Len(tr) /\ \A k \in 1 .. Len(tr) - 1 :
         k \in 1 .. Len(tr) /\ k + 1 \in 1 .. Len(tr) /\ k + 1 # 1 /\ k + 1 - 1 = k
  OBVIOUS
<1>13. W[1] = first
  BY <1>11, <1>12
<1>14. ASSUME NEW k \in 1 .. Len(tr) - 1
       PROVE  W[k + 1] = IF W[k] = FREE THEN FREE ELSE At(tr, W[k]).next
  <2>1. PICK m : m = k + 1
    OBVIOUS
  <2>2. m \in 1 .. Len(tr) /\ m # 1 /\ m - 1 = k
    BY <2>1, <1>12
  <2>3. W[m] = IF W[m - 1] = FREE THEN FREE ELSE At(tr, W[m - 1]).next
    BY <2>2, <1>11
  <2> QED
    BY <2>1, <2>2, <2>3
<1> DEFINE T == {k \in Nat : k + 1 <= Len(tr) => W[k + 1] \in S}
<1>15. T = Nat
  <2>1. 0 \in T
    <3>1. 0 + 1 = 1
      OBVIOUS
    <3> QED
      BY <3>1, <1>13
  <2>2. ASSUME NEW k \in T PROVE k + 1 \in T
    <3> SUFFICES ASSUME k + 1 + 1 <= Len(tr) PROVE W[k + 1 + 1] \in S
      OBVIOUS
    <3>1. k \in Nat /\ k + 1 \in 1 .. Len(tr) - 1 /\ W[k + 1] \in S
      BY <2>2
    <3>2. W[k + 1 + 1] = IF W[k + 1] = FREE THEN FREE ELSE At(tr, W[k + 1]).next
      BY <3>1, <1>14
    <3> QED
      BY <3>1, <3>2
  <2> HIDE DEF T
  <2>3. T \in SUBSET Nat
    BY DEF T
  <2> QED
    BY <2>1, <2>2, <2>3, NatSetInduction
<1>16. \A k \in 1 .. Len(tr) : W[k] \in S
  <2> SUFFICES ASSUME NEW k \in 1 .. Len(tr) PROVE W[k] \in S
    OBVIOUS
  <2>1. k - 1 \in Nat /\ k - 1 + 1 = k /\ k <= Len(tr)
    OBVIOUS
  <2>2. k - 1 \in T
    BY <2>1, <1>15
  <2> QED
    BY <2>1, <2>2
<1> HIDE DEF T
<1>17. W \in [1 .. Len(tr) -> S]
  BY <1>11, <1>16
<1> QED
  BY <1>13, <1>14, <1>17 DEF Goes, W

(* What the next links are like when every entry has been visited: each    *)
(* leads to the entry that comes behind, the last one's nowhere.           *)
LinkRight(i, tr, d, n) ==
  LET v == At(tr, n).next IN
  /\ v \in i.children[d] \cup {FREE}
  /\ v # FREE => Comes(i, n, v)
  /\ v = FREE => \A m \in i.children[d] : ~(Rank(i, n) < Rank(i, m))

(* When reorder_pps_tree() has returned, the links are like that.          *)
LEMMA LinksRight ==
  ASSUME NEW i, WellParted(i), NEW tr, NEW l, InOrder(i, tr, <<>>, l),
         NEW d \in DOMAIN i.children, NEW n \in i.children[d]
  PROVE  LinkRight(i, tr, d, n)
<1> DEFINE e == EntryOf(i, n)
           v == At(tr, n).next
<1>1. /\ n \in Entries(i) /\ Parted(i, n) /\ \A m \in Entries(i) : Parted(i, m)
      /\ i.children[d] \subseteq Entries(i) /\ FREE \notin Entries(i)
      /\ \A c \in DOMAIN i.children : n \in i.children[c] => c = d
  BY DEF WellParted
<1>2. Sorted(i, n, At(tr, n), LastRank(i, 0))
  BY <1>1 DEF InOrder, Reached
<1>3. \A m \in Entries(i) : Siblings(i, n, m) => m \in i.children[d]
  BY <1>1 DEF Siblings
<1>4. \A m \in i.children[d] : Siblings(i, n, m)
  BY DEF Siblings
<1>5. CASE e.next # FREE
  <2>1. /\ v = e.next /\ v \in Entries(i) /\ Siblings(i, n, v) /\ v # FREE
        /\ Rank(i, v) = DirEnd(i, n) + 1
    BY <1>1, <1>2, <1>5 DEF Sorted, Parted
  <2> HIDE DEF v, e
  <2>2. Comes(i, n, v)
    <3>1. Rank(i, n) < Rank(i, v)
      BY <2>1, <1>1 DEF Parted
    <3>2. ASSUME NEW k \in Entries(i), Siblings(i, n, k), Rank(i, n) < Rank(i, k)
          PROVE  Rank(i, v) <= Rank(i, k)
      <4>1. DirEnd(i, n) < Rank(i, k)
        BY <3>2, <1>1, SiblingsBehind
      <4> QED
        BY <4>1, <2>1, <1>1 DEF Parted
    <3> QED
      BY <3>1, <3>2, <2>1 DEF Comes
  <2> QED
    BY <2>1, <2>2, <1>3 DEF LinkRight, v
<1>6. CASE e.next = FREE /\ v # FREE
  <2>1. v \in Entries(i) /\ Comes(i, n, v)
    BY <1>2, <1>6 DEF Sorted
  <2>2. v \in i.children[d]
    BY <2>1, <1>3 DEF Comes
  <2> QED
    BY <2>1, <2>2, <1>6 DEF LinkRight
<1>7. CASE e.next = FREE /\ v = FREE
  <2>1. \A m \in Entries(i) : ~Comes(i, n, m)
    <3> SUFFICES ASSUME NEW m \in Entries(i), Comes(i, n, m) PROVE FALSE
      OBVIOUS
    <3>1. LastRank(i, 0) < Rank(i, m)
      BY <1>1, <1>2, <1>7 DEF Sorted
    <3>2. Parted(i, m) /\ Parted(i, 0)
      BY DEF WellParted
    <3> QED
      BY <3>1, <3>2 DEF Parted
  <2>2. ASSUME NEW m \in i.children[d], Rank(i, n) < Rank(i, m) PROVE FALSE
    <3> DEFINE P == {Rank(i, k) : k \in {k \in i.children[d] : Rank(i, n) < Rank(i, k)}}
    <3>1. P \in SUBSET Nat /\ P # {}
      BY <2>2, <1>1 DEF Parted
    <3>2. PICK r \in P : \A s \in P : r <= s
      BY <3>1, SmallestExists
    <3>3. PICK k \in i.children[d] : Rank(i, n) < Rank(i, k) /\ r = Rank(i, k)
      OBVIOUS
    <3>4. \A j \in i.children[d] : Rank(i, n) < Rank(i, j) => Rank(i, k) <= Rank(i, j)
      BY <3>2, <3>3
    <3>5. Comes(i, n, k)
      BY <3>3, <3>4, <1>3, <1>4 DEF Comes
    <3> QED
      BY <3>3, <3>5, <2>1, <1>1
  <2> QED
    BY <2>2, <1>7 DEF LinkRight
<1> QED
  BY <1>5, <1>6, <1>7

(* There are as many numbers from 1 to n as n says.                        *)
LEMMA IntervalSize == \A n \in Nat : IsFiniteSet(1 .. n) /\ Cardinality(1 .. n) = n
<1> SUFFICES ASSUME NEW n \in Nat PROVE IsFiniteSet(1 .. n) /\ Cardinality(1 .. n) = n
  OBVIOUS
<1>1. 1 \in Int /\ n \in Int
  OBVIOUS
<1>2. IsFiniteSet(1 .. n) /\ Cardinality(1 .. n) = IF 1 > n THEN 0 ELSE n - 1 + 1
  BY <1>1, FS_Interval
<1> QED
  BY <1>2

(* A walk along such links from the first entry of a directory visits each *)
(* of its entries, and none twice.                                         *)
LEMMA WalkComplete ==
  ASSUME NEW i \in Images, i.ole, DOMAIN i.children # {}, WellParted(i),
         NEW tr, NEW l, InOrder(i, tr, <<>>, l), NEW d \in DOMAIN i.children,
         NEW w, w \in [1 .. Len(tr) -> i.children[d] \cup {FREE}],
         Goes(w, tr, EntryOf(i, d).dir)
  PROVE  /\ {w[k] : k \in DOMAIN w} \ {FREE} = i.children[d]
         /\ \A j, k \in DOMAIN w : w[j] = w[k] /\ w[j] # FREE => j = k
<1> DEFINE C == i.children[d]
           first == EntryOf(i, d).dir
<1>0. Len(tr) = Len(i.directory) /\ \A n \in C : LinkRight(i, tr, d, n)
  BY LinksRight DEF InOrder
<1>1. /\ C \subseteq Entries(i) \ {0} /\ FREE \notin Entries(i) /\ d \in Entries(i)
      /\ Parted(i, d) /\ (first = FREE => C = {})
      /\ \A n \in Entries(i) : Parted(i, n) /\ Rank(i, n) \in Nat
  BY DEF WellParted, Parted
<1>2. PICK N : N = Len(tr)
  OBVIOUS
<1>3. N \in Nat \ {0} /\ DOMAIN w = 1 .. N /\ \A k \in 1 .. N : w[k] \in C \cup {FREE}
  BY <1>0, <1>2, DirectoryTyped
<1>4. ASSUME NEW k \in 1 .. N - 1
      PROVE  /\ w[k] = FREE => w[k + 1] = FREE
             /\ w[k] # FREE /\ w[k + 1] # FREE => Comes(i, w[k], w[k + 1])
             /\ w[k] # FREE /\ w[k + 1] = FREE => \A m \in C : ~(Rank(i, w[k]) < Rank(i, m))
  <2>1. w[k + 1] = IF w[k] = FREE THEN FREE ELSE At(tr, w[k]).next
    BY <1>2 DEF Goes
  <2>2. k \in 1 .. N
    BY <1>3
  <2>3. w[k] # FREE => LinkRight(i, tr, d, w[k])
    BY <2>2, <1>0, <1>3
  <2> QED
    BY <2>1, <2>3 DEF LinkRight
<1> DEFINE Apart == {k \in Nat : \A j \in 1 .. k :
                        k + 1 <= N /\ w[k + 1] # FREE =>
                          w[j] # FREE /\ Rank(i, w[j]) < Rank(i, w[k + 1])}
<1>5. Apart = Nat
  <2>1. 0 \in Apart
    OBVIOUS
  <2>2. ASSUME NEW k \in Apart PROVE k + 1 \in Apart
    <3> SUFFICES ASSUME NEW j \in 1 .. k + 1, k + 1 + 1 <= N, w[k + 1 + 1] # FREE
                 PROVE  w[j] # FREE /\ Rank(i, w[j]) < Rank(i, w[k + 1 + 1])
      OBVIOUS
    <3>1. PICK m : m = k + 1
      OBVIOUS
    <3>2. k \in Nat /\ m \in 1 .. N - 1 /\ m \in 1 .. N /\ m + 1 \in 1 .. N /\ j \in 1 .. m
      BY <3>1, <1>3
    <3>3. w[m] # FREE /\ w[m] \in Entries(i) /\ w[m + 1] \in Entries(i) /\ Comes(i, w[m], w[m + 1])
      BY <3>1, <3>2, <1>1, <1>3, <1>4
    <3>4. Rank(i, w[m]) < Rank(i, w[m + 1])
      BY <3>3 DEF Comes
    <3>5. CASE j = m
      BY <3>1, <3>3, <3>4, <3>5
    <3>6. CASE j # m
      <4>1. j \in 1 .. k /\ k + 1 <= N
        BY <3>1, <3>2, <3>6
      <4>2. w[j] # FREE /\ Rank(i, w[j]) < Rank(i, w[k + 1])
        BY <4>1, <2>2, <3>1, <3>3
      <4>3. w[j] \in Entries(i)
        BY <4>2, <3>2, <1>1, <1>3
      <4> QED
        BY <4>2, <4>3, <3>1, <3>3, <3>4, <1>1
    <3> QED
      BY <3>5, <3>6
  <2> HIDE DEF Apart
  <2>3. Apart \in SUBSET Nat
    BY DEF Apart
  <2> QED
    BY <2>1, <2>2, <2>3, NatSetInduction
<1>6. ASSUME NEW j \in 1 .. N, NEW k \in 1 .. N, j < k, w[k] # FREE
      PROVE  w[j] # w[k] /\ w[j] # FREE
  <2>1. k - 1 \in Nat /\ j \in 1 .. k - 1 /\ k - 1 + 1 = k
    BY <1>3, <1>6
  <2>2. k - 1 \in Apart
    BY <2>1, <1>5
  <2>3. w[j] # FREE /\ Rank(i, w[j]) < Rank(i, w[k])
    BY <2>1, <2>2, <1>3, <1>6
  <2>4. w[j] \in Entries(i)
    BY <2>3, <1>1, <1>3
  <2> QED
    BY <2>3, <2>4, <1>1
<1>7. \A j, k \in DOMAIN w : w[j] = w[k] /\ w[j] # FREE => j = k
  <2> SUFFICES ASSUME NEW j \in 1 .. N, NEW k \in 1 .. N, w[j] = w[k], w[j] # FREE PROVE j = k
    BY <1>3
  <2>1. ~(j < k) /\ ~(k < j)
    BY <1>6
  <2> QED
    BY <2>1, <1>3
<1>8. ASSUME NEW m \in C, \A k \in 1 .. N : w[k] # m PROVE FALSE
  <2> DEFINE Before == {k \in Nat : k + 1 <= N => w[k + 1] # FREE /\ Rank(i, w[k + 1]) < Rank(i, m)}
  <2>1. 0 \in Before
    <3>1. PICK a : a = 1
      OBVIOUS
    <3>2. w[a] = first /\ first # FREE /\ first \in C /\ a \in 1 .. N
      BY <3>1, <1>1, <1>3 DEF Goes, Parted
    <3>3. first # m /\ first \in Entries(i) /\ m \in Entries(i)
      BY <3>2, <1>1, <1>8
    <3>4. Rank(i, first) = Rank(i, d) + 1
      BY <3>2, <1>1 DEF Parted
    <3>5. Rank(i, d) < Rank(i, m)
      BY BelowOwner
    <3>6. Rank(i, first) # Rank(i, m)
      BY <3>3 DEF WellParted
    <3>7. Rank(i, first) < Rank(i, m)
      BY <3>3, <3>4, <3>5, <3>6, <1>1
    <3>8. 0 + 1 = a
      BY <3>1
    <3> QED
      BY <3>2, <3>7, <3>8
  <2>2. ASSUME NEW k \in Before PROVE k + 1 \in Before
    <3> SUFFICES ASSUME k + 1 + 1 <= N
                 PROVE  w[k + 1 + 1] # FREE /\ Rank(i, w[k + 1 + 1]) < Rank(i, m)
      OBVIOUS
    <3>1. PICK b : b = k + 1
      OBVIOUS
    <3>2. k \in Nat /\ b \in 1 .. N - 1 /\ b \in 1 .. N /\ b + 1 \in 1 .. N
      BY <3>1, <1>3
    <3>3. w[b] # FREE /\ Rank(i, w[b]) < Rank(i, m) /\ w[b] \in C
      BY <2>2, <3>1, <3>2, <1>3
    <3>4. w[b + 1] # FREE
      BY <3>2, <3>3, <1>4
    <3>5. w[b + 1] \in Entries(i) /\ m \in Entries(i) /\ w[b + 1] # m
      BY <3>2, <3>4, <1>1, <1>3, <1>8
    <3>6. Comes(i, w[b], w[b + 1])
      BY <3>2, <3>3, <3>4, <1>4
    <3>7. Siblings(i, w[b], m)
      BY <3>3 DEF Siblings
    <3>8. Rank(i, w[b + 1]) <= Rank(i, m)
      BY <3>3, <3>5, <3>6, <3>7 DEF Comes
    <3>9. Rank(i, w[b + 1]) # Rank(i, m)
      BY <3>5 DEF WellParted
    <3> QED
      BY <3>1, <3>4, <3>5, <3>8, <3>9, <1>1
  <2>3. Before = Nat
    <3> HIDE DEF Before
    <3>1. Before \in SUBSET Nat
      BY DEF Before
    <3> QED
      BY <3>1, <2>1, <2>2, NatSetInduction
  <2>4. ASSUME NEW k \in 1 .. N PROVE w[k] # FREE
    <3>1. k - 1 \in Nat /\ k - 1 + 1 = k
      OBVIOUS
    <3>2. k - 1 \in Before
      BY <3>1, <2>3
    <3> QED
      BY <3>1, <3>2, <1>3
  <2> HIDE DEF Before
  <2>5. \A n \in C : n \in 1 .. N - 1
    <3>1. \A n \in Entries(i) : n \in 0 .. N - 1
      BY <1>0, <1>2, TreesSound DEF SoundTrees
    <3> QED
      BY <3>1, <1>1, <1>3
  <2>6. w \in [1 .. N -> 1 .. N - 1]
    <3>1. \A k \in 1 .. N : w[k] \in 1 .. N - 1
      BY <2>4, <2>5, <1>3
    <3>2. w \in [1 .. N -> C \cup {FREE}]
      BY <1>2
    <3> HIDE DEF C
    <3> QED
      BY <3>1, <3>2
  <2>7. /\ IsFiniteSet(1 .. N) /\ IsFiniteSet(1 .. N - 1)
        /\ Cardinality(1 .. N - 1) < Cardinality(1 .. N)
    <3>1. PICK p \in Nat : p = N - 1
      BY <1>3
    <3>2. N \in Nat /\ p < N
      BY <3>1, <1>3
    <3>3. /\ IsFiniteSet(1 .. N) /\ Cardinality(1 .. N) = N
          /\ IsFiniteSet(1 .. p) /\ Cardinality(1 .. p) = p
      BY <3>2, IntervalSize
    <3>4. Cardinality(1 .. p) < Cardinality(1 .. N)
      BY <3>2, <3>3, Zenon
    <3> QED
      BY <3>1, <3>3, <3>4, Zenon
  <2>8. PICK j, k \in 1 .. N : j # k /\ w[j] = w[k]
    <3>1. PICK A, B : A = 1 .. N /\ B = 1 .. N - 1
      OBVIOUS
    <3>2. IsFiniteSet(A) /\ IsFiniteSet(B) /\ Cardinality(B) < Cardinality(A) /\ w \in [A -> B]
      BY <2>6, <2>7, <3>1, Zenon
    <3>3. \E j, k \in A : j # k /\ w[j] = w[k]
      BY <3>2, FS_PigeonHole
    <3> QED
      BY <3>1, <3>3, Zenon
  <2> QED
    BY <2>4, <2>8, <1>3, <1>7
<1>9. {w[k] : k \in DOMAIN w} \ {FREE} = C
  <2> DEFINE V == {w[k] : k \in DOMAIN w} \ {FREE}
  <2>1. ASSUME NEW x \in V PROVE x \in C
    BY <1>3
  <2>2. ASSUME NEW x \in C PROVE x \in V
    <3>1. PICK k \in 1 .. N : w[k] = x
      BY <1>8
    <3>2. x # FREE
      BY <1>1
    <3> QED
      BY <3>1, <3>2, <1>3
  <2> HIDE DEF V, C
  <2> QED
    BY <2>1, <2>2 DEF V
<1> QED
  BY <1>7, <1>9

(* Where the tree has been put in order, going along the next links from   *)
(* the first entry of each directory lists its entries, each once.         *)
LEMMA EntriesListed == OleInv => EachEntryOnce
<1> SUFFICES ASSUME OleInv PROVE EachEntryOnce
  OBVIOUS
<1>1. \A k \in DOMAIN calls : calls[k].node \in 0 .. Len(tree) - 1
  <2> SUFFICES ASSUME NEW k \in DOMAIN calls PROVE calls[k].node \in 0 .. Len(tree) - 1
    OBVIOUS
  <2>1. PICK X : X = [node : 0 .. Len(tree) - 1, part : Parts]
    OBVIOUS
  <2>2. calls \in Seq(X)
    BY <2>1 DEF OleInv, TreeInv
  <2>3. calls[k] \in X
    BY <2>2, LenProperties, ElementOfSeq
  <2> QED
    BY <2>1, <2>3
<1>2. ASSUME stage \in {"sbfile", "locate", "extract"} \/ ret \in {"OPEN", "BADFILE"},
             NEW d \in DOMAIN image.children
      PROVE  /\ {Along(At(tree, d).dir)[k] : k \in DOMAIN Along(At(tree, d).dir)} \ {FREE}
                  = image.children[d]
             /\ \A j, k \in DOMAIN Along(At(tree, d).dir) :
                  Along(At(tree, d).dir)[j] = Along(At(tree, d).dir)[k]
                    /\ Along(At(tree, d).dir)[j] # FREE => j = k
  <2>1. /\ HasTree /\ image \in Images /\ image.ole /\ DOMAIN image.children # {}
        /\ stage # "reorder"
    BY <1>2 DEF OleInv, StageInv, HasTree
  <2>2. PICK i \in Images : i = image
    BY <2>1
  <2>3. PICK tr : tr = tree
    OBVIOUS
  <2>4. /\ WellParted(i) /\ InOrder(i, tr, <<>>, last) /\ Len(tr) \in Nat \ {0}
        /\ i.ole /\ DOMAIN i.children # {} /\ d \in DOMAIN i.children
    <3>1. calls = <<>> /\ Len(tree) \in Nat \ {0}
      BY <2>1 DEF OleInv, TreeInv
    <3>2. InOrder(image, tree, <<>>, last)
      BY <2>1, <3>1 DEF OleInv, SortInv
    <3> QED
      BY <2>1, <2>2, <2>3, <3>1, <3>2, <1>2, DirectoryParted
  <2> HIDE <2>2, <2>3
  <2> DEFINE C == i.children[d]
             S == C \cup {FREE}
  <2>5. PICK first : first = At(tr, d).dir
    OBVIOUS
  <2>6. Len(tr) = Len(i.directory) /\ first = EntryOf(i, d).dir /\ first \in S
    <3>1. d \in Entries(i) /\ Parted(i, d)
      BY <2>4 DEF WellParted
    <3> QED
      BY <2>4, <2>5, <3>1 DEF InOrder, Sorted, Parted
  <2>7. \A n \in C : LinkRight(i, tr, d, n)
    BY <2>4, LinksRight
  <2>8. \A x \in S : x # FREE => At(tr, x).next \in S
    BY <2>7 DEF LinkRight
  <2>9. Along(first) \in [1 .. Len(tr) -> S] /\ Goes(Along(first), tr, first)
    <3>1. FREE \in S
      OBVIOUS
    <3> HIDE DEF S
    <3> QED
      BY <2>3, <2>4, <2>6, <2>8, <3>1, WalkDefined
  <2>10. PICK w : w = Along(first)
    OBVIOUS
  <2>11. /\ {w[k] : k \in DOMAIN w} \ {FREE} = C
         /\ \A j, k \in DOMAIN w : w[j] = w[k] /\ w[j] # FREE => j = k
    <3>1. w \in [1 .. Len(tr) -> C \cup {FREE}] /\ Goes(w, tr, EntryOf(i, d).dir)
      BY <2>6, <2>9, <2>10
    <3> QED
      BY <2>4, <3>1, WalkComplete
  <2>12. first = At(tree, d).dir
    BY <2>3, <2>5, Zenon
  <2>13. C = image.children[d]
    BY <2>2, Zenon
  <2> HIDE DEF C, S
  <2>14. /\ {w[k] : k \in DOMAIN w} \ {FREE} = image.children[d]
         /\ w = Along(At(tree, d).dir)
    BY <2>10, <2>11, <2>12, <2>13, Zenon
  <2> QED
    BY <2>11, <2>14, Zenon
<1> QED
  BY <1>1, <1>2 DEF EachEntryOnce

(* When a workbook's file is open, reorder_pps_tree() has made a list of   *)
(* every directory: going along the next links from the dir link visits    *)
(* each of its entries once and no other. For trees of any shape and       *)
(* depth, as long as each entry is linked once.                            *)
THEOREM DirectoryListed == OleSpec => []EachEntryOnce
<1> QED
  BY OleInvariant, EntriesListed, PTL

-----------------------------------------------------------------------------
(* What is copied, atom by atom, when k blocks of a chain have been: each  *)
(* atom that is there is in its place.                                     *)
Placed(out, atoms, there) == \A a \in there : a <= Len(out) => out[a] = atoms[a]
CopiedTo(c, ns, atoms, there, size, k) ==
  /\ c.next = IF k = Len(ns) THEN END ELSE ns[k + 1]
  /\ c.out \in Seq(Range(c.out)) /\ Len(c.out) = Least(k * size, Len(atoms))
  /\ Placed(c.out, atoms, there)
  /\ c.left = Len(atoms) - Len(c.out)
  /\ c.buffer \in Seq(Range(c.buffer)) /\ size <= Len(c.buffer)
CopyRight(c, ns, atoms, there, size) ==
  \E k \in 0 .. Len(ns) : CopiedTo(c, ns, atoms, there, size, k)

(* When all have been.                                                     *)
AllPlaced(out, atoms, there) ==
  /\ out \in Seq(Range(out)) /\ atoms \in Seq(Range(atoms)) /\ Len(out) = Len(atoms)
  /\ there \subseteq DOMAIN atoms /\ Placed(out, atoms, there)

(* What reorder_pps_tree() leaves as it is.                                *)
SameEntry(e, v) == v.name = e.name /\ v.type = e.type /\ v.start = e.start /\ v.size = e.size
SameEntries(i, tr) == \A n \in Entries(i) : SameEntry(EntryOf(i, n), At(tr, n))

(* The file of small blocks, if there is one, is copied as far as that.    *)
SmallFileRight(i, c) ==
  IF SmallDepot(i) = <<>> THEN c.next = END /\ c.out = <<>>
  ELSE CopyRight(c, i.chains.small, i.small, DOMAIN i.small, BigBlock)

(* The search: an entry of the name is not behind it.                      *)
Ahead(i, e, name) ==
  /\ e \in i.children[0] \cup {FREE}
  /\ \A n \in i.children[0] : EntryOf(i, n).name = name => e # FREE /\ Rank(i, e) <= Rank(i, n)
SearchRight(i, e, name) ==
  /\ name \in {"Workbook", "Book"} /\ Ahead(i, e, name)
  /\ name = "Book" => \A n \in i.children[0] : EntryOf(i, n).name # "Workbook"

(* The stream of the name is found, and copied as far as that.             *)
StreamFound(i, e, name) ==
  /\ e \in Wanted(i) /\ EntryOf(i, e).name = name /\ EntryOf(i, e).type = 2

StreamRight(i, e, c) ==
  CopyRight(c, i.chains.stream, i.content, i.present,
            IF IsBig(EntryOf(i, e).size) THEN BigBlock ELSE SmallBlock)

(* The invariant of a sound file: it is mounted, its small blocks' depot   *)
(* is read, its entries stay what they are, its small blocks are read, and *)
(* its stream is looked for and copied as it should be.                    *)
Sound == image.ole /\ DOMAIN image.children # {}
NotPlain == stage # "plain" /\ ret # "PLAIN"
SmallDepotRead == stage \notin {"header", "bbd", "xbbd", "sbd"} => SDepot = SmallDepot(image)
EntriesKept == HasTree => SameEntries(image, tree)
SmallFileCopied == stage = "sbfile" => SmallFileRight(image, copy)
SmallFileRead == stage \in {"locate", "extract"} => sbfile = image.small
Searched == stage = "locate" => SearchRight(image, entry, filename)
StreamCopied ==
  stage = "extract" => StreamFound(image, entry, filename) /\ StreamRight(image, entry, copy)
Answered ==
  stage = "done" =>
    \/ image.stream = "none" /\ ret = "BADFILE"
    \/ ret = "OPEN" /\ filename = image.stream /\ AllPlaced(copy.out, image.content, image.present)
FileInv ==
  Sound =>
    /\ NotPlain /\ SmallDepotRead /\ EntriesKept /\ SmallFileCopied /\ SmallFileRead
    /\ Searched /\ StreamCopied /\ Answered

-----------------------------------------------------------------------------
(* What a block more takes.                                                *)
LEMMA Products ==
  ASSUME NEW s \in Nat
  PROVE  /\ 0 * s = 0 /\ \A k \in Nat : k * s \in Nat /\ (k + 1) * s = k * s + s
         /\ \A k, m \in Nat : k <= m => k * s <= m * s
<1>1. 0 * s = 0 /\ \A k \in Nat : k * s \in Nat /\ (k + 1) * s = k * s + s
  OBVIOUS
<1>2. ASSUME NEW k \in Nat, NEW m \in Nat, k <= m PROVE k * s <= m * s
  <2>1. PICK n \in Nat : m = k + n
    <3>1. m - k \in Nat /\ m = k + (m - k)
      BY <1>2
    <3> QED
      BY <3>1
  <2>2. (k + n) * s = k * s + n * s /\ n * s \in Nat /\ k * s \in Nat
    OBVIOUS
  <2> QED
    BY <2>1, <2>2
<1> QED
  BY <1>1, <1>2

(* The copy of a stream, a block further on.                               *)
StepsTo(d, c, from, size, depot) ==
  LET n      == Least(size, c.left)
      buffer == Overwrite(c.buffer, SubSeq(from, 1, Least(n, Len(from))))
  IN  /\ d.next = IF c.left = n THEN END ELSE At(depot, c.next)
      /\ d.left = c.left - n /\ d.buffer = buffer /\ d.out = c.out \o SubSeq(buffer, 1, n)

(* A sequence's values are those it has.                                   *)
LEMMA OwnValues ==
  ASSUME NEW S, NEW s \in Seq(S)
  PROVE  s \in Seq(Range(s)) /\ Len(s) \in Nat
<1>1. Len(s) \in Nat /\ DOMAIN s = 1 .. Len(s) /\ s \in [1 .. Len(s) -> S]
  BY LenProperties
<1>2. s \in [1 .. Len(s) -> Range(s)]
  BY <1>1 DEF Range
<1> QED
  BY <1>1, <1>2, FunctionIsSeq

(* A sequence's first n elements.                                          *)
LEMMA FirstOnes ==
  ASSUME NEW S, NEW s \in Seq(S), NEW n \in Nat, n <= Len(s), NEW t, t = SubSeq(s, 1, n)
  PROVE  t \in Seq(S) /\ Len(t) = n /\ \A k \in 1 .. n : t[k] = s[k]
<1>1. Len(s) \in Nat
  BY LenProperties
<1>2. 1 \in Int /\ n \in Int /\ \A k \in 1 .. n : s[k] \in S
  BY <1>1, ElementOfSeq
<1>3. /\ t \in Seq(S) /\ Len(t) = IF 1 <= n THEN n - 1 + 1 ELSE 0
      /\ \A k \in 1 .. n - 1 + 1 : t[k] = s[1 + k - 1]
  BY <1>2, SubSeqProperties
<1> QED
  BY <1>3

(* A new beginning of a buffer.                                            *)
LEMMA Overwritten ==
  ASSUME NEW S, NEW old \in Seq(S), NEW new \in Seq(S), NEW all, all = Overwrite(old, new)
  PROVE  /\ all \in Seq(S) /\ Len(old) <= Len(all)
         /\ \A k \in 1 .. Len(new) : all[k] = new[k]
<1> DEFINE rest == SubSeq(old, Len(new) + 1, Len(old))
<1>1. Len(old) \in Nat /\ Len(new) \in Nat
  BY LenProperties
<1>2. rest \in Seq(S) /\ Len(old) <= Len(new) + Len(rest)
  <2>1. \A k \in Len(new) + 1 .. Len(old) : old[k] \in S
    BY <1>1, ElementOfSeq
  <2>2. Len(new) + 1 \in Int /\ Len(old) \in Int
    BY <1>1
  <2>3. /\ rest \in Seq(S)
        /\ Len(rest) = IF Len(new) + 1 <= Len(old) THEN Len(old) - (Len(new) + 1) + 1 ELSE 0
    BY <2>1, <2>2, SubSeqProperties
  <2> HIDE DEF rest
  <2> QED
    BY <2>3, <1>1
<1> HIDE DEF rest
<1>3. all = new \o rest
  BY DEF Overwrite, rest
<1>4. all \in Seq(S) /\ Len(all) = Len(new) + Len(rest)
      /\ \A k \in 1 .. Len(new) : all[k] = new[k]
  BY <1>1, <1>2, <1>3, ConcatProperties, LenProperties
<1> QED
  BY <1>2, <1>4

(* One block of a chain is copied.                                         *)
LEMMA CopyGoes ==
  ASSUME NEW first, NEW ns, NEW bs, NEW table, NEW size \in Nat \ {0}, NEW atoms, NEW there,
         StreamWritten(first, ns, bs, table, size, atoms, there),
         NEW k \in 0 .. Len(ns), NEW c, CopiedTo(c, ns, atoms, there, size, k), c.next # END,
         NEW d, StepsTo(d, c, bs[k + 1], size, table)
  PROVE  k + 1 \in 0 .. Len(ns) /\ CopiedTo(d, ns, atoms, there, size, k + 1)
<1> DEFINE N == Len(atoms)
           L == Len(ns)
<1>1. N \in Nat /\ L \in Nat /\ \A j \in 1 .. L : ns[j] \in Nat
  <2>1. ns \in Seq(Nat) /\ atoms \in Seq(Range(atoms))
    BY DEF StreamWritten
  <2> QED
    BY <2>1, LenProperties, ElementOfSeq
<1>2. k \in Nat /\ k < L
  BY <1>1 DEF CopiedTo
<1>3. PICK o : o = k * size
  OBVIOUS
<1>4. o \in Nat /\ (k + 1) * size = o + size /\ o < N
      /\ (k + 1 = L => N <= o + size) /\ (k + 1 < L => o + size < N)
  <2>1. o \in Nat /\ (k + 1) * size = o + size
    BY <1>2, <1>3, Products
  <2>2. (L - 1) * size < N /\ N <= L * size
    BY DEF StreamWritten
  <2>3. L - 1 \in Nat /\ k <= L - 1
    BY <1>1, <1>2
  <2>4. o <= (L - 1) * size /\ (L - 1) * size \in Nat
    BY <2>3, <1>2, <1>3, Products
  <2>5. k + 1 < L => (k + 1) * size <= (L - 1) * size
    <3>0. k + 1 \in Nat /\ L - 1 \in Nat
      BY <2>3, <1>2
    <3>1. PICK x \in Nat, y \in Nat : x = k + 1 /\ y = L - 1
      BY <3>0, Zenon
    <3>2. x <= y => x * size <= y * size
      BY Products
    <3>3. k + 1 < L => x <= y
      BY <3>1, <1>1, <1>2
    <3> QED
      BY <3>1, <3>2, <3>3
  <2>6. k + 1 = L => L * size = (k + 1) * size
    OBVIOUS
  <2> QED
    BY <2>1, <2>2, <2>4, <2>5, <2>6, <1>1
<1>5. PICK n : n = Least(size, N - o)
  OBVIOUS
<1>6. /\ n \in Nat /\ n > 0 /\ n <= size /\ o + n <= N
      /\ Least(o, N) = o /\ Least(o + size, N) = o + n
      /\ (N - o = n <=> k + 1 = L)
  BY <1>1, <1>2, <1>4, <1>5 DEF Least
<1>7. /\ c.left = N - o /\ c.next = ns[k + 1]
      /\ c.out \in Seq(Range(c.out)) /\ Len(c.out) = o /\ Placed(c.out, atoms, there)
      /\ c.buffer \in Seq(Range(c.buffer)) /\ size <= Len(c.buffer)
  <2>1. Len(c.out) = o
    BY <1>3, <1>6 DEF CopiedTo
  <2> QED
    BY <2>1, <1>2 DEF CopiedTo
<1>8. PICK from : from = bs[k + 1]
  OBVIOUS
<1>9. /\ from \in Seq(Range(from)) /\ Len(from) \in Nat
      /\ \A a \in 1 .. n : o + a \in there => a <= Len(from) /\ from[a] = atoms[o + a]
  <2>1. PICK j \in 1 .. L : j = k + 1
    BY <1>1, <1>2
  <2>2. PICK p : p = (j - 1) * size
    OBVIOUS
  <2>3. /\ from \in Seq(Range(from))
        /\ \A a \in 1 .. size : o + a \in there => a <= Len(from) /\ from[a] = atoms[o + a]
    <3>1. /\ bs[j] \in Seq(Range(bs[j]))
          /\ \A a \in 1 .. size : (j - 1) * size + a \in there =>
               a <= Len(bs[j]) /\ bs[j][a] = atoms[(j - 1) * size + a]
      BY Zenon DEF StreamWritten
    <3>2. from = bs[j]
      BY <2>1, <1>8, Zenon
    <3>3. p = o
      <4>1. j - 1 = k
        BY <2>1, <1>2
      <4> QED
        BY <4>1, <2>2, <1>3, Zenon
    <3>4. \A a \in 1 .. size : p + a \in there => a <= Len(bs[j]) /\ bs[j][a] = atoms[p + a]
      BY <3>1, <2>2, Zenon
    <3> QED
      BY <3>1, <3>2, <3>3, <3>4, Zenon
  <2>4. Len(from) \in Nat
    BY <2>3, LenProperties
  <2>5. \A a \in 1 .. n : a \in 1 .. size
    BY <1>6
  <2> QED
    BY <2>3, <2>4, <2>5
<1> HIDE <1>5, <1>8
<1>10. PICK m : m = Least(n, Len(from))
  OBVIOUS
<1>11. m \in Nat /\ m <= n /\ m <= Len(from) /\ \A a \in 1 .. n : a <= Len(from) => a \in 1 .. m
  BY <1>6, <1>9, <1>10 DEF Least
<1>12. PICK new : new = SubSeq(from, 1, m)
  OBVIOUS
<1>13. new \in Seq(Range(from)) /\ Len(new) = m /\ \A a \in 1 .. m : new[a] = from[a]
  BY <1>9, <1>11, <1>12, FirstOnes
<1>14. PICK buffer : buffer = Overwrite(c.buffer, new)
  OBVIOUS
<1>15. PICK more : more = SubSeq(buffer, 1, n)
  OBVIOUS
<1>16. /\ d.next = IF c.left = n THEN END ELSE At(table, c.next)
       /\ d.left = c.left - n /\ d.buffer = buffer /\ d.out = c.out \o more
  <2>1. Least(size, c.left) = n
    BY <1>5, <1>7
  <2> QED
    BY <2>1, <1>8, <1>10, <1>12, <1>14, <1>15, Zenon DEF StepsTo
<1>17. PICK S : S = Range(c.buffer) \cup Range(from) \cup Range(c.out)
  OBVIOUS
<1>18. /\ buffer \in Seq(S) /\ size <= Len(buffer) /\ Len(buffer) \in Nat
       /\ \A a \in 1 .. m : buffer[a] = from[a]
  <2>1. PICK old : old = c.buffer
    OBVIOUS
  <2>2. old \in Seq(S) /\ new \in Seq(S) /\ buffer = Overwrite(old, new)
    BY <2>1, <1>7, <1>13, <1>14, <1>17
  <2>3. /\ buffer \in Seq(S) /\ Len(old) <= Len(buffer)
        /\ \A a \in 1 .. Len(new) : buffer[a] = new[a]
    BY <2>2, Overwritten
  <2>4. Len(buffer) \in Nat /\ Len(old) \in Nat
    BY <2>2, <2>3, LenProperties
  <2>5. size <= Len(buffer)
    BY <2>1, <2>3, <2>4, <1>7
  <2> QED
    BY <2>3, <2>4, <2>5, <1>13
<1>19. more \in Seq(S) /\ Len(more) = n /\ \A a \in 1 .. n : more[a] = buffer[a]
  <2>1. n <= Len(buffer)
    BY <1>6, <1>18
  <2> QED
    BY <2>1, <1>6, <1>15, <1>18, FirstOnes
<1>20. PICK out, before : out = d.out /\ before = c.out
  OBVIOUS
<1>21. /\ out \in Seq(S) /\ Len(out) = o + n
       /\ \A a \in 1 .. o + n : out[a] = IF a <= o THEN before[a] ELSE more[a - o]
  <2>1. before \in Seq(S) /\ Len(before) = o /\ out = before \o more
    BY <1>7, <1>16, <1>17, <1>20
  <2>2. /\ out \in Seq(S) /\ Len(out) = Len(before) + Len(more)
        /\ \A a \in 1 .. Len(before) + Len(more) :
             out[a] = IF a <= Len(before) THEN before[a] ELSE more[a - Len(before)]
    BY <2>1, <1>19, ConcatProperties
  <2> QED
    BY <2>1, <2>2, <1>19
<1>22. Placed(out, atoms, there)
  <2> SUFFICES ASSUME NEW a \in there, a <= o + n PROVE out[a] = atoms[a]
    BY <1>21 DEF Placed
  <2>1. a \in 1 .. N
    <3>1. atoms \in Seq(Range(atoms)) /\ there \subseteq DOMAIN atoms
      BY DEF StreamWritten
    <3>2. DOMAIN atoms = 1 .. N
      BY <3>1, LenProperties
    <3> QED
      BY <3>1, <3>2
  <2>2. a \in 1 .. o + n
    BY <2>1, <1>1, <1>4, <1>6
  <2>3. CASE a <= o
    <3>1. out[a] = before[a]
      BY <2>2, <2>3, <1>21, Zenon
    <3>2. before[a] = atoms[a]
      BY <2>3, <1>7, <1>20 DEF Placed
    <3> QED
      BY <3>1, <3>2
  <2>4. CASE ~(a <= o)
    <3>1. out[a] = more[a - o]
      BY <2>2, <2>4, <1>21, Zenon
    <3>2. a - o \in 1 .. n /\ o + (a - o) = a
      BY <2>2, <2>4, <1>4, <1>6
    <3>3. PICK b \in 1 .. n : b = a - o
      BY <3>2
    <3>4. o + b = a
      BY <3>2, <3>3
    <3>5. b <= Len(from) /\ from[b] = atoms[a]
      BY <3>4, <1>9
    <3>6. more[b] = from[b]
      BY <3>5, <1>11, <1>18, <1>19
    <3> QED
      BY <3>1, <3>3, <3>5, <3>6
  <2> QED
    BY <2>3, <2>4
<1>23. d.next = IF k + 1 = L THEN END ELSE ns[k + 1 + 1]
  <2>1. CASE k + 1 = L
    BY <2>1, <1>6, <1>7, <1>16
  <2>2. CASE k + 1 # L
    <3>1. k + 1 \in 1 .. L - 1
      BY <2>2, <1>1, <1>2
    <3>2. ns[k + 1 + 1] = At(table, ns[k + 1])
      BY <3>1 DEF StreamWritten
    <3>3. c.left # n
      BY <2>2, <1>6, <1>7
    <3> QED
      BY <2>2, <3>2, <3>3, <1>7, <1>16, Zenon
  <2> QED
    BY <2>1, <2>2
<1>24. d.left = N - (o + n)
  BY <1>1, <1>4, <1>6, <1>7, <1>16
<1>25. Least((k + 1) * size, N) = o + n
  BY <1>4, <1>6, Zenon
<1>26. k + 1 \in 0 .. Len(ns)
  BY <1>1, <1>2
<1>27. /\ d.out \in Seq(Range(d.out)) /\ Len(d.out) = o + n /\ Placed(d.out, atoms, there)
  BY <1>20, <1>21, <1>22, OwnValues
<1>28. d.buffer \in Seq(Range(d.buffer)) /\ size <= Len(d.buffer)
  BY <1>16, <1>18, OwnValues
<1> QED
  BY <1>23, <1>24, <1>25, <1>26, <1>27, <1>28, Zenon DEF CopiedTo

(* Before the first block is copied.                                       *)
LEMMA CopyBegins ==
  ASSUME NEW first, NEW ns, NEW bs, NEW table, NEW size \in Nat \ {0}, NEW atoms, NEW there,
         StreamWritten(first, ns, bs, table, size, atoms, there),
         NEW c, c.next = first, c.left = Len(atoms), c.out = <<>>,
         c.buffer \in Seq(Range(c.buffer)), size <= Len(c.buffer)
  PROVE  CopyRight(c, ns, atoms, there, size)
<1>1. /\ atoms \in Seq(Range(atoms)) /\ ns \in Seq(Nat) /\ there \subseteq DOMAIN atoms
      /\ first = IF ns = <<>> THEN END ELSE ns[1]
  BY DEF StreamWritten
<1>2. Len(atoms) \in Nat /\ Len(ns) \in Nat /\ (ns = <<>> <=> Len(ns) = 0)
      /\ DOMAIN atoms = 1 .. Len(atoms)
  BY <1>1, LenProperties, EmptySeq
<1>3. PICK k : k = 0
  OBVIOUS
<1>4. k \in 0 .. Len(ns) /\ Least(k * size, Len(atoms)) = 0 /\ k + 1 = 1
  BY <1>2, <1>3 DEF Least
<1>5. c.next = IF k = Len(ns) THEN END ELSE ns[k + 1]
  BY <1>1, <1>2, <1>3, <1>4, Zenon
<1>6. PICK out : out = c.out
  OBVIOUS
<1>7. out = <<>> /\ Len(out) = 0 /\ out \in Seq(Range(out))
  BY <1>6, EmptySeq
<1>8. Placed(out, atoms, there)
  BY <1>1, <1>2, <1>7 DEF Placed
<1>9. c.left = Len(atoms) - Len(out)
  BY <1>2, <1>7
<1>10. CopiedTo(c, ns, atoms, there, size, k)
  BY <1>4, <1>5, <1>6, <1>7, <1>8, <1>9, Zenon DEF CopiedTo
<1> QED
  BY <1>4, <1>10 DEF CopyRight

(* When the chain or the size has ended, all of it is copied.              *)
LEMMA CopyEnds ==
  ASSUME NEW first, NEW ns, NEW bs, NEW table, NEW size \in Nat \ {0}, NEW atoms, NEW there,
         StreamWritten(first, ns, bs, table, size, atoms, there),
         NEW c, CopyRight(c, ns, atoms, there, size), c.next = END
  PROVE  AllPlaced(c.out, atoms, there)
<1>1. /\ atoms \in Seq(Range(atoms)) /\ ns \in Seq(Nat) /\ Len(atoms) <= Len(ns) * size
      /\ there \subseteq DOMAIN atoms
  BY DEF StreamWritten
<1>2. Len(atoms) \in Nat /\ Len(ns) \in Nat /\ \A j \in 1 .. Len(ns) : ns[j] \in Nat
  BY <1>1, LenProperties, ElementOfSeq
<1>3. PICK k \in 0 .. Len(ns) : CopiedTo(c, ns, atoms, there, size, k)
  BY DEF CopyRight
<1>4. k = Len(ns)
  <2> SUFFICES ASSUME k # Len(ns) PROVE FALSE
    OBVIOUS
  <2>1. k + 1 \in 1 .. Len(ns)
    BY <1>2
  <2>2. END = ns[k + 1]
    BY <1>3 DEF CopiedTo
  <2>3. END \in Nat
    BY <2>1, <2>2, <1>2, Zenon
  <2> QED
    BY <2>3, MarksApart
<1>5. Least(k * size, Len(atoms)) = Len(atoms)
  <2>1. PICK x : x = Len(ns) * size
    OBVIOUS
  <2>2. x \in Nat /\ Len(atoms) <= x
    BY <2>1, <1>1, <1>2, Products
  <2>3. k * size = x
    BY <2>1, <1>4
  <2> QED
    BY <2>2, <2>3, <1>2 DEF Least
<1> QED
  BY <1>1, <1>3, <1>5, Zenon DEF CopiedTo, AllPlaced

(* One block more, of a copy that is right.                                *)
LEMMA CopyOn ==
  ASSUME NEW first, NEW ns, NEW bs, NEW table, NEW size \in Nat \ {0}, NEW atoms, NEW there,
         StreamWritten(first, ns, bs, table, size, atoms, there),
         NEW c, CopyRight(c, ns, atoms, there, size), c.next # END,
         NEW d, \A k \in DOMAIN ns : c.next = ns[k] => StepsTo(d, c, bs[k], size, table)
  PROVE  CopyRight(d, ns, atoms, there, size)
<1>1. ns \in Seq(Nat) /\ Len(ns) \in Nat /\ DOMAIN ns = 1 .. Len(ns)
  BY LenProperties DEF StreamWritten
<1>2. PICK k \in 0 .. Len(ns) : CopiedTo(c, ns, atoms, there, size, k)
  BY DEF CopyRight
<1>3. k # Len(ns) /\ c.next = ns[k + 1]
  BY <1>2 DEF CopiedTo
<1>4. k + 1 \in DOMAIN ns
  <2>1. PICK l : l = Len(ns)
    OBVIOUS
  <2>2. k + 1 \in 1 .. l
    BY <2>1, <1>1, <1>3
  <2> QED
    BY <2>1, <2>2, <1>1, Zenon
<1>5. StepsTo(d, c, bs[k + 1], size, table)
  BY <1>3, <1>4, Zenon
<1>6. k + 1 \in 0 .. Len(ns) /\ CopiedTo(d, ns, atoms, there, size, k + 1)
  BY <1>2, <1>5, CopyGoes
<1> QED
  BY <1>6, Zenon DEF CopyRight

(* Copied() is a step of a copy,                                           *)
LEMMA CopiedSteps ==
  ASSUME NEW from, NEW size, NEW depot
  PROVE  StepsTo(Copied(from, size, depot), copy, from, size, depot)
BY DEF StepsTo, Copied

(* and Copying() the beginning of one.                                     *)
LEMMA CopyingBegins ==
  ASSUME NEW first, NEW size, NEW c, c = Copying(first, size)
  PROVE  /\ c.next = first /\ c.left = size /\ c.out = <<>>
         /\ c.buffer \in Seq(Range(c.buffer)) /\ Len(c.buffer) = BigBlock
<1>1. BigBlock \in Nat
  BY BlocksAssumption
<1>2. PICK buffer : buffer = [k \in 1 .. BigBlock |-> fill]
  OBVIOUS
<1>3. buffer \in Seq(Range(buffer)) /\ Len(buffer) = BigBlock
  <2>1. buffer \in [1 .. BigBlock -> Range(buffer)]
    BY <1>2 DEF Range
  <2> QED
    BY <2>1, <1>1, <1>2, FunctionIsSeq
<1>4. c = [next |-> first, left |-> size, buffer |-> buffer, out |-> <<>>]
  BY <1>2, Zenon DEF Copying
<1> QED
  BY <1>3, <1>4

-----------------------------------------------------------------------------
(* What is written of a sound file.                                        *)
LEMMA SoundWritten ==
  OleInv /\ Sound =>
    /\ image \in Images /\ DepotWritten(image) /\ EntriesWritten(image) /\ WorkbookWritten(image)
    /\ 0 \in DOMAIN image.children /\ SoundTrees(image) /\ WellParted(image)
<1> SUFFICES ASSUME OleInv, Sound
             PROVE  /\ image \in Images /\ DepotWritten(image) /\ EntriesWritten(image)
                    /\ WorkbookWritten(image) /\ 0 \in DOMAIN image.children
                    /\ SoundTrees(image) /\ WellParted(image)
  OBVIOUS
<1>1. image \in Images /\ image.ole /\ DOMAIN image.children # {}
  BY DEF OleInv, StageInv, Sound
<1>2. DepotWritten(image) /\ EntriesWritten(image) /\ WorkbookWritten(image)
  BY <1>1, ImagesAssumption
<1>3. 0 \in DOMAIN image.children
  BY <1>2 DEF WorkbookWritten
<1> QED
  BY <1>1, <1>2, <1>3, TreesSound, DirectoryParted

(* It stays the same one.                                                  *)
LEMMA ImageStays == [OleNext]_oleVars => image' = image
BY DEF OleNext, oleVars, OpenImage, ReadDepot, ReadDepotList, DepotRead, FollowChain,
  ReadSmallDepot, ReadDirectory, ReorderDir, ReorderNext, ReorderPrevious, BeginSmallFile,
  CopySmallFile, Mounted, OtherEntry, TryBook, NoBook, IsStorage, OpenStream, CopyBlock,
  StreamOpen, ReadPlain, Closed

(* Its chains end as they should.                                          *)
LEMMA ChainLeads ==
  OleInv /\ Sound /\ stage \in {"sbd", "root"} =>
    /\ Last(chain) # END => NextInChain \notin {FREE, FAT}
    /\ Last(chain) = END => chain = Followed
<1> SUFFICES ASSUME OleInv, Sound, stage \in {"sbd", "root"}
             PROVE  /\ Last(chain) # END => NextInChain \notin {FREE, FAT}
                    /\ Last(chain) = END => chain = Followed
  OBVIOUS
<1>1. StageInv /\ DepotInv /\ ChainInv /\ image.ole /\ BDepot = image.table
  BY DEF OleInv, Sound, DepotInv
<1>2. PICK i, ns, ch, n : i = image /\ ns = Followed /\ ch = chain /\ n = Len(chain)
  OBVIOUS
<1>3. PICK first : DepotWritten(i) /\ ChainWritten(i, first, ns)
  BY <1>1, <1>2, ImageWritten
<1>4. n \in 1 .. Len(ns) /\ Upto(ch, ns, n) /\ Last(ch) \notin {FREE, FAT}
  BY <1>1, <1>2 DEF ChainInv, Upto
<1>5. /\ Last(ch) = ns[n] /\ Len(ns) \in Nat /\ Len(i.table) \in Nat
      /\ n < Len(ns) => /\ ns[n] \in 0 .. Len(i.table) - 1 /\ ns[n + 1] = At(i.table, ns[n])
                        /\ n + 1 \in 1 .. Len(ns)
      /\ n = Len(ns) => ns[n] \in {END, FREE, FAT} /\ ch = ns
  BY <1>3, <1>4, ChainGoes
<1>6. ns[Len(ns)] = END
  <2>1. Last(ns) = END
    BY <1>2, SoundWritten DEF WorkbookWritten, Followed
  <2> QED
    BY <2>1 DEF Last
<1>7. \A m \in 1 .. Len(ns) : ns[m] \notin {FREE, FAT}
  <2> SUFFICES ASSUME NEW m \in 1 .. Len(ns) PROVE ns[m] \notin {FREE, FAT}
    OBVIOUS
  <2>1. CASE m = Len(ns)
    BY <2>1, <1>6, MarksApart
  <2>2. CASE m # Len(ns)
    <3>1. m \in 1 .. Len(ns) - 1
      BY <2>2, <1>5
    <3>2. ns[m] \in 0 .. Len(i.table) - 1
      BY <3>1, <1>3 DEF ChainWritten
    <3> QED
      BY <3>2, <1>5, MarksApart
  <2> QED
    BY <2>1, <2>2
<1>8. Last(ch) # END => NextInChain \notin {FREE, FAT}
  <2> SUFFICES ASSUME Last(ch) # END PROVE NextInChain \notin {FREE, FAT}
    BY <1>2
  <2>1. n < Len(ns)
    BY <1>4, <1>5, <1>6
  <2>2. NextInChain = ns[n + 1] /\ n + 1 \in 1 .. Len(ns)
    BY <2>1, <1>1, <1>2, <1>5 DEF NextInChain
  <2> QED
    BY <2>2, <1>7
<1>9. Last(ch) = END => ch = ns
  <2> SUFFICES ASSUME Last(ch) = END PROVE ch = ns
    OBVIOUS
  <2>1. ~(n < Len(ns))
    BY <1>5, MarksApart
  <2> QED
    BY <2>1, <1>4, <1>5
<1> QED
  BY <1>2, <1>8, <1>9

(* The links of an entry that is being sorted lead to entries.             *)
LEMMA LinksKnown ==
  ASSUME NEW i, NEW n, Parted(i, n), NEW v, NEW t, Sorted(i, n, v, t)
  PROVE  {v.dir, v.next, v.previous} \subseteq Entries(i) \cup {FREE}
<1>1. {EntryOf(i, n).dir, EntryOf(i, n).next, EntryOf(i, n).previous} \subseteq Entries(i) \cup {FREE}
  BY DEF Parted
<1>2. v.dir \in Entries(i) \cup {FREE} /\ v.next \in Entries(i) \cup {FREE}
  BY <1>1 DEF Sorted
<1>3. v.previous \in Entries(i) \cup {FREE}
  BY <1>1 DEF Sorted
<1> QED
  BY <1>2, <1>3

(* Entries of a sound file have names.                                     *)
LEMMA EntriesNamed ==
  OleInv /\ Sound /\ HasTree /\ SameEntries(image, tree) =>
    \A m \in Entries(image) : m \in 0 .. Len(tree) - 1 /\ ~Nameless(m)
<1> SUFFICES ASSUME OleInv, Sound, HasTree, SameEntries(image, tree), NEW m \in Entries(image)
             PROVE  m \in 0 .. Len(tree) - 1 /\ ~Nameless(m)
  OBVIOUS
<1>1. SoundTrees(image) /\ WorkbookWritten(image) /\ 0 \in DOMAIN image.children
  BY SoundWritten
<1>2. Len(tree) = Len(image.directory) /\ Len(tree) \in Nat
  BY <1>1 DEF OleInv, SortInv, TreeInv, InOrder
<1>3. m \in 0 .. Len(tree) - 1
  BY <1>1, <1>2 DEF SoundTrees
<1>4. ~(m >= Len(tree))
  BY <1>2, <1>3
<1>5. At(tree, m).name = EntryOf(image, m).name
  BY DEF SameEntries, SameEntry
<1>6. EntryOf(image, m).name # ""
  BY <1>1, Zenon DEF WorkbookWritten, EntryOf
<1> QED
  BY <1>3, <1>4, <1>5, <1>6, Zenon DEF Nameless

(* The links that are followed while its tree is sorted have names.        *)
LEMMA FrameNamed ==
  OleInv /\ Sound /\ stage = "reorder" /\ calls # <<>> /\ SameEntries(image, tree) =>
    /\ Frame.node \in Entries(image)
    /\ \A m \in {Node.dir, Node.next, Node.previous} : m # FREE => ~Nameless(m)
<1> SUFFICES ASSUME OleInv, Sound, stage = "reorder", calls # <<>>, SameEntries(image, tree)
             PROVE  /\ Frame.node \in Entries(image)
                    /\ \A m \in {Node.dir, Node.next, Node.previous} : m # FREE => ~Nameless(m)
  OBVIOUS
<1>1. WellParted(image) /\ 0 \in DOMAIN image.children /\ HasTree
  BY SoundWritten DEF HasTree
<1>2. calls \in Seq([node : 0 .. Len(tree) - 1, part : Parts]) /\ InOrder(image, tree, calls, last)
  BY <1>1 DEF OleInv, TreeInv, SortInv
<1>3. PICK i, cs, tr, n, S :
        /\ i = image /\ cs = calls /\ tr = tree /\ n = Last(calls).node
        /\ S = [node : 0 .. Len(tree) - 1, part : Parts]
  OBVIOUS
<1>4. WellParted(i) /\ cs \in Seq(S) /\ cs # <<>> /\ InOrder(i, tr, cs, last) /\ n = Last(cs).node
  BY <1>1, <1>2, <1>3
<1>5. n \in Entries(i) /\ Parted(i, n) /\ Sorted(i, n, At(tr, n), Reached(i, cs))
  BY <1>4, TopKnown
<1>6. {At(tr, n).dir, At(tr, n).next, At(tr, n).previous} \subseteq Entries(i) \cup {FREE}
  <2>1. PICK v, t : v = At(tr, n) /\ t = Reached(i, cs)
    OBVIOUS
  <2>2. {v.dir, v.next, v.previous} \subseteq Entries(i) \cup {FREE}
    BY <2>1, <1>5, LinksKnown
  <2> QED
    BY <2>1, <2>2
<1>7. Frame.node = n /\ Node = At(tr, n)
  BY <1>3 DEF Frame, Node
<1>8. \A m \in Entries(i) : ~Nameless(m)
  BY <1>1, <1>3, EntriesNamed
<1> QED
  BY <1>3, <1>5, <1>6, <1>7, <1>8

(* Such a file is mounted.                                                 *)
LEMMA SoundMounted ==
  OleInv /\ Sound /\ FileInv /\ [OleNext]_oleVars => NotPlain'
<1> SUFFICES ASSUME OleInv, Sound, FileInv, [OleNext]_oleVars PROVE NotPlain'
  OBVIOUS
<1>1. stage # "plain" /\ ret # "PLAIN" /\ image.ole
  BY DEF FileInv, NotPlain, Sound
<1>2. HasTree => SameEntries(image, tree)
  BY DEF FileInv, EntriesKept
<1>3. CASE OpenImage
  BY <1>1, <1>3 DEF OpenImage, Mount, NotPlain
<1>4. CASE ReadDepot
  BY <1>1, <1>4 DEF ReadDepot, NotPlain
<1>5. CASE ReadDepotList
  BY <1>1, <1>5 DEF ReadDepotList, NotPlain
<1>6. CASE DepotRead
  BY <1>1, <1>6 DEF DepotRead, NotPlain
<1>7. CASE FollowChain
  <2>1. stage \in {"sbd", "root"} /\ NextInChain \notin {FREE, FAT}
    BY <1>7, ChainLeads DEF FollowChain
  <2> QED
    BY <2>1, <1>1, <1>7 DEF FollowChain, Mount, NotPlain
<1>8. CASE ReadSmallDepot
  BY <1>1, <1>8 DEF ReadSmallDepot, NotPlain
<1>9. CASE ReadDirectory
  BY <1>1, <1>9 DEF ReadDirectory, NotPlain
<1>10. CASE ReorderDir
  <2>1. stage = "reorder" /\ calls # <<>> /\ HasTree
    BY <1>10 DEF ReorderDir, Reordering, HasTree
  <2>2. Node.dir # FREE => ~Nameless(Node.dir)
    BY <2>1, <1>2, FrameNamed
  <2>3. stage' = stage /\ ret' = ret
    BY <2>2, <1>10, Zenon DEF ReorderDir, Mount
  <2> QED
    BY <2>3, <1>1 DEF NotPlain
<1>11. CASE ReorderNext
  <2>1. stage = "reorder" /\ calls # <<>> /\ HasTree
    BY <1>11 DEF ReorderNext, Reordering, HasTree
  <2>2. Node.next # FREE => ~Nameless(Node.next)
    BY <2>1, <1>2, FrameNamed
  <2>3. stage' = stage /\ ret' = ret
    BY <2>2, <1>11, Zenon DEF ReorderNext, Mount
  <2> QED
    BY <2>3, <1>1 DEF NotPlain
<1>12. CASE ReorderPrevious
  <2>1. stage = "reorder" /\ calls # <<>> /\ HasTree
    BY <1>12 DEF ReorderPrevious, Reordering, HasTree
  <2>2. Node.previous # FREE => ~Nameless(Node.previous)
    BY <2>1, <1>2, FrameNamed
  <2>3. stage' = stage /\ ret' = ret
    BY <2>2, <1>12, Zenon DEF ReorderPrevious, Mount
  <2> QED
    BY <2>3, <1>1 DEF NotPlain
<1>13. CASE BeginSmallFile
  BY <1>1, <1>13 DEF BeginSmallFile, NotPlain
<1>14. CASE CopySmallFile
  BY <1>1, <1>14 DEF CopySmallFile, NotPlain
<1>15. CASE Mounted
  BY <1>1, <1>15 DEF Mounted, NotPlain
<1>16. CASE OtherEntry
  BY <1>1, <1>16 DEF OtherEntry, NotPlain
<1>17. CASE TryBook
  BY <1>1, <1>17 DEF TryBook, NotPlain
<1>18. CASE NoBook
  BY <1>18 DEF NoBook, NotPlain
<1>19. CASE IsStorage
  BY <1>19 DEF IsStorage, NotPlain
<1>20. CASE OpenStream
  BY <1>1, <1>20 DEF OpenStream, NotPlain
<1>21. CASE CopyBlock
  BY <1>1, <1>21 DEF CopyBlock, NotPlain
<1>22. CASE StreamOpen
  BY <1>22 DEF StreamOpen, NotPlain
<1>23. CASE ReadPlain
  BY <1>1, <1>23 DEF ReadPlain
<1>24. CASE UNCHANGED oleVars
  BY <1>1, <1>24 DEF oleVars, NotPlain
<1> QED
  BY <1>3, <1>4, <1>5, <1>6, <1>7, <1>8, <1>9, <1>10, <1>11, <1>12, <1>13, <1>14, <1>15,
     <1>16, <1>17, <1>18, <1>19, <1>20, <1>21, <1>22, <1>23, <1>24 DEF OleNext, Closed

(* The depot of its small blocks is read.                                  *)
LEMMA SmallDepotKept ==
  OleInv /\ Sound /\ FileInv /\ [OleNext]_oleVars => SmallDepotRead'
<1> SUFFICES ASSUME OleInv, Sound, FileInv, [OleNext]_oleVars,
                    stage' \notin {"header", "bbd", "xbbd", "sbd"}
             PROVE  SDepot' = SmallDepot(image)
  BY ImageStays DEF SmallDepotRead, SmallDepot, BlocksIn, BlockIn
<1>1. SmallDepotRead /\ image.ole
  BY DEF FileInv, Sound
<1>2. CASE OpenImage \/ ReadDepot \/ ReadDepotList \/ DepotRead
  BY <1>1, <1>2 DEF OpenImage, Mount, ReadDepot, ReadDepotList, DepotRead
<1>3. CASE FollowChain
  <2>1. stage \in {"sbd", "root"} /\ SDepot' = SDepot
    BY <1>3 DEF FollowChain
  <2>2. stage' = stage
    <3>1. stage' # "plain"
      BY SoundMounted DEF NotPlain
    <3> QED
      BY <3>1, <1>3 DEF FollowChain, Mount, MountFails
  <2> QED
    BY <2>1, <2>2, <1>1 DEF SmallDepotRead
<1>4. CASE ReadSmallDepot
  <2>1. stage = "sbd" /\ Last(chain) = END /\ SDepot' = BlocksIn(image, Front(chain))
    BY <1>4 DEF ReadSmallDepot, BlocksAt
  <2>2. chain = image.chains.sbd
    BY <2>1, ChainLeads DEF Followed
  <2> QED
    BY <2>1, <2>2 DEF SmallDepot
<1>5. CASE ReadDirectory
  BY <1>1, <1>5 DEF ReadDirectory, SmallDepotRead
<1>6. CASE ReorderDir \/ ReorderNext \/ ReorderPrevious
  <2>1. stage = "reorder" /\ SDepot' = SDepot
    BY <1>6 DEF ReorderDir, ReorderNext, ReorderPrevious, Reordering
  <2> QED
    BY <2>1, <1>1 DEF SmallDepotRead
<1>7. CASE BeginSmallFile \/ CopySmallFile \/ Mounted \/ OtherEntry \/ TryBook \/ NoBook
             \/ IsStorage \/ OpenStream \/ CopyBlock \/ StreamOpen \/ ReadPlain
  <2>1. stage \in {"reorder", "sbfile", "locate", "extract", "plain"} /\ SDepot' = SDepot
    BY <1>7 DEF BeginSmallFile, CopySmallFile, Mounted, OtherEntry, TryBook, NoBook, IsStorage,
      OpenStream, CopyBlock, StreamOpen, ReadPlain, mountVars
  <2> QED
    BY <2>1, <1>1 DEF SmallDepotRead
<1>8. CASE UNCHANGED oleVars
  BY <1>1, <1>8 DEF oleVars, mountVars, SmallDepotRead
<1> QED
  BY <1>2, <1>3, <1>4, <1>5, <1>6, <1>7, <1>8 DEF OleNext, Closed

(* What reorder_pps_tree() writes into an entry is a link:                 *)
LEMMA EntryRelinked ==
  ASSUME NEW e, NEW c
  PROVE  SameEntry(e, [e EXCEPT !.next = c]) /\ SameEntry(e, [e EXCEPT !.previous = c])
BY DEF SameEntry

(* the entries stay what they are.                                         *)
LEMMA EntriesRelinked ==
  ASSUME NEW tr, Len(tr) \in Nat, tr = [k \in 1 .. Len(tr) |-> tr[k]],
         NEW l, NEW n, NEW c, NEW tr2, Rehung(tr2, tr, l, n, c)
  PROVE  \A k \in 1 .. Len(tr) : SameEntry(tr[k], tr2[k])
<1> DEFINE hung(e)  == [e EXCEPT !.next = c]
           freed(e) == [e EXCEPT !.previous = FREE]
           tr1      == [tr EXCEPT ![l + 1] = hung(tr[l + 1])]
<1>1. tr2 = [tr1 EXCEPT ![n + 1] = freed(tr1[n + 1])]
  BY DEF Rehung
<1>2. \A e : SameEntry(e, hung(e)) /\ SameEntry(e, freed(e)) /\ SameEntry(e, e)
  BY EntryRelinked DEF SameEntry
<1> HIDE DEF hung, freed
<1>3. tr1 = [k \in 1 .. Len(tr) |-> IF k = l + 1 THEN hung(tr[k]) ELSE tr[k]]
  OBVIOUS
<1>4. tr2 = [k \in 1 .. Len(tr) |-> IF k = n + 1 THEN freed(tr1[k]) ELSE tr1[k]]
  BY <1>1, <1>3
<1> HIDE DEF tr1
<1>5. \A k \in 1 .. Len(tr) : SameEntry(tr[k], tr1[k]) /\ SameEntry(tr1[k], tr2[k])
  <2>1. \A k \in 1 .. Len(tr) : SameEntry(tr[k], tr1[k])
    BY <1>2, <1>3
  <2>2. \A k \in 1 .. Len(tr) : SameEntry(tr1[k], tr2[k])
    BY <1>2, <1>4
  <2> QED
    BY <2>1, <2>2
<1> QED
  BY <1>5 DEF SameEntry

(* Its entries stay what they are.                                         *)
LEMMA SameEntriesKept ==
  OleInv /\ Sound /\ FileInv /\ [OleNext]_oleVars => EntriesKept'
<1> SUFFICES ASSUME OleInv, Sound, FileInv, [OleNext]_oleVars, HasTree'
             PROVE  SameEntries(image, tree')
  BY ImageStays DEF EntriesKept, SameEntries, Entries, EntryOf
<1>1. StageInv /\ image' = image
  BY ImageStays DEF OleInv
<1>2. HasTree => SameEntries(image, tree)
  BY DEF FileInv, EntriesKept
<1>3. CASE OpenImage \/ ReadDepot \/ ReadDepotList \/ DepotRead \/ FollowChain \/ ReadSmallDepot
             \/ ReadPlain
  BY <1>1, <1>3, TreeLaidAside
<1>4. CASE ReadDirectory
  <2>1. stage = "root" /\ Last(chain) = END /\ tree' = BlocksIn(image, Front(chain))
    BY <1>4 DEF ReadDirectory, BlocksAt
  <2>2. chain = image.chains.root
    BY <2>1, ChainLeads DEF Followed
  <2>3. tree' = image.directory
    BY <2>1, <2>2, SoundWritten DEF WorkbookWritten, EntriesWritten
  <2> QED
    BY <2>3 DEF SameEntries, SameEntry, EntryOf
<1>5. CASE ReorderDir \/ ReorderNext
  <2>1. stage = "reorder" /\ tree' = tree
    BY <1>5 DEF ReorderDir, ReorderNext, Reordering
  <2> QED
    BY <2>1, <1>2 DEF HasTree
<1>6. CASE ReorderPrevious
  <2>1. stage = "reorder" /\ calls # <<>>
    BY <1>6 DEF ReorderPrevious, Reordering
  <2>2. HasTree
    BY <2>1 DEF HasTree
  <2>3. tree' = tree \/ Rehung(tree', tree, last, Frame.node, Node.previous)
    BY <1>6, Zenon DEF ReorderPrevious, Rehung, Behind
  <2>4. CASE tree' = tree
    BY <2>2, <2>4, <1>2
  <2>5. CASE Rehung(tree', tree, last, Frame.node, Node.previous)
    <3>1. PICK tr, tr2, l, n, c :
            /\ tr = tree /\ tr2 = tree' /\ l = last /\ n = Frame.node /\ c = Node.previous
      OBVIOUS
    <3>2. Len(tr) \in Nat /\ tr = [k \in 1 .. Len(tr) |-> tr[k]] /\ Rehung(tr2, tr, l, n, c)
      BY <2>2, <2>5, <3>1 DEF OleInv, TreeInv
    <3>3. \A k \in 1 .. Len(tr) : SameEntry(tr[k], tr2[k])
      BY <3>2, EntriesRelinked
    <3>4. ASSUME NEW m \in Entries(image) PROVE SameEntry(EntryOf(image, m), At(tr2, m))
      <4>1. m \in 0 .. Len(tr) - 1
        BY <2>2, <3>1, <1>2, EntriesNamed
      <4>2. m + 1 \in 1 .. Len(tr)
        BY <4>1, <3>2
      <4>3. SameEntry(At(tr, m), At(tr2, m))
        BY <4>2, <3>3 DEF At
      <4>4. SameEntry(EntryOf(image, m), At(tr, m))
        BY <2>2, <3>1, <1>2 DEF SameEntries
      <4> QED
        BY <4>3, <4>4 DEF SameEntry
    <3> QED
      BY <3>1, <3>4 DEF SameEntries
  <2> QED
    BY <2>3, <2>4, <2>5
<1>7. CASE BeginSmallFile
  <2>1. stage = "reorder" /\ tree' = tree
    BY <1>7 DEF BeginSmallFile, mountVars
  <2> QED
    BY <2>1, <1>2 DEF HasTree
<1>8. CASE CopySmallFile \/ Mounted \/ OtherEntry \/ TryBook \/ NoBook \/ IsStorage \/ OpenStream
             \/ CopyBlock \/ StreamOpen
  BY <1>1, <1>2, <1>8, TreeLaidAside DEF TreeAlone
<1>9. CASE UNCHANGED oleVars
  <2>1. tree' = tree /\ stage' = stage /\ ret' = ret
    BY <1>9 DEF oleVars, mountVars
  <2> QED
    BY <2>1, <1>2 DEF HasTree
<1> QED
  BY <1>3, <1>4, <1>5, <1>6, <1>7, <1>8, <1>9 DEF OleNext, Closed

-----------------------------------------------------------------------------
(* A stream in big blocks: copied, it is what was written.                 *)
LEMMA BigCopy ==
  ASSUME NEW i, NEW first, NEW ns, NEW atoms, NEW there,
         InBig(i, first, ns, atoms, there)
  PROVE  /\ \A c : c = Copying(first, Len(atoms)) => CopyRight(c, ns, atoms, there, BigBlock)
         /\ \A d : /\ CopyRight(copy, ns, atoms, there, BigBlock) /\ copy.next # END
                   /\ d = Copied(BlockIn(i, copy.next), BigBlock, i.table)
                   => CopyRight(d, ns, atoms, there, BigBlock)
         /\ CopyRight(copy, ns, atoms, there, BigBlock) /\ copy.next = END
              => AllPlaced(copy.out, atoms, there)
<1>1. PICK bs, table, size :
        bs = [k \in DOMAIN ns |-> BlockIn(i, ns[k])] /\ table = i.table /\ size = BigBlock
  OBVIOUS
<1>2. /\ StreamWritten(first, ns, bs, table, size, atoms, there)
      /\ size \in Nat \ {0} /\ size <= BigBlock
  BY <1>1, BlocksAssumption DEF InBig
<1>3. PICK p : p = copy
  OBVIOUS
<1>4. ASSUME NEW c, c = Copying(first, Len(atoms)) PROVE CopyRight(c, ns, atoms, there, size)
  <2>1. /\ c.next = first /\ c.left = Len(atoms) /\ c.out = <<>>
        /\ c.buffer \in Seq(Range(c.buffer)) /\ Len(c.buffer) = BigBlock
    BY <1>4, CopyingBegins
  <2> QED
    BY <2>1, <1>2, CopyBegins
<1>5. ASSUME CopyRight(p, ns, atoms, there, size), p.next # END,
             NEW d, d = Copied(BlockIn(i, p.next), size, table)
      PROVE  CopyRight(d, ns, atoms, there, size)
  <2>1. \A from : StepsTo(Copied(from, size, table), p, from, size, table)
    BY <1>3, CopiedSteps, Zenon
  <2>2. \A k \in DOMAIN ns : p.next = ns[k] => bs[k] = BlockIn(i, p.next)
    BY <1>1
  <2>3. \A k \in DOMAIN ns : p.next = ns[k] => StepsTo(d, p, bs[k], size, table)
    BY <2>1, <2>2, <1>5, Zenon
  <2> QED
    BY <2>3, <1>2, <1>5, CopyOn
<1>6. CopyRight(p, ns, atoms, there, size) /\ p.next = END => AllPlaced(p.out, atoms, there)
  BY <1>2, CopyEnds
<1> QED
  BY <1>1, <1>3, <1>4, <1>5, <1>6, Zenon

(* So is one in small blocks.                                              *)
LEMMA SmallCopy ==
  ASSUME NEW i, NEW first, NEW ns, NEW atoms, NEW there,
         InSmall(i, first, ns, atoms, there)
  PROVE  /\ \A c : c = Copying(first, Len(atoms)) => CopyRight(c, ns, atoms, there, SmallBlock)
         /\ \A d : /\ CopyRight(copy, ns, atoms, there, SmallBlock) /\ copy.next # END
                   /\ d = Copied(SmallIn(i.small, copy.next), SmallBlock, SmallDepot(i))
                   => CopyRight(d, ns, atoms, there, SmallBlock)
         /\ CopyRight(copy, ns, atoms, there, SmallBlock) /\ copy.next = END
              => AllPlaced(copy.out, atoms, there)
<1>1. PICK bs, table, size :
        bs = [k \in DOMAIN ns |-> SmallIn(i.small, ns[k])] /\ table = SmallDepot(i) /\ size = SmallBlock
  OBVIOUS
<1>2. /\ StreamWritten(first, ns, bs, table, size, atoms, there)
      /\ size \in Nat \ {0} /\ size <= BigBlock
  BY <1>1, BlocksAssumption DEF InSmall
<1>3. PICK p : p = copy
  OBVIOUS
<1>4. ASSUME NEW c, c = Copying(first, Len(atoms)) PROVE CopyRight(c, ns, atoms, there, size)
  <2>1. /\ c.next = first /\ c.left = Len(atoms) /\ c.out = <<>>
        /\ c.buffer \in Seq(Range(c.buffer)) /\ Len(c.buffer) = BigBlock
    BY <1>4, CopyingBegins
  <2> QED
    BY <2>1, <1>2, CopyBegins
<1>5. ASSUME CopyRight(p, ns, atoms, there, size), p.next # END,
             NEW d, d = Copied(SmallIn(i.small, p.next), size, table)
      PROVE  CopyRight(d, ns, atoms, there, size)
  <2>1. \A from : StepsTo(Copied(from, size, table), p, from, size, table)
    BY <1>3, CopiedSteps, Zenon
  <2>2. \A k \in DOMAIN ns : p.next = ns[k] => bs[k] = SmallIn(i.small, p.next)
    BY <1>1
  <2>3. \A k \in DOMAIN ns : p.next = ns[k] => StepsTo(d, p, bs[k], size, table)
    BY <2>1, <2>2, <1>5, Zenon
  <2> QED
    BY <2>3, <1>2, <1>5, CopyOn
<1>6. CopyRight(p, ns, atoms, there, size) /\ p.next = END => AllPlaced(p.out, atoms, there)
  BY <1>2, CopyEnds
<1> QED
  BY <1>1, <1>3, <1>4, <1>5, <1>6, Zenon

(* The small blocks are read into a file of their own.                     *)
LEMMA SmallFileKept ==
  OleInv /\ Sound /\ FileInv /\ [OleNext]_oleVars => SmallFileCopied'
<1> SUFFICES ASSUME OleInv, Sound, FileInv, [OleNext]_oleVars, stage' = "sbfile"
             PROVE  SmallFileRight(image, copy')
  BY ImageStays DEF SmallFileCopied
<1>1. StageInv /\ DepotInv /\ image.ole /\ WorkbookWritten(image)
  BY SoundWritten DEF OleInv, Sound
<1>2. SmallFileCopied
  BY DEF FileInv
<1>3. stage \in {"reorder", "sbfile"} => SDepot = SmallDepot(image) /\ SameEntries(image, tree)
                                         /\ BDepot = image.table
  BY <1>1 DEF FileInv, SmallDepotRead, EntriesKept, HasTree, DepotInv
<1>4. PICK i : i = image
  OBVIOUS
<1>5. SmallDepot(i) # <<>> => InBig(i, At(i.directory, 0).start, i.chains.small, i.small, DOMAIN i.small)
  BY <1>1, <1>4, Zenon DEF WorkbookWritten
<1>6. CASE BeginSmallFile
  <2>1. stage = "reorder" /\ copy' = IF SDepot = <<>> THEN NoCopy ELSE Copying(Root.start, Root.size)
    BY <1>6 DEF BeginSmallFile
  <2>2. SDepot = SmallDepot(i) /\ SameEntry(EntryOf(i, 0), Root)
    BY <2>1, <1>3, <1>4 DEF SameEntries, Entries, Root
  <2>3. CASE SmallDepot(i) = <<>>
    <3>1. copy' = NoCopy
      BY <2>1, <2>2, <2>3
    <3> QED
      BY <3>1, <2>3, <1>4 DEF NoCopy, SmallFileRight
  <2>4. CASE SmallDepot(i) # <<>>
    <3>1. copy' = Copying(Root.start, Root.size)
      BY <2>1, <2>2, <2>4
    <3>2. Root.start = At(i.directory, 0).start /\ Root.size = Len(i.small)
      BY <2>2, <1>1, <1>4 DEF SameEntry, EntryOf, WorkbookWritten
    <3>3. PICK c : c = copy'
      OBVIOUS
    <3>4. c = Copying(At(i.directory, 0).start, Len(i.small))
      BY <3>1, <3>2, <3>3, Zenon
    <3>5. PICK first, ns, atoms, there :
      /\ first = At(i.directory, 0).start /\ ns = i.chains.small
      /\ atoms = i.small /\ there = DOMAIN i.small
      OBVIOUS
    <3>6. InBig(i, first, ns, atoms, there) /\ c = Copying(first, Len(atoms))
      BY <3>4, <3>5, <2>4, <1>5, Zenon
    <3>7. CopyRight(c, ns, atoms, there, BigBlock)
      BY <3>6, BigCopy, Zenon
    <3> QED
      BY <3>3, <3>5, <3>7, <2>4, <1>4, Zenon DEF SmallFileRight
  <2> QED
    BY <2>3, <2>4
<1>7. CASE CopySmallFile
  <2>1. stage = "sbfile" /\ copy.next # END /\ copy' = Copied(BlockIn(image, copy.next), BigBlock, BDepot)
    BY <1>7 DEF CopySmallFile, BlockAt
  <2>2. SmallDepot(i) # <<>> /\ CopyRight(copy, i.chains.small, i.small, DOMAIN i.small, BigBlock)
    BY <2>1, <1>2, <1>4, Zenon DEF SmallFileCopied, SmallFileRight
  <2>3. PICK d : d = copy'
    OBVIOUS
  <2>4. d = Copied(BlockIn(i, copy.next), BigBlock, i.table)
    BY <2>1, <2>3, <1>3, <1>4
  <2>5. PICK first, ns, atoms, there :
    /\ first = At(i.directory, 0).start /\ ns = i.chains.small
    /\ atoms = i.small /\ there = DOMAIN i.small
    OBVIOUS
  <2>6. InBig(i, first, ns, atoms, there) /\ CopyRight(copy, ns, atoms, there, BigBlock)
    BY <2>2, <2>5, <1>5, Zenon
  <2>7. CopyRight(d, ns, atoms, there, BigBlock)
    BY <2>1, <2>4, <2>6, BigCopy, Zenon
  <2> QED
    BY <2>2, <2>3, <2>5, <2>7, <1>4, Zenon DEF SmallFileRight
<1>8. CASE UNCHANGED oleVars
  <2>1. copy' = copy /\ stage' = stage
    BY <1>8 DEF oleVars
  <2> QED
    BY <2>1, <1>2 DEF SmallFileCopied
<1>9. CASE OpenImage \/ ReadDepot \/ ReadDepotList \/ DepotRead \/ FollowChain \/ ReadSmallDepot
             \/ ReadDirectory \/ ReorderDir \/ ReorderNext \/ ReorderPrevious
  BY <1>9 DEF OpenImage, ReadDepot, ReadDepotList, DepotRead, FollowChain, ReadSmallDepot,
    ReadDirectory, ReorderDir, ReorderNext, ReorderPrevious, Reordering, Mount, MountFails
<1>10. CASE Mounted \/ OtherEntry \/ TryBook \/ NoBook \/ IsStorage \/ OpenStream \/ CopyBlock
              \/ StreamOpen \/ ReadPlain
  BY <1>10 DEF Mounted, OtherEntry, TryBook, NoBook, IsStorage, OpenStream, CopyBlock, StreamOpen,
    ReadPlain
<1> QED
  BY <1>6, <1>7, <1>8, <1>9, <1>10 DEF OleNext, Closed

(* Where everything is there, it is what was written.                      *)
LEMMA PlacedWhole ==
  ASSUME NEW out, NEW atoms, AllPlaced(out, atoms, DOMAIN atoms)
  PROVE  out = atoms
<1>1. PICK S : S = Range(out) \cup Range(atoms)
  OBVIOUS
<1>2. out \in Seq(S) /\ atoms \in Seq(S) /\ Len(out) = Len(atoms)
      /\ Placed(out, atoms, DOMAIN atoms)
  BY <1>1 DEF AllPlaced
<1>3. DOMAIN atoms = 1 .. Len(atoms) /\ Len(atoms) \in Nat
  BY <1>2, LenProperties
<1>4. \A k \in 1 .. Len(out) : out[k] = atoms[k]
  BY <1>2, <1>3 DEF Placed
<1> QED
  BY <1>2, <1>4, SeqEqual

(* The file of small blocks is what was written.                           *)
LEMMA SmallFileReadKept ==
  OleInv /\ Sound /\ FileInv /\ [OleNext]_oleVars => SmallFileRead'
<1> SUFFICES ASSUME OleInv, Sound, FileInv, [OleNext]_oleVars, stage' \in {"locate", "extract"}
             PROVE  sbfile' = image.small
  BY ImageStays DEF SmallFileRead
<1>1. SmallFileRead /\ SmallFileCopied
  BY DEF FileInv
<1>2. CASE Mounted
  <2>1. stage = "sbfile" /\ copy.next = END /\ sbfile' = copy.out
    BY <1>2 DEF Mounted
  <2>2. PICK i : i = image
    OBVIOUS
  <2>3. WorkbookWritten(i) /\ SmallFileRight(i, copy)
    BY <2>1, <2>2, <1>1, SoundWritten DEF SmallFileCopied
  <2>4. CASE SmallDepot(i) = <<>>
    <3>1. copy.out = <<>>
      BY <2>3, <2>4, Zenon DEF SmallFileRight
    <3>2. i.small = <<>>
      BY <2>3, <2>4, Zenon DEF WorkbookWritten
    <3> QED
      BY <3>1, <3>2, <2>1, <2>2
  <2>5. CASE SmallDepot(i) # <<>>
    <3>1. PICK first, ns, atoms, there :
      /\ first = At(i.directory, 0).start /\ ns = i.chains.small
      /\ atoms = i.small /\ there = DOMAIN i.small
      OBVIOUS
    <3>2. InBig(i, first, ns, atoms, there)
      BY <3>1, <2>3, <2>5, Zenon DEF WorkbookWritten
    <3>3. CopyRight(copy, ns, atoms, there, BigBlock)
      BY <3>1, <2>3, <2>5, Zenon DEF SmallFileRight
    <3>4. CopyRight(copy, ns, atoms, there, BigBlock) /\ copy.next = END
              => AllPlaced(copy.out, atoms, there)
      BY <3>2, BigCopy
    <3>5. copy.out = atoms
      BY <3>1, <3>3, <3>4, <2>1, PlacedWhole
    <3> QED
      BY <3>1, <3>5, <2>1, <2>2
  <2> QED
    BY <2>4, <2>5
<1>3. CASE OtherEntry \/ TryBook \/ NoBook \/ IsStorage \/ OpenStream \/ CopyBlock
             \/ StreamOpen \/ ReadPlain
  <2>1. sbfile' = sbfile /\ stage \in {"locate", "extract", "plain"}
    BY <1>3 DEF OtherEntry, TryBook, NoBook, IsStorage, OpenStream, CopyBlock, StreamOpen,
      ReadPlain, mountVars
  <2>2. stage # "plain"
    BY DEF FileInv, NotPlain
  <2> QED
    BY <2>1, <2>2, <1>1 DEF SmallFileRead
<1>4. CASE UNCHANGED oleVars
  <2>1. sbfile' = sbfile /\ stage' = stage
    BY <1>4 DEF oleVars, mountVars
  <2> QED
    BY <2>1, <1>1 DEF SmallFileRead
<1>5. CASE OpenImage \/ ReadDepot \/ ReadDepotList \/ DepotRead \/ FollowChain \/ ReadSmallDepot
             \/ ReadDirectory \/ ReorderDir \/ ReorderNext \/ ReorderPrevious
  BY <1>5 DEF OpenImage, ReadDepot, ReadDepotList, DepotRead, FollowChain, ReadSmallDepot,
    ReadDirectory, ReorderDir, ReorderNext, ReorderPrevious, Reordering, Mount, MountFails
<1>6. CASE BeginSmallFile \/ CopySmallFile
  BY <1>6 DEF BeginSmallFile, CopySmallFile
<1> QED
  BY <1>2, <1>3, <1>4, <1>5, <1>6 DEF OleNext, Closed

(* The root's entries are looked at in the order of their ranks: at first  *)
(* none is behind the search,                                              *)
LEMMA SearchBegins ==
  ASSUME NEW i, WellParted(i), 0 \in DOMAIN i.children, NEW name
  PROVE  Ahead(i, EntryOf(i, 0).dir, name)
<1> DEFINE first == EntryOf(i, 0).dir
<1>1. /\ Parted(i, 0) /\ Rank(i, 0) = 1 /\ i.children[0] \subseteq Entries(i) \ {0}
      /\ 0 \in Entries(i) /\ \A n \in Entries(i) : Parted(i, n)
      /\ \A n, m \in Entries(i) : Rank(i, n) = Rank(i, m) => n = m
  BY DEF WellParted
<1>2. CASE first = FREE
  <2>1. i.children[0] = {}
    BY <1>2 DEF WellParted
  <2> QED
    BY <2>1, <1>2 DEF Ahead
<1>3. CASE first # FREE
  <2>1. first \in i.children[0] /\ Rank(i, first) = 2
    BY <1>1, <1>3 DEF Parted
  <2>2. ASSUME NEW n \in i.children[0] PROVE Rank(i, first) <= Rank(i, n)
    <3>1. n \in Entries(i) /\ n # 0
      BY <1>1
    <3>2. Rank(i, n) \in Nat /\ 1 <= Rank(i, n) /\ Rank(i, n) # 1
      BY <3>1, <1>1 DEF Parted
    <3> HIDE DEF first
    <3> QED
      BY <3>2, <2>1
  <2> HIDE DEF first
  <2>3. Ahead(i, first, name)
    BY <1>3, <2>1, <2>2, Zenon DEF Ahead
  <2> QED
    BY <2>3 DEF first
<1> QED
  BY <1>2, <1>3

(* and none when it goes on from an entry of another name.                 *)
LEMMA SearchGoes ==
  ASSUME NEW i, WellParted(i), 0 \in DOMAIN i.children, NEW name,
         NEW e, e # FREE, Ahead(i, e, name), EntryOf(i, e).name # name,
         NEW tr, LinkRight(i, tr, 0, e), NEW v, v = At(tr, e).next
  PROVE  Ahead(i, v, name)
<1>1. e \in i.children[0]
  BY DEF Ahead
<1>2. /\ i.children[0] \subseteq Entries(i) /\ \A n \in Entries(i) : Rank(i, n) \in Nat
      /\ \A n, m \in Entries(i) : Rank(i, n) = Rank(i, m) => n = m
  BY DEF WellParted, Parted
<1>3. ASSUME NEW n \in i.children[0], EntryOf(i, n).name = name PROVE Rank(i, e) < Rank(i, n)
  <2>1. n # e
    BY <1>3
  <2>2. Rank(i, e) <= Rank(i, n)
    BY <1>3, Zenon DEF Ahead
  <2>3. Rank(i, e) # Rank(i, n)
    BY <2>1, <1>1, <1>2
  <2>4. Rank(i, e) \in Nat /\ Rank(i, n) \in Nat
    BY <1>1, <1>2
  <2> QED
    BY <2>2, <2>3, <2>4
<1>4. v \in i.children[0] \cup {FREE}
  BY DEF LinkRight
<1>5. ASSUME NEW n \in i.children[0], EntryOf(i, n).name = name
      PROVE  v # FREE /\ Rank(i, v) <= Rank(i, n)
  <2>1. Rank(i, e) < Rank(i, n) /\ n \in Entries(i)
    BY <1>2, <1>3, <1>5
  <2>2. v # FREE
    BY <2>1, Zenon DEF LinkRight
  <2>3. Comes(i, e, v)
    BY <2>2, Zenon DEF LinkRight
  <2>4. Siblings(i, e, n)
    BY <1>1 DEF Siblings
  <2>5. Rank(i, v) <= Rank(i, n)
    BY <2>1, <2>3, <2>4, Zenon DEF Comes
  <2> QED
    BY <2>2, <2>5
<1> QED
  BY <1>4, <1>5, Zenon DEF Ahead

(* Where the search ends: at an entry of the name,                         *)
LEMMA FoundWanted ==
  ASSUME NEW i, NEW e, NEW name, SearchRight(i, e, name), e # FREE, EntryOf(i, e).name = name
  PROVE  e \in i.children[0] /\ e \in Wanted(i)
<1> DEFINE named(x) == {n \in i.children[0] : At(i.directory, n).name = x}
<1>1. e \in i.children[0] /\ At(i.directory, e).name = name
  BY DEF SearchRight, Ahead, EntryOf
<1>2. e \in named(name)
  BY <1>1
<1>3. name = "Workbook" \/ name = "Book"
  BY DEF SearchRight
<1>4. name = "Book" => named("Workbook") = {}
  BY Zenon DEF SearchRight, EntryOf
<1>5. Wanted(i) = IF named("Workbook") # {} THEN named("Workbook") ELSE named("Book")
  BY Zenon DEF Wanted
<1> HIDE DEF named
<1>6. CASE name = "Workbook"
  <2>1. named("Workbook") # {} /\ e \in named("Workbook")
    BY <1>2, <1>6, Zenon
  <2> QED
    BY <2>1, <1>1, <1>5, Zenon
<1>7. CASE name = "Book"
  <2>1. e \in named("Book")
    BY <1>2, <1>7, Zenon
  <2> QED
    BY <2>1, <1>1, <1>4, <1>5, <1>7, Zenon
<1> QED
  BY <1>3, <1>6, <1>7

(* or nowhere, and there is none.                                          *)
LEMMA NoneWanted ==
  ASSUME NEW i, NEW name, name = "Book", SearchRight(i, FREE, name)
  PROVE  Wanted(i) = {}
<1> DEFINE named(x) == {n \in i.children[0] : At(i.directory, n).name = x}
<1>1. Ahead(i, FREE, name)
  BY Zenon DEF SearchRight
<1>2. \A n \in i.children[0] : At(i.directory, n).name # name
  BY <1>1, Zenon DEF Ahead, EntryOf
<1>3. named("Book") = {}
  BY <1>2, Zenon
<1>4. named("Workbook") = {}
  BY Zenon DEF SearchRight, EntryOf
<1>5. Wanted(i) = IF named("Workbook") # {} THEN named("Workbook") ELSE named("Book")
  BY Zenon DEF Wanted
<1> HIDE DEF named
<1> QED
  BY <1>3, <1>4, <1>5, Zenon

(* The root's list, when the tree has been sorted.                         *)
LEMMA RootSorted ==
  OleInv /\ Sound /\ HasTree /\ stage # "reorder" =>
    /\ Root.dir = EntryOf(image, 0).dir
    /\ \A e \in image.children[0] : LinkRight(image, tree, 0, e)
<1> SUFFICES ASSUME OleInv, Sound, HasTree, stage # "reorder"
             PROVE  /\ Root.dir = EntryOf(image, 0).dir
                    /\ \A e \in image.children[0] : LinkRight(image, tree, 0, e)
  OBVIOUS
<1>1. WellParted(image) /\ 0 \in DOMAIN image.children
  BY SoundWritten
<1>2. InOrder(image, tree, <<>>, last)
  BY <1>1 DEF OleInv, TreeInv, SortInv
<1>3. PICK i, tr, l, d : i = image /\ tr = tree /\ l = last /\ d = 0
  OBVIOUS
<1>4. WellParted(i) /\ d \in DOMAIN i.children /\ InOrder(i, tr, <<>>, l)
  BY <1>1, <1>2, <1>3
<1>5. \A e \in i.children[d] : LinkRight(i, tr, d, e)
  BY <1>4, LinksRight
<1>6. At(tr, 0).dir = EntryOf(i, 0).dir
  BY <1>4 DEF InOrder, Sorted, WellParted
<1> QED
  BY <1>3, <1>5, <1>6, Zenon DEF Root

(* The search goes as it should.                                           *)
LEMMA SearchKept ==
  OleInv /\ Sound /\ FileInv /\ [OleNext]_oleVars => Searched'
<1> SUFFICES ASSUME OleInv, Sound, FileInv, [OleNext]_oleVars, stage' = "locate"
             PROVE  SearchRight(image, entry', filename')
  BY ImageStays DEF Searched
<1>1. Searched /\ (HasTree => SameEntries(image, tree))
  BY DEF FileInv, EntriesKept
<1>2. WellParted(image) /\ 0 \in DOMAIN image.children
  BY SoundWritten
<1>3. PICK i : i = image
  OBVIOUS
<1>4. \A name : Ahead(i, EntryOf(i, 0).dir, name)
  BY <1>2, <1>3, SearchBegins
<1>5. CASE Mounted
  <2>1. stage = "sbfile" /\ filename' = "Workbook" /\ entry' = Root.dir
    BY <1>5 DEF Mounted
  <2>2. entry' = EntryOf(i, 0).dir
    BY <2>1, <1>3, RootSorted DEF HasTree
  <2>3. PICK name : name = "Workbook"
    OBVIOUS
  <2>4. name \in {"Workbook", "Book"} /\ name # "Book"
    BY <2>3
  <2>5. SearchRight(i, EntryOf(i, 0).dir, name)
    BY <2>4, <1>4, Zenon DEF SearchRight
  <2> QED
    BY <2>1, <2>2, <2>3, <2>5, <1>3, Zenon
<1>6. CASE OtherEntry
  <2>1. stage = "locate" /\ entry # FREE /\ At(tree, entry).name # filename
        /\ entry' = At(tree, entry).next /\ filename' = filename
    BY <1>6 DEF OtherEntry, Visited
  <2>2. PICK e, name, tr, v : e = entry /\ name = filename /\ tr = tree /\ v = entry'
    OBVIOUS
  <2>3. SearchRight(i, e, name) /\ e # FREE /\ v = At(tr, e).next
    BY <2>1, <2>2, <1>1, <1>3 DEF Searched
  <2>4. Ahead(i, e, name) /\ e \in i.children[0]
    BY <2>3, Zenon DEF SearchRight, Ahead
  <2>5. LinkRight(i, tr, 0, e)
    BY <2>1, <2>2, <2>4, <1>3, RootSorted DEF HasTree
  <2>6. EntryOf(i, e).name # name
    <3>1. e \in Entries(i)
      BY <2>4, <1>2, <1>3 DEF WellParted
    <3>2. SameEntry(EntryOf(i, e), At(tr, e))
      BY <3>1, <2>1, <2>2, <1>1, <1>3 DEF SameEntries, HasTree
    <3>3. At(tr, e).name = EntryOf(i, e).name
      BY <3>2, Zenon DEF SameEntry
    <3> QED
      BY <3>3, <2>1, <2>2, Zenon
  <2>7. WellParted(i) /\ 0 \in DOMAIN i.children
    BY <1>2, <1>3
  <2>8. Ahead(i, v, name)
    BY <2>3, <2>4, <2>5, <2>6, <2>7, SearchGoes
  <2>9. SearchRight(i, v, name)
    BY <2>3, <2>8, Zenon DEF SearchRight
  <2> QED
    BY <2>1, <2>2, <2>9, <1>3, Zenon
<1>7. CASE TryBook
  <2>1. stage = "locate" /\ entry = FREE /\ filename = "Workbook" /\ filename' = "Book"
        /\ entry' = Root.dir
    BY <1>7 DEF TryBook
  <2>2. entry' = EntryOf(i, 0).dir
    BY <2>1, <1>3, RootSorted DEF HasTree
  <2>3. Ahead(i, FREE, "Workbook")
    BY <2>1, <1>1, <1>3, Zenon DEF Searched, SearchRight
  <2>4. \A n \in i.children[0] : EntryOf(i, n).name # "Workbook"
    BY <2>3, Zenon DEF Ahead
  <2>5. PICK name : name = "Book"
    OBVIOUS
  <2>6. name \in {"Workbook", "Book"}
    BY <2>5
  <2>7. SearchRight(i, EntryOf(i, 0).dir, name)
    BY <2>4, <2>6, <1>4, Zenon DEF SearchRight
  <2> QED
    BY <2>1, <2>2, <2>5, <2>7, <1>3, Zenon
<1>8. CASE UNCHANGED oleVars
  <2>1. entry' = entry /\ filename' = filename /\ stage' = stage
    BY <1>8 DEF oleVars
  <2> QED
    BY <2>1, <1>1 DEF Searched
<1>9. CASE OpenImage \/ ReadDepot \/ ReadDepotList \/ DepotRead \/ FollowChain \/ ReadSmallDepot
             \/ ReadDirectory \/ ReorderDir \/ ReorderNext \/ ReorderPrevious
  BY <1>9 DEF OpenImage, ReadDepot, ReadDepotList, DepotRead, FollowChain, ReadSmallDepot,
    ReadDirectory, ReorderDir, ReorderNext, ReorderPrevious, Reordering, Mount, MountFails
<1>10. CASE BeginSmallFile \/ CopySmallFile \/ NoBook \/ IsStorage \/ OpenStream \/ CopyBlock
              \/ StreamOpen \/ ReadPlain
  BY <1>10 DEF BeginSmallFile, CopySmallFile, NoBook, IsStorage, OpenStream, CopyBlock, StreamOpen,
    ReadPlain
<1> QED
  BY <1>5, <1>6, <1>7, <1>8, <1>9, <1>10 DEF OleNext, Closed

(* What is written of the entry that is wanted.                            *)
LEMMA StreamWanted ==
  ASSUME NEW i, WorkbookWritten(i), NEW n \in Wanted(i), NEW e, e = EntryOf(i, n)
  PROVE  /\ e.type # 2 => i.stream = "none"
         /\ e.type = 2 => /\ i.stream = e.name /\ e.size = Len(i.content)
                          /\ IsBig(e.size) => InBig(i, e.start, i.chains.stream, i.content, i.present)
                          /\ ~IsBig(e.size) => InSmall(i, e.start, i.chains.stream, i.content, i.present)
<1>1. LET e1 == At(i.directory, n) IN
      IF e1.type # 2 THEN i.stream = "none"
      ELSE /\ i.stream = e1.name /\ e1.size = Len(i.content)
           /\ IF e1.size >= Cutoff THEN InBig(i, e1.start, i.chains.stream, i.content, i.present)
              ELSE InSmall(i, e1.start, i.chains.stream, i.content, i.present)
  BY Zenon DEF WorkbookWritten
<1>2. IF e.type # 2 THEN i.stream = "none"
      ELSE /\ i.stream = e.name /\ e.size = Len(i.content)
           /\ IF e.size >= Cutoff THEN InBig(i, e.start, i.chains.stream, i.content, i.present)
              ELSE InSmall(i, e.start, i.chains.stream, i.content, i.present)
  BY <1>1, Zenon DEF EntryOf
<1> QED
  BY <1>2, Zenon DEF IsBig

(* The entry that is visited is what it was written as.                    *)
LEMMA VisitedSame ==
  OleInv /\ Sound /\ FileInv /\ stage \in {"locate", "extract"} /\ entry \in image.children[0] =>
    SameEntry(EntryOf(image, entry), Visited)
<1> SUFFICES ASSUME OleInv, Sound, FileInv, stage \in {"locate", "extract"},
                    entry \in image.children[0]
             PROVE  SameEntry(EntryOf(image, entry), Visited)
  OBVIOUS
<1>1. SameEntries(image, tree)
  BY DEF FileInv, EntriesKept, HasTree
<1>2. entry \in Entries(image)
  BY SoundWritten DEF WellParted
<1> QED
  BY <1>1, <1>2 DEF SameEntries, Visited

(* The stream is copied as it should be,                                   *)
LEMMA StreamKept ==
  OleInv /\ Sound /\ FileInv /\ [OleNext]_oleVars => StreamCopied'
<1> SUFFICES ASSUME OleInv, Sound, FileInv, [OleNext]_oleVars, stage' = "extract"
             PROVE  StreamFound(image, entry', filename') /\ StreamRight(image, entry', copy')
  BY ImageStays DEF StreamCopied
<1>1. Searched /\ StreamCopied
  BY DEF FileInv
<1>2. /\ StageInv /\ DepotInv /\ image.ole /\ WorkbookWritten(image)
  BY SoundWritten DEF OleInv, Sound
<1>3. PICK i : i = image
  OBVIOUS
<1>4. PICK ns, atoms, there :
        ns = i.chains.stream /\ atoms = i.content /\ there = i.present
  OBVIOUS
<1>5. WorkbookWritten(i)
  BY <1>2, <1>3
<1>6. CASE OpenStream
  <2>1. /\ stage = "locate" /\ entry # FREE /\ Visited.name = filename /\ Visited.type = 2
        /\ copy' = Copying(Visited.start, Visited.size) /\ entry' = entry /\ filename' = filename
    BY <1>6 DEF OpenStream
  <2>2. PICK n, name, c : n = entry /\ name = filename /\ c = copy'
    OBVIOUS
  <2>3. SearchRight(i, n, name)
    BY <2>1, <2>2, <1>1, <1>3 DEF Searched
  <2>4. n \in i.children[0]
    BY <2>1, <2>2, <2>3, Zenon DEF SearchRight, Ahead
  <2>5. PICK e : e = EntryOf(i, n)
    OBVIOUS
  <2>6. e.name = name /\ e.type = 2 /\ c = Copying(e.start, e.size)
    <3>1. SameEntry(e, Visited)
      BY <2>1, <2>2, <2>4, <2>5, <1>3, VisitedSame
    <3> QED
      BY <3>1, <2>1, <2>2, Zenon DEF SameEntry
  <2>7. n \in Wanted(i)
    BY <2>1, <2>2, <2>3, <2>5, <2>6, FoundWanted
  <2>8. /\ e.size = Len(atoms)
        /\ IsBig(e.size) => InBig(i, e.start, ns, atoms, there)
        /\ ~IsBig(e.size) => InSmall(i, e.start, ns, atoms, there)
    BY <2>5, <2>6, <2>7, <1>4, <1>5, StreamWanted
  <2>9. PICK first : first = e.start /\ c = Copying(first, Len(atoms))
    BY <2>6, <2>8
  <2>10. IsBig(e.size) => CopyRight(c, ns, atoms, there, BigBlock)
    BY <2>8, <2>9, BigCopy
  <2>11. ~IsBig(e.size) => CopyRight(c, ns, atoms, there, SmallBlock)
    BY <2>8, <2>9, SmallCopy
  <2>12. StreamRight(i, n, c)
    BY <2>5, <2>10, <2>11, <1>4, Zenon DEF StreamRight
  <2>13. StreamFound(i, n, name)
    BY <2>5, <2>6, <2>7, Zenon DEF StreamFound
  <2> QED
    BY <2>1, <2>2, <2>12, <2>13, <1>3, Zenon
<1>7. CASE CopyBlock
  <2>1. /\ stage = "extract" /\ copy.next # END /\ entry' = entry /\ filename' = filename
        /\ sbfile' = sbfile
        /\ copy' = IF IsBig(Visited.size) THEN Copied(BlockIn(image, copy.next), BigBlock, BDepot)
                   ELSE Copied(SmallIn(sbfile, copy.next), SmallBlock, SDepot)
    BY <1>7 DEF CopyBlock, BlockAt, SmallBlockAt, mountVars
  <2>2. PICK n, name, d : n = entry /\ name = filename /\ d = copy'
    OBVIOUS
  <2>3. StreamFound(i, n, name) /\ StreamRight(i, n, copy)
    BY <2>1, <2>2, <1>1, <1>3 DEF StreamCopied
  <2>4. PICK e : e = EntryOf(i, n)
    OBVIOUS
  <2>5. n \in Wanted(i) /\ n \in i.children[0] /\ e.type = 2
    BY <2>3, <2>4 DEF StreamFound, Wanted
  <2>6. /\ IsBig(e.size) => InBig(i, e.start, ns, atoms, there)
        /\ ~IsBig(e.size) => InSmall(i, e.start, ns, atoms, there)
    BY <2>4, <2>5, <1>4, <1>5, StreamWanted
  <2>7. BDepot = i.table /\ SDepot = SmallDepot(i) /\ sbfile = i.small
    BY <2>1, <1>2, <1>3 DEF DepotInv, FileInv, SmallDepotRead, SmallFileRead
  <2>8. Visited.size = e.size
    <3>1. SameEntry(e, Visited)
      BY <2>1, <2>2, <2>4, <2>5, <1>3, VisitedSame
    <3> QED
      BY <3>1, Zenon DEF SameEntry
  <2>9. CASE IsBig(e.size)
    <3>1. d = Copied(BlockIn(i, copy.next), BigBlock, i.table)
      BY <2>1, <2>2, <2>7, <2>8, <2>9, <1>3, Zenon
    <3>2. CopyRight(copy, ns, atoms, there, BigBlock)
      BY <2>3, <2>4, <2>9, <1>4, Zenon DEF StreamRight
    <3>3. PICK first : first = e.start /\ InBig(i, first, ns, atoms, there)
      BY <2>6, <2>9
    <3>4. CopyRight(d, ns, atoms, there, BigBlock)
      BY <3>1, <3>2, <3>3, <2>1, BigCopy, Zenon
    <3> QED
      BY <3>4, <2>4, <2>9, <1>4, <2>3, <2>1, <2>2, <1>3, Zenon DEF StreamRight
  <2>10. CASE ~IsBig(e.size)
    <3>1. d = Copied(SmallIn(i.small, copy.next), SmallBlock, SmallDepot(i))
      BY <2>1, <2>2, <2>7, <2>8, <2>10, <1>3, Zenon
    <3>2. CopyRight(copy, ns, atoms, there, SmallBlock)
      BY <2>3, <2>4, <2>10, <1>4, Zenon DEF StreamRight
    <3>3. PICK first : first = e.start /\ InSmall(i, first, ns, atoms, there)
      BY <2>6, <2>10
    <3>4. CopyRight(d, ns, atoms, there, SmallBlock)
      BY <3>1, <3>2, <3>3, <2>1, SmallCopy, Zenon
    <3> QED
      BY <3>4, <2>4, <2>10, <1>4, <2>3, <2>1, <2>2, <1>3, Zenon DEF StreamRight
  <2> QED
    BY <2>9, <2>10
<1>8. CASE UNCHANGED oleVars
  <2>1. entry' = entry /\ filename' = filename /\ stage' = stage /\ copy' = copy
    BY <1>8 DEF oleVars
  <2> QED
    BY <2>1, <1>1 DEF StreamCopied
<1>9. CASE OpenImage \/ ReadDepot \/ ReadDepotList \/ DepotRead \/ FollowChain \/ ReadSmallDepot
             \/ ReadDirectory \/ ReorderDir \/ ReorderNext \/ ReorderPrevious
  BY <1>9 DEF OpenImage, ReadDepot, ReadDepotList, DepotRead, FollowChain, ReadSmallDepot,
    ReadDirectory, ReorderDir, ReorderNext, ReorderPrevious, Reordering, Mount, MountFails
<1>10. CASE BeginSmallFile \/ CopySmallFile \/ Mounted \/ OtherEntry \/ TryBook \/ NoBook
              \/ IsStorage \/ StreamOpen \/ ReadPlain
  BY <1>10 DEF BeginSmallFile, CopySmallFile, Mounted, OtherEntry, TryBook, NoBook, IsStorage,
    StreamOpen, ReadPlain
<1> QED
  BY <1>6, <1>7, <1>8, <1>9, <1>10 DEF OleNext, Closed

(* and when there is an answer, it is the right one.                       *)
LEMMA AnswerRight ==
  OleInv /\ Sound /\ FileInv /\ [OleNext]_oleVars => Answered'
<1> SUFFICES ASSUME OleInv, Sound, FileInv, [OleNext]_oleVars, stage' = "done"
             PROVE  \/ image.stream = "none" /\ ret' = "BADFILE"
                    \/ /\ ret' = "OPEN" /\ filename' = image.stream
                       /\ AllPlaced(copy'.out, image.content, image.present)
  BY ImageStays DEF Answered
<1>1. Searched /\ StreamCopied /\ Answered /\ stage # "plain"
  BY DEF FileInv, NotPlain
<1>2. WorkbookWritten(image)
  BY SoundWritten
<1>3. PICK i : i = image
  OBVIOUS
<1>4. WorkbookWritten(i)
  BY <1>2, <1>3
<1>5. CASE NoBook
  <2>1. stage = "locate" /\ entry = FREE /\ filename = "Book" /\ ret' = "BADFILE"
    BY <1>5 DEF NoBook
  <2>2. PICK name : name = "Book"
    OBVIOUS
  <2>3. SearchRight(i, FREE, name)
    BY <2>1, <2>2, <1>1, <1>3 DEF Searched
  <2>4. Wanted(i) = {}
    BY <2>2, <2>3, NoneWanted
  <2>5. i.stream = "none"
    BY <2>4, <1>4, Zenon DEF WorkbookWritten
  <2> QED
    BY <2>1, <2>5, <1>3
<1>6. CASE IsStorage
  <2>1. stage = "locate" /\ entry # FREE /\ Visited.name = filename /\ Visited.type # 2
        /\ ret' = "BADFILE"
    BY <1>6 DEF IsStorage
  <2>2. PICK n, name : n = entry /\ name = filename
    OBVIOUS
  <2>3. SearchRight(i, n, name)
    BY <2>1, <2>2, <1>1, <1>3 DEF Searched
  <2>4. n \in i.children[0]
    BY <2>1, <2>2, <2>3, Zenon DEF SearchRight, Ahead
  <2>5. PICK e : e = EntryOf(i, n)
    OBVIOUS
  <2>6. e.name = name /\ e.type # 2
    <3>1. SameEntry(e, Visited)
      BY <2>1, <2>2, <2>4, <2>5, <1>3, VisitedSame
    <3> QED
      BY <3>1, <2>1, <2>2, Zenon DEF SameEntry
  <2>7. n \in Wanted(i)
    BY <2>1, <2>2, <2>3, <2>5, <2>6, FoundWanted
  <2>8. i.stream = "none"
    BY <2>5, <2>6, <2>7, <1>4, StreamWanted
  <2> QED
    BY <2>1, <2>8, <1>3
<1>7. CASE StreamOpen
  <2>1. stage = "extract" /\ copy.next = END /\ ret' = "OPEN" /\ filename' = filename /\ copy' = copy
    BY <1>7 DEF StreamOpen
  <2>2. PICK n, name : n = entry /\ name = filename
    OBVIOUS
  <2>3. StreamFound(i, n, name) /\ StreamRight(i, n, copy)
    BY <2>1, <2>2, <1>1, <1>3 DEF StreamCopied
  <2>4. PICK e, ns, atoms, there :
          /\ e = EntryOf(i, n) /\ ns = i.chains.stream
          /\ atoms = i.content /\ there = i.present
    OBVIOUS
  <2>5. n \in Wanted(i) /\ e.type = 2 /\ e.name = name
    BY <2>3, <2>4 DEF StreamFound
  <2>6. /\ i.stream = e.name
        /\ IsBig(e.size) => InBig(i, e.start, ns, atoms, there)
        /\ ~IsBig(e.size) => InSmall(i, e.start, ns, atoms, there)
    BY <2>4, <2>5, <1>4, StreamWanted
  <2>7. PICK first : first = e.start
    OBVIOUS
  <2>8. AllPlaced(copy.out, atoms, there)
    <3>1. CASE IsBig(e.size)
      <4>1. CopyRight(copy, ns, atoms, there, BigBlock)
        BY <2>3, <2>4, <3>1, Zenon DEF StreamRight
      <4>2. CopyRight(copy, ns, atoms, there, BigBlock) /\ copy.next = END
              => AllPlaced(copy.out, atoms, there)
        BY <2>6, <2>7, <3>1, BigCopy
      <4> QED
        BY <4>1, <4>2, <2>1
    <3>2. CASE ~IsBig(e.size)
      <4>1. CopyRight(copy, ns, atoms, there, SmallBlock)
        BY <2>3, <2>4, <3>2, Zenon DEF StreamRight
      <4>2. CopyRight(copy, ns, atoms, there, SmallBlock) /\ copy.next = END
              => AllPlaced(copy.out, atoms, there)
        BY <2>6, <2>7, <3>2, SmallCopy
      <4> QED
        BY <4>1, <4>2, <2>1
    <3> QED
      BY <3>1, <3>2
  <2>9. filename' = i.stream /\ AllPlaced(copy'.out, i.content, i.present)
    BY <2>1, <2>2, <2>4, <2>5, <2>6, <2>8
  <2> QED
    BY <2>1, <2>9, <1>3
<1>8. CASE UNCHANGED oleVars
  <2>1. ret' = ret /\ filename' = filename /\ stage' = stage /\ copy' = copy
    BY <1>8 DEF oleVars
  <2> QED
    BY <2>1, <1>1 DEF Answered
<1>9. CASE OpenImage \/ ReadDepot \/ ReadDepotList \/ DepotRead \/ FollowChain \/ ReadSmallDepot
             \/ ReadDirectory \/ ReorderDir \/ ReorderNext \/ ReorderPrevious
  BY <1>9 DEF OpenImage, ReadDepot, ReadDepotList, DepotRead, FollowChain, ReadSmallDepot,
    ReadDirectory, ReorderDir, ReorderNext, ReorderPrevious, Reordering, Mount, MountFails
<1>10. CASE BeginSmallFile \/ CopySmallFile \/ Mounted \/ OtherEntry \/ TryBook \/ OpenStream
              \/ CopyBlock \/ ReadPlain
  BY <1>1, <1>10 DEF BeginSmallFile, CopySmallFile, Mounted, OtherEntry, TryBook, OpenStream,
    CopyBlock, ReadPlain
<1> QED
  BY <1>5, <1>6, <1>7, <1>8, <1>9, <1>10 DEF OleNext, Closed

(* All of this holds before the file is opened,                            *)
LEMMA SoundBegins == OleInit => FileInv
<1> SUFFICES ASSUME OleInit PROVE FileInv
  OBVIOUS
<1>1. stage = "header" /\ ret = "NONE"
  BY DEF OleInit
<1> QED
  BY <1>1 DEF FileInv, NotPlain, SmallDepotRead, EntriesKept, SmallFileCopied, SmallFileRead,
    Searched, StreamCopied, Answered, HasTree

(* and every step keeps it.                                                *)
LEMMA SoundKept == OleInv /\ FileInv /\ [OleNext]_oleVars => FileInv'
<1> SUFFICES ASSUME OleInv, FileInv, [OleNext]_oleVars, Sound' PROVE FileInv'
  BY DEF FileInv, Sound
<1>1. Sound
  BY ImageStays DEF Sound
<1>2. /\ NotPlain' /\ SmallDepotRead' /\ EntriesKept' /\ SmallFileCopied' /\ SmallFileRead'
      /\ Searched' /\ StreamCopied' /\ Answered'
  BY <1>1, SoundMounted, SmallDepotKept, SameEntriesKept, SmallFileKept, SmallFileReadKept,
     SearchKept, StreamKept, AnswerRight
<1> QED
  BY <1>2 DEF FileInv

(* What is opened of a file, whole or not.                                 *)
LEMMA StreamRead == OleInv /\ FileInv => WorkbookRead /\ RestInPlace
<1> SUFFICES ASSUME OleInv, FileInv PROVE WorkbookRead /\ RestInPlace
  OBVIOUS
<1>1. stage = "done" /\ Sound =>
        \/ image.stream = "none" /\ ret = "BADFILE"
        \/ /\ ret = "OPEN" /\ filename = image.stream
           /\ AllPlaced(copy.out, image.content, image.present)
  BY DEF FileInv, Answered
<1>2. ASSUME stage = "done", image.ole, image.whole
      PROVE  \/ image.stream = "none" /\ ret = "BADFILE"
             \/ ret = "OPEN" /\ filename = image.stream /\ copy.out = image.content
  <2>1. PICK i, out : i = image /\ out = copy.out
    OBVIOUS
  <2>2. DOMAIN i.children # {} /\ i.present = DOMAIN i.content
    BY <2>1, <1>2, ImagesAssumption DEF OleInv, StageInv
  <2>3. Sound
    BY <2>1, <2>2, <1>2 DEF Sound
  <2>4. AllPlaced(out, i.content, i.present) => out = i.content
    BY <2>2, PlacedWhole
  <2> QED
    BY <2>1, <2>3, <2>4, <1>1, <1>2
<1>3. ASSUME ret = "OPEN", DOMAIN image.children # {}
      PROVE  /\ Len(copy.out) = Len(image.content)
             /\ \A k \in image.present : copy.out[k] = image.content[k]
  <2>1. stage = "done" /\ image.ole
    BY <1>3 DEF OleInv, StageInv
  <2>2. Sound
    BY <2>1, <1>3 DEF Sound
  <2>3. AllPlaced(copy.out, image.content, image.present)
    BY <2>1, <2>2, <1>1, <1>3
  <2>4. PICK i, out : i = image /\ out = copy.out
    OBVIOUS
  <2>5. /\ Len(out) = Len(i.content) /\ i.content \in Seq(Range(i.content))
        /\ i.present \subseteq DOMAIN i.content /\ Placed(out, i.content, i.present)
    BY <2>3, <2>4 DEF AllPlaced
  <2>6. \A k \in i.present : k <= Len(out)
    BY <2>5, LenProperties
  <2> QED
    BY <2>4, <2>5, <2>6 DEF Placed
<1> QED
  BY <1>2, <1>3 DEF WorkbookRead, RestInPlace

(* What cexcel_file_parse() opens of a whole file is its stream Workbook,  *)
(* or without one Book: found whatever the tree its entries are linked in, *)
(* with the size and the atoms it was written with, in big blocks or in    *)
(* small ones and wherever they are; and of a file that has neither it     *)
(* says so. For files of any size.                                         *)
THEOREM WorkbookFound == OleSpec => []WorkbookRead
<1> QED
  BY OleInvariant, SoundBegins, SoundKept, StreamRead, PTL DEF OleSpec

(* Of a file that is cut off anywhere in the stream's blocks, what is      *)
(* there is read to where it belongs, and the stream has its length.       *)
THEOREM CutOffInPlace == OleSpec => []RestInPlace
<1> QED
  BY OleInvariant, SoundBegins, SoundKept, StreamRead, PTL DEF OleSpec

-----------------------------------------------------------------------------
(* From here on, the text of a row.                                        *)
Pieces == Marks \cup Fields \cup Elements \cup Datasets \cup Rowsets
Bound  == [name : FieldNames \cup ElementNames, text : Values]

(* A piece is what its kind says.                                          *)
LEMMA FieldPiece ==
  ASSUME NEW x \in Pieces, x.kind = "field"
  PROVE  x = Field(x.name) /\ x.name \in FieldNames \cup ElementNames
<1>1. x \in Fields \/ x \in Elements
  BY DEF Pieces, Marks, Datasets, Rowsets, Backslash
<1> QED
  BY <1>1 DEF Fields, Elements, Field

LEMMA DatasetPiece ==
  ASSUME NEW x \in Pieces, x.kind = "dataset"
  PROVE  x.group \in Names /\ x.body \in Seq(Marks \cup Fields)
<1>1. x \in Datasets
  BY DEF Pieces, Marks, Fields, Elements, Rowsets, Backslash
<1> QED
  BY <1>1 DEF Datasets

LEMMA RowsetPiece ==
  ASSUME NEW x \in Pieces, x.kind = "rowset"
  PROVE  x.body \in Seq(Marks \cup Fields \cup Datasets)
<1>1. x \in Rowsets
  BY DEF Pieces, Marks, Fields, Elements, Datasets, Backslash
<1> QED
  BY <1>1 DEF Rowsets

(* Texts of some kinds of pieces are texts of pieces.                      *)
LEMMA TextsOfPieces ==
  /\ Values \subseteq Seq(Pieces)
  /\ Seq(Marks \cup Fields \cup Datasets) \subseteq Seq(Pieces)
  /\ Seq(Marks \cup Fields \cup Datasets \cup Rowsets) \subseteq Seq(Pieces)
  /\ Seq(Marks \cup Elements) \subseteq Seq(Pieces)
<1>1. \A S \in SUBSET Pieces : Seq(S) \subseteq Seq(Pieces)
  <2> TAKE S \in SUBSET Pieces
  <2> SUFFICES ASSUME NEW s \in Seq(S) PROVE s \in Seq(Pieces)
    OBVIOUS
  <2> QED
    BY SeqMonotonic
<1>2. /\ Marks \cup Fields \in SUBSET Pieces
      /\ Marks \cup Fields \cup Datasets \in SUBSET Pieces
      /\ Marks \cup Fields \cup Datasets \cup Rowsets \in SUBSET Pieces
      /\ Marks \cup Elements \in SUBSET Pieces
  BY DEF Pieces
<1> QED
  BY <1>1, <1>2 DEF Values

-----------------------------------------------------------------------------
(* The bindings made before the column c is reached.                       *)
BoundUpTo(r, n)   == FlattenSeq([k \in 1 .. n |-> ColumnBinds(r[k])])
BindsBefore(r, c) == System \o BoundUpTo(r, c - 1)

LEMMA ColumnBindsTyped ==
  ASSUME NEW c \in Columns
  PROVE  ColumnBinds(c) \in Seq(Bound)
<1>1. CASE c.type = "value"
  <2>1. c.binds \in Seq([name : FieldNames, text : Values])
    BY <1>1 DEF Columns
  <2>2. [name : FieldNames, text : Values] \subseteq Bound
    BY DEF Bound
  <2>3. c.binds \in Seq(Bound)
    BY <2>1, <2>2, SeqMonotonic
  <2> QED
    BY <1>1, <2>3 DEF ColumnBinds
<1>2. CASE c.type # "value"
  <2>1. c.group \in Names /\ c.fields \in Seq(Names) /\ c.texts \in Seq(Values)
    BY <1>2 DEF Columns
  <2> DEFINE nf == Len(c.fields)
             nt == Len(c.texts)
             inner(i) == [q \in DOMAIN c.fields |->
                            [name |-> <<c.group, c.fields[q], i - 1>>, text |-> c.texts[i]]]
             outer == [i \in DOMAIN c.texts |-> inner(i)]
  <2>2. DOMAIN c.fields = 1 .. nf /\ DOMAIN c.texts = 1 .. nt /\ nf \in Nat /\ nt \in Nat
    BY <2>1, LenProperties
  <2>3. ASSUME NEW i \in 1 .. nt PROVE inner(i) \in Seq(Bound)
    <3>1. c.texts[i] \in Values /\ i - 1 \in Nat
      BY <2>1, <2>2, ElementOfSeq
    <3>2. ASSUME NEW q \in 1 .. nf PROVE <<c.group, c.fields[q], i - 1>> \in ElementNames
      <4>1. c.fields[q] \in Names
        BY <2>1, ElementOfSeq
      <4> QED
        BY <2>1, <3>1, <4>1 DEF ElementNames
    <3>3. inner(i) \in [1 .. nf -> Bound]
      <4>1. \A q \in 1 .. nf :
              [name |-> <<c.group, c.fields[q], i - 1>>, text |-> c.texts[i]] \in Bound
        BY <3>1, <3>2 DEF Bound
      <4> HIDE DEF nf, nt
      <4> QED
        BY <2>2, <4>1
    <3> HIDE DEF inner, nf
    <3> QED
      BY <2>2, <3>3, FunctionIsSeq
  <2>4. outer \in [1 .. nt -> Seq(Bound)]
    <3> HIDE DEF inner, nt
    <3> QED
      BY <2>2, <2>3
  <2>5. outer \in Seq(Seq(Bound))
    <3> HIDE DEF outer, nt
    <3> QED
      BY <2>2, <2>4, FunctionIsSeq
  <2>6. FlattenSeq(outer) \in Seq(Bound)
    <3> HIDE DEF outer
    <3> QED
      BY <2>5, FlattenType
  <2> QED
    BY <1>2, <2>6 DEF ColumnBinds, ElementBinds
<1> QED
  BY <1>1, <1>2

LEMMA SystemTyped == System \in Seq(Bound)
<1>1. System \in Seq([name : FieldNames, text : Values])
  BY TextsAssumption
<1>2. [name : FieldNames, text : Values] \subseteq Bound
  BY DEF Bound
<1> QED
  BY <1>1, <1>2, SeqMonotonic

(* A sequence made by a function, one element longer.                      *)
LEMMA OneMore ==
  ASSUME NEW S, NEW n \in Nat, NEW f, \A k \in 1 .. n + 1 : f[k] \in S
  PROVE  /\ [k \in 1 .. n |-> f[k]] \in Seq(S)
         /\ [k \in 1 .. n + 1 |-> f[k]] = [k \in 1 .. n |-> f[k]] \o <<f[n + 1]>>
<1> DEFINE a == [k \in 1 .. n |-> f[k]]
           b == [k \in 1 .. n + 1 |-> f[k]]
<1>1. a \in [1 .. n -> S] /\ b \in [1 .. n + 1 -> S] /\ f[n + 1] \in S
  OBVIOUS
<1>2. \A k \in 1 .. n + 1 : b[k] = IF k <= n THEN a[k] ELSE f[n + 1]
  OBVIOUS
<1> HIDE DEF a, b
<1>3. a \in Seq(S) /\ Len(a) = n /\ b \in Seq(S) /\ Len(b) = n + 1
  BY <1>1, FunctionIsSeq
<1>4. PICK x \in S : x = f[n + 1]
  BY <1>1
<1>5. a \o <<x>> \in Seq(S) /\ Joined(a \o <<x>>, a, <<x>>) /\ Len(<<x>>) = 1 /\ <<x>>[1] = x
  <2>1. <<x>> \in Seq(S)
    OBVIOUS
  <2> QED
    BY <1>3, <2>1, ConcatJoins
<1>6. Len(b) = Len(a \o <<x>>) /\ \A k \in 1 .. Len(b) : b[k] = (a \o <<x>>)[k]
  <2>1. Len(a \o <<x>>) = n + 1
    BY <1>3, <1>5 DEF Joined
  <2>2. ASSUME NEW k \in 1 .. n + 1 PROVE b[k] = (a \o <<x>>)[k]
    <3>1. CASE k <= n
      BY <1>2, <1>3, <1>5, <3>1 DEF Joined
    <3>2. CASE ~(k <= n)
      <4>1. k - n = 1
        BY <3>2
      <4> QED
        BY <1>2, <1>3, <1>4, <1>5, <3>2, <4>1 DEF Joined
    <3> QED
      BY <3>1, <3>2
  <2> QED
    BY <1>3, <2>1, <2>2
<1>7. b = a \o <<x>>
  BY <1>3, <1>5, <1>6, SeqEqual
<1> QED
  BY <1>3, <1>4, <1>7 DEF a, b

LEMMA BindsOfNone ==
  ASSUME NEW r
  PROVE  BindsBefore(r, 1) = System
<1>1. [k \in 1 .. 0 |-> ColumnBinds(r[k])] = <<>> /\ 1 - 1 = 0
  OBVIOUS
<1>2. System \o <<>> = System
  BY SystemTyped, ConcatEmptySeq
<1> QED
  BY <1>1, <1>2, FlattenEmpty DEF BindsBefore, BoundUpTo

LEMMA BindsOfOneMore ==
  ASSUME NEW r \in Seq(Columns), NEW c \in 1 .. Len(r)
  PROVE  /\ BindsBefore(r, c) \in Seq(Bound)
         /\ BindsBefore(r, c + 1) \in Seq(Bound)
         /\ BindsBefore(r, c + 1) = BindsBefore(r, c) \o ColumnBinds(r[c])
<1> DEFINE f == [k \in 1 .. Len(r) |-> ColumnBinds(r[k])]
           n == c - 1
           a == [k \in 1 .. n |-> f[k]]
           b == [k \in 1 .. n + 1 |-> f[k]]
<1>1. Len(r) \in Nat /\ n \in Nat /\ n + 1 = c /\ c + 1 - 1 = n + 1
  BY LenProperties
<1>2. \A k \in 1 .. Len(r) : f[k] \in Seq(Bound)
  BY ColumnBindsTyped, ElementOfSeq
<1>3. [k \in 1 .. n |-> ColumnBinds(r[k])] = a /\ [k \in 1 .. n + 1 |-> ColumnBinds(r[k])] = b
  <2>1. \A k \in 1 .. c : f[k] = ColumnBinds(r[k])
    BY <1>1
  <2> HIDE DEF f
  <2> QED
    BY <1>1, <2>1
<1>4. f[c] = ColumnBinds(r[c]) /\ f[c] \in Seq(Bound)
  BY <1>1, <1>2
<1>5. a \in Seq(Seq(Bound)) /\ b = a \o <<f[n + 1]>>
  <2>1. \A k \in 1 .. n + 1 : f[k] \in Seq(Bound)
    BY <1>1, <1>2
  <2> HIDE DEF f, n
  <2> QED
    BY <1>1, <2>1, OneMore
<1> HIDE DEF a, b, f, n
<1>6. FlattenSeq(b) = FlattenSeq(a) \o f[c]
  <2>1. <<f[c]>> \in Seq(Seq(Bound)) /\ FlattenSeq(<<f[c]>>) = f[c]
    BY <1>4, FlattenOne
  <2>2. PICK d : d = <<f[c]>>
    OBVIOUS
  <2>3. FlattenSeq(a \o d) = FlattenSeq(a) \o FlattenSeq(d)
    BY <1>5, <2>1, <2>2, FlattenConcat
  <2> QED
    BY <1>1, <1>5, <2>1, <2>2, <2>3
<1>7. PICK x \in Seq(Bound) : x = FlattenSeq(a)
  BY <1>5, FlattenType
<1>8. PICK y \in Seq(Bound) : y = f[c]
  BY <1>4
<1>9. (System \o x) \o y = System \o (x \o y)
  BY SystemTyped, ConcatAssociative, SMTT(30)
<1>10. System \o x \in Seq(Bound) /\ (System \o x) \o y \in Seq(Bound)
  BY SystemTyped, ConcatProperties
<1>11. BindsBefore(r, c) = System \o x
  <2>1. BoundUpTo(r, n) = x
    BY <1>3, <1>7 DEF BoundUpTo
  <2> QED
    BY <2>1 DEF BindsBefore, n
<1>12. BindsBefore(r, c + 1) = System \o (x \o y)
  <2>1. BoundUpTo(r, n + 1) = x \o y
    BY <1>3, <1>6, <1>7, <1>8 DEF BoundUpTo
  <2> QED
    BY <1>1, <2>1, SMTT(30) DEF BindsBefore
<1> QED
  BY <1>4, <1>8, <1>9, <1>10, <1>11, <1>12

LEMMA BindsOfAll ==
  ASSUME NEW r \in Seq(Columns)
  PROVE  BindsBefore(r, Len(r) + 1) = AllBinds(r)
<1>1. DOMAIN r = 1 .. Len(r) /\ Len(r) + 1 - 1 = Len(r)
  BY LenProperties
<1> QED
  BY <1>1 DEF BindsBefore, BoundUpTo, AllBinds

-----------------------------------------------------------------------------
(* Where binds has the name.                                               *)
PlacesOf(binds, name) == {k \in DOMAIN binds : binds[k].name = name}

LEMMA PlacesTyped ==
  ASSUME NEW a \in Seq(Bound), NEW name
  PROVE  PlacesOf(a, name) \in SUBSET Nat /\ PlacesOf(a, name) \subseteq 1 .. Len(a)
BY LenProperties DEF PlacesOf

LEMMA FirstPlace ==
  ASSUME NEW a \in Seq(Bound), NEW name, PlacesOf(a, name) # {}
  PROVE  /\ Min(PlacesOf(a, name)) \in 1 .. Len(a)
         /\ a[Min(PlacesOf(a, name))].name = name
         /\ \A k \in 1 .. Len(a) : a[k].name = name => Min(PlacesOf(a, name)) <= k
<1>1. PlacesOf(a, name) \in SUBSET Nat /\ PlacesOf(a, name) \subseteq 1 .. Len(a)
  BY PlacesTyped
<1>2. /\ Min(PlacesOf(a, name)) \in PlacesOf(a, name)
      /\ \A m \in PlacesOf(a, name) : Min(PlacesOf(a, name)) <= m
  BY <1>1, MinIsSmallest
<1>3. DOMAIN a = 1 .. Len(a)
  BY LenProperties
<1> QED
  BY <1>1, <1>2, <1>3 DEF PlacesOf

LEMMA InsertedAll ==
  ASSUME NEW H, NEW a \in Seq(Bound)
  PROVE  /\ DOMAIN InsertAll(H, a) = DOMAIN H \cup {a[k].name : k \in 1 .. Len(a)}
         /\ \A name \in DOMAIN H : InsertAll(H, a)[name] = H[name]
         /\ \A name \in DOMAIN InsertAll(H, a) :
              name \notin DOMAIN H =>
                /\ PlacesOf(a, name) # {}
                /\ InsertAll(H, a)[name] = a[Min(PlacesOf(a, name))].text
         /\ \A name : name \notin DOMAIN InsertAll(H, a) => PlacesOf(a, name) = {}
<1>1. DOMAIN a = 1 .. Len(a)
  BY LenProperties
<1>2. InsertAll(H, a) =
        [name \in DOMAIN H \cup {a[k].name : k \in DOMAIN a} |->
           IF name \in DOMAIN H THEN H[name] ELSE a[Min(PlacesOf(a, name))].text]
  BY DEF InsertAll, PlacesOf
<1>3. DOMAIN InsertAll(H, a) = DOMAIN H \cup {a[k].name : k \in DOMAIN a}
  BY <1>2
<1>4. \A name \in DOMAIN InsertAll(H, a) : name \notin DOMAIN H => PlacesOf(a, name) # {}
  BY <1>3 DEF PlacesOf
<1>5. \A name : name \notin DOMAIN InsertAll(H, a) => PlacesOf(a, name) = {}
  BY <1>3 DEF PlacesOf
<1>6. \A name \in DOMAIN H : InsertAll(H, a)[name] = H[name]
  BY <1>2
<1>7. \A name \in DOMAIN InsertAll(H, a) :
        name \notin DOMAIN H => InsertAll(H, a)[name] = a[Min(PlacesOf(a, name))].text
  BY <1>2
<1> QED
  BY <1>1, <1>3, <1>4, <1>5, <1>6, <1>7

(* What is inserted after a is what is missing in a.                       *)
LEMMA InsertedInTurn ==
  ASSUME NEW H, NEW a \in Seq(Bound), NEW b \in Seq(Bound)
  PROVE  InsertAll(InsertAll(H, a), b) = InsertAll(H, a \o b)
<1> DEFINE G == InsertAll(H, a)
           L == InsertAll(G, b)
           c == a \o b
           R == InsertAll(H, c)
<1>1. c \in Seq(Bound) /\ Joined(c, a, b) /\ Len(a) \in Nat /\ Len(b) \in Nat
  BY ConcatJoins, LenProperties
<1>2. /\ Len(c) = Len(a) + Len(b)
      /\ \A k \in 1 .. Len(a) : k \in 1 .. Len(c) /\ c[k] = a[k]
      /\ \A k \in 1 .. Len(b) : Len(a) + k \in 1 .. Len(c) /\ c[Len(a) + k] = b[k]
      /\ \A k \in 1 .. Len(c) : k \in 1 .. Len(a) \/ k - Len(a) \in 1 .. Len(b)
      /\ \A k \in 1 .. Len(c) : k \notin 1 .. Len(a) => k - Len(a) \in 1 .. Len(b) /\ c[k] = b[k - Len(a)]
  <2>1. Len(c) = Len(a) + Len(b)
    BY <1>1 DEF Joined
  <2>2. \A k \in 1 .. Len(c) : c[k] = IF k <= Len(a) THEN a[k] ELSE b[k - Len(a)]
    BY <1>1, <2>1 DEF Joined
  <2> HIDE DEF c
  <2>3. ASSUME NEW k \in 1 .. Len(a) PROVE k \in 1 .. Len(c) /\ c[k] = a[k]
    BY <1>1, <2>1, <2>2
  <2>4. ASSUME NEW k \in 1 .. Len(b) PROVE Len(a) + k \in 1 .. Len(c) /\ c[Len(a) + k] = b[k]
    <3>1. Len(a) + k \in 1 .. Len(c) /\ ~(Len(a) + k <= Len(a)) /\ Len(a) + k - Len(a) = k
      BY <1>1, <2>1
    <3> QED
      BY <2>2, <3>1
  <2>5. ASSUME NEW k \in 1 .. Len(c), k \notin 1 .. Len(a)
        PROVE  k - Len(a) \in 1 .. Len(b) /\ c[k] = b[k - Len(a)]
    BY <1>1, <2>1, <2>2, <2>5
  <2> QED
    BY <2>1, <2>3, <2>4, <2>5
<1> HIDE DEF G, L, c, R
<1>3. /\ DOMAIN G = DOMAIN H \cup {a[k].name : k \in 1 .. Len(a)}
      /\ \A name \in DOMAIN H : G[name] = H[name]
      /\ \A name \in DOMAIN G :
           name \notin DOMAIN H => PlacesOf(a, name) # {} /\ G[name] = a[Min(PlacesOf(a, name))].text
      /\ \A name : name \notin DOMAIN G => PlacesOf(a, name) = {}
  BY InsertedAll DEF G
<1>4. /\ DOMAIN L = DOMAIN G \cup {b[k].name : k \in 1 .. Len(b)}
      /\ \A name \in DOMAIN G : L[name] = G[name]
      /\ \A name \in DOMAIN L :
           name \notin DOMAIN G => PlacesOf(b, name) # {} /\ L[name] = b[Min(PlacesOf(b, name))].text
  BY InsertedAll DEF L
<1>5. /\ DOMAIN R = DOMAIN H \cup {c[k].name : k \in 1 .. Len(c)}
      /\ \A name \in DOMAIN H : R[name] = H[name]
      /\ \A name \in DOMAIN R :
           name \notin DOMAIN H => PlacesOf(c, name) # {} /\ R[name] = c[Min(PlacesOf(c, name))].text
  BY <1>1, InsertedAll DEF R
<1>6. DOMAIN L = DOMAIN R
  <2>1. {c[k].name : k \in 1 .. Len(c)} =
          {a[k].name : k \in 1 .. Len(a)} \cup {b[k].name : k \in 1 .. Len(b)}
    <3>1. ASSUME NEW k \in 1 .. Len(a) PROVE \E q \in 1 .. Len(c) : c[q].name = a[k].name
      BY <1>2
    <3>2. ASSUME NEW k \in 1 .. Len(b) PROVE \E q \in 1 .. Len(c) : c[q].name = b[k].name
      BY <1>2
    <3>3. ASSUME NEW q \in 1 .. Len(c)
          PROVE  \/ \E k \in 1 .. Len(a) : c[q].name = a[k].name
                 \/ \E k \in 1 .. Len(b) : c[q].name = b[k].name
      BY <1>2
    <3>4. \A x \in {a[k].name : k \in 1 .. Len(a)} : x \in {c[k].name : k \in 1 .. Len(c)}
      BY <3>1
    <3>5. \A x \in {b[k].name : k \in 1 .. Len(b)} : x \in {c[k].name : k \in 1 .. Len(c)}
      BY <3>2
    <3>6. \A x \in {c[k].name : k \in 1 .. Len(c)} :
            \/ x \in {a[k].name : k \in 1 .. Len(a)}
            \/ x \in {b[k].name : k \in 1 .. Len(b)}
      BY <3>3, SMTT(30)
    <3> QED
      BY <3>4, <3>5, <3>6
  <2> QED
    BY <1>3, <1>4, <1>5, <2>1
<1>7. ASSUME NEW name \in DOMAIN R PROVE L[name] = R[name]
  <2>1. CASE name \in DOMAIN H
    BY <1>3, <1>4, <1>5, <2>1
  <2>2. CASE name \notin DOMAIN H /\ name \in DOMAIN G
    <3> DEFINE m == Min(PlacesOf(a, name))
    <3>1. /\ m \in 1 .. Len(a) /\ a[m].name = name
          /\ \A k \in 1 .. Len(a) : a[k].name = name => m <= k
      BY <1>3, <2>2, FirstPlace
    <3> HIDE DEF m
    <3>2. m \in PlacesOf(c, name)
      BY <1>1, <1>2, <3>1, LenProperties DEF PlacesOf
    <3>3. ASSUME NEW k \in PlacesOf(c, name) PROVE m <= k
      <4>1. k \in 1 .. Len(c) /\ c[k].name = name
        BY <1>1, LenProperties DEF PlacesOf
      <4>2. CASE k \in 1 .. Len(a)
        BY <1>2, <3>1, <4>1, <4>2
      <4>3. CASE k \notin 1 .. Len(a)
        BY <1>1, <1>2, <3>1, <4>1, <4>3
      <4> QED
        BY <4>2, <4>3
    <3>4. Min(PlacesOf(c, name)) = m
      BY <1>1, <3>2, <3>3, PlacesTyped, SmallestIsMin
    <3>5. R[name] = c[m].text
      BY <1>5, <2>2, <3>4
    <3>6. L[name] = a[m].text
      BY <1>3, <1>4, <2>2 DEF m
    <3> QED
      BY <1>2, <3>1, <3>5, <3>6
  <2>3. CASE name \notin DOMAIN G
    <3> DEFINE m == Min(PlacesOf(b, name))
    <3>0. PlacesOf(b, name) # {} /\ name \notin DOMAIN H
      BY <1>3, <1>4, <1>6, <2>3
    <3>1. /\ m \in 1 .. Len(b) /\ b[m].name = name
          /\ \A k \in 1 .. Len(b) : b[k].name = name => m <= k
      BY <3>0, FirstPlace
    <3>2. \A k \in 1 .. Len(a) : a[k].name # name
      BY <1>3, <2>3
    <3> HIDE DEF m
    <3>3. Len(a) + m \in PlacesOf(c, name)
      BY <1>1, <1>2, <3>1, LenProperties DEF PlacesOf
    <3>4. ASSUME NEW k \in PlacesOf(c, name) PROVE Len(a) + m <= k
      <4>1. k \in 1 .. Len(c) /\ c[k].name = name
        BY <1>1, LenProperties DEF PlacesOf
      <4>2. k \notin 1 .. Len(a)
        BY <1>2, <3>2, <4>1
      <4>3. k - Len(a) \in 1 .. Len(b) /\ b[k - Len(a)].name = name
        BY <1>2, <4>1, <4>2
      <4>4. m <= k - Len(a)
        BY <3>1, <4>3
      <4> QED
        BY <1>1, <3>1, <4>1, <4>4
    <3>5. Min(PlacesOf(c, name)) = Len(a) + m
      BY <1>1, <3>3, <3>4, PlacesTyped, SmallestIsMin
    <3>6. R[name] = c[Len(a) + m].text
      BY <1>5, <3>0, <3>5
    <3>7. L[name] = b[m].text
      BY <1>4, <1>6, <2>3 DEF m
    <3> QED
      BY <1>2, <3>1, <3>6, <3>7
  <2> QED
    BY <2>1, <2>2, <2>3
<1>8. L = [x \in DOMAIN L |-> L[x]] /\ R = [x \in DOMAIN R |-> R[x]]
  BY DEF L, R, InsertAll
<1>9. L = R
  BY <1>6, <1>7, <1>8
<1> QED
  BY <1>9 DEF G, L, c, R

(* The value of a name is the one the table holds, if it holds the name.   *)
LEMMA ValueIsBound ==
  ASSUME NEW r, AllBinds(r) \in Seq(Bound), NEW name
  PROVE  LET H == InsertAll(Nothing, AllBinds(r))
         IN  /\ name \in DOMAIN H => ValueOf(r, name) = H[name]
             /\ name \notin DOMAIN H => ValueOf(r, name) = <<Field(name)>>
             /\ name \in DOMAIN H =>
                  \E k \in DOMAIN AllBinds(r) :
                    H[name] = AllBinds(r)[k].text /\ name = AllBinds(r)[k].name
<1> DEFINE a == AllBinds(r)
           H == InsertAll(Nothing, a)
<1>1. DOMAIN Nothing = {} /\ DOMAIN a = 1 .. Len(a) /\ Len(a) \in Nat
  BY LenProperties DEF Nothing
<1>2. SelectInSeq(a, LAMBDA b : b.name = name) =
        IF PlacesOf(a, name) # {} THEN Min(PlacesOf(a, name)) ELSE 0
  BY <1>1 DEF SelectInSeq, PlacesOf
<1>3. ValueOf(r, name) =
        IF PlacesOf(a, name) = {} \/ Min(PlacesOf(a, name)) = 0 THEN <<Field(name)>>
        ELSE a[Min(PlacesOf(a, name))].text
  BY <1>2 DEF ValueOf
<1> HIDE DEF a, H
<1>0. a \in Seq(Bound)
  BY DEF a
<1>10. /\ \A x \in DOMAIN H :
            x \notin DOMAIN Nothing => PlacesOf(a, x) # {} /\ H[x] = a[Min(PlacesOf(a, x))].text
       /\ \A x : x \notin DOMAIN H => PlacesOf(a, x) = {}
  BY <1>0, InsertedAll DEF H
<1>4. CASE name \in DOMAIN H
  <2>1. PlacesOf(a, name) # {} /\ H[name] = a[Min(PlacesOf(a, name))].text
    BY <1>1, <1>4, <1>10
  <2>2. Min(PlacesOf(a, name)) \in 1 .. Len(a) /\ a[Min(PlacesOf(a, name))].name = name
    BY <2>1, FirstPlace DEF a
  <2>3. Min(PlacesOf(a, name)) # 0
    BY <1>1, <2>2
  <2> QED
    BY <1>1, <1>3, <1>4, <2>1, <2>2, <2>3 DEF a, H
<1>5. CASE name \notin DOMAIN H
  <2>1. PlacesOf(a, name) = {}
    BY <1>5, <1>10
  <2> QED
    BY <1>3, <1>5, <2>1 DEF a, H
<1> QED
  BY <1>4, <1>5

-----------------------------------------------------------------------------
(* What a piece gives way to when the fields of a text are filled, and     *)
(* when its datasets are expanded as well.                                 *)
Fill(r)   == [x \in Pieces |-> IF x.kind = "field" THEN ValueOf(r, x.name) ELSE <<x>>]
Expand(r) == [x \in Pieces |-> Expanded(r, x)]

(* The columns of the row agree in the sizes of the datasets.              *)
Sized(r) == AllBinds(r) \in Seq(Bound) /\ \A g \in Names : SizeOf(r, g) \in Nat

LEMMA ValueTyped ==
  ASSUME NEW r, AllBinds(r) \in Seq(Bound), NEW name \in FieldNames \cup ElementNames
  PROVE  ValueOf(r, name) \in Seq(Pieces)
<1> DEFINE H == InsertAll(Nothing, AllBinds(r))
<1>1. CASE name \in DOMAIN H
  <2>1. ValueOf(r, name) = H[name]
    BY <1>1, ValueIsBound
  <2>2. PICK k \in DOMAIN AllBinds(r) : H[name] = AllBinds(r)[k].text
    BY <1>1, ValueIsBound
  <2>3. k \in 1 .. Len(AllBinds(r))
    BY LenProperties
  <2>4. AllBinds(r)[k] \in Bound
    BY <2>3, ElementOfSeq
  <2>5. AllBinds(r)[k].text \in Values
    BY <2>4 DEF Bound
  <2> HIDE DEF H
  <2> QED
    BY <2>1, <2>2, <2>5, TextsOfPieces
<1>2. CASE name \notin DOMAIN H
  <2>1. ValueOf(r, name) = <<Field(name)>>
    BY <1>2, ValueIsBound
  <2>2. Field(name) \in Fields \/ Field(name) \in Elements
    BY DEF Field, Fields, Elements
  <2>3. Field(name) \in Pieces
    BY <2>2 DEF Pieces
  <2> QED
    BY <2>1, <2>3
<1> QED
  BY <1>1, <1>2

LEMMA FillTyped ==
  ASSUME NEW r, AllBinds(r) \in Seq(Bound)
  PROVE  Fill(r) \in [Pieces -> Seq(Pieces)]
<1> SUFFICES ASSUME NEW x \in Pieces
             PROVE  (IF x.kind = "field" THEN ValueOf(r, x.name) ELSE <<x>>) \in Seq(Pieces)
  BY DEF Fill
<1>1. CASE x.kind = "field"
  BY <1>1, FieldPiece, ValueTyped
<1>2. CASE x.kind # "field"
  <2>1. <<x>> \in Seq(Pieces)
    OBVIOUS
  <2> QED
    BY <1>2, <2>1
<1> QED
  BY <1>1, <1>2

LEMMA FilledIsPut ==
  ASSUME NEW r, NEW txt \in Seq(Pieces)
  PROVE  Filled(r, txt) = Put(Fill(r), txt)
<1>1. DOMAIN txt = 1 .. Len(txt)
  BY LenProperties
<1>2. \A k \in DOMAIN txt : txt[k] \in Pieces
  BY <1>1, ElementOfSeq
<1>3. \A k \in DOMAIN txt :
        Fill(r)[txt[k]] = IF txt[k].kind = "field" THEN ValueOf(r, txt[k].name) ELSE <<txt[k]>>
  BY <1>2 DEF Fill
<1>4. Mapped(Fill(r), txt) =
        [k \in DOMAIN txt |-> IF txt[k].kind = "field" THEN ValueOf(r, txt[k].name) ELSE <<txt[k]>>]
  BY <1>3 DEF Mapped
<1> QED
  BY <1>4 DEF Filled, Put

LEMMA RenderedIsPut ==
  ASSUME NEW r, NEW txt \in Seq(Pieces)
  PROVE  Rendered(r, txt) = Put(Expand(r), txt)
<1>1. DOMAIN txt = 1 .. Len(txt)
  BY LenProperties
<1>2. \A k \in DOMAIN txt : txt[k] \in Pieces
  BY <1>1, ElementOfSeq
<1>3. \A k \in DOMAIN txt : Expand(r)[txt[k]] = Expanded(r, txt[k])
  BY <1>2 DEF Expand
<1>4. Mapped(Expand(r), txt) = [k \in DOMAIN txt |-> Expanded(r, txt[k])]
  BY <1>3 DEF Mapped
<1> QED
  BY <1>4 DEF Rendered, Put

(* An element of a dataset: its fields are those of the i-th element.      *)
LEMMA ElementTyped ==
  ASSUME NEW x \in Pieces, x.kind = "dataset", NEW i \in Nat
  PROVE  Element(x, i) \in Seq(Marks \cup Elements)
<1> DEFINE b == x.body
           e == Element(x, i)
<1>1. x.group \in Names /\ b \in Seq(Marks \cup Fields)
  BY DatasetPiece
<1>2. DOMAIN b = 1 .. Len(b) /\ Len(b) \in Nat
  BY <1>1, LenProperties
<1>3. ASSUME NEW k \in 1 .. Len(b)
      PROVE  (IF b[k].kind = "field" THEN Field(<<x.group, b[k].name[1], i>>) ELSE b[k])
                \in Marks \cup Elements
  <2>1. b[k] \in Marks \cup Fields
    BY <1>1, ElementOfSeq
  <2>2. CASE b[k].kind = "field"
    <3>1. b[k] \in Fields
      BY <2>1, <2>2 DEF Marks, Backslash
    <3>2. PICK n \in Names : b[k].name = <<n>>
      BY <3>1 DEF Fields, FieldNames
    <3>3. <<x.group, n, i>> \in ElementNames
      BY <1>1 DEF ElementNames
    <3>4. Field(<<x.group, n, i>>) \in Elements
      BY <3>3 DEF Field, Elements
    <3>5. b[k].name[1] = n
      BY <3>2
    <3> QED
      BY <2>2, <3>4, <3>5
  <2>3. CASE b[k].kind # "field"
    BY <2>1, <2>3 DEF Fields
  <2> QED
    BY <2>2, <2>3
<1>4. e \in [1 .. Len(b) -> Marks \cup Elements]
  BY <1>2, <1>3 DEF Element
<1> HIDE DEF e
<1>5. e \in Seq(Marks \cup Elements)
  BY <1>2, <1>4, FunctionIsSeq
<1> QED
  BY <1>5 DEF e

(* A dataset is what its elements are, one after the other.                *)
AllElements(x, n) == FlattenSeq([i \in 1 .. n |-> Element(x, i - 1)])

LEMMA ElementsTyped ==
  ASSUME NEW x \in Pieces, x.kind = "dataset", NEW n \in Nat
  PROVE  LET s == [i \in 1 .. n |-> Element(x, i - 1)]
         IN  /\ s \in Seq(Seq(Marks \cup Elements)) /\ Len(s) = n
             /\ AllElements(x, n) \in Seq(Marks \cup Elements)
<1> DEFINE s == [i \in 1 .. n |-> Element(x, i - 1)]
<1>1. \A i \in 1 .. n : Element(x, i - 1) \in Seq(Marks \cup Elements)
  <2> TAKE i \in 1 .. n
  <2>1. i - 1 \in Nat
    OBVIOUS
  <2> QED
    BY <2>1, ElementTyped
<1>2. s \in [1 .. n -> Seq(Marks \cup Elements)]
  BY <1>1
<1>3. s \in Seq(Seq(Marks \cup Elements)) /\ Len(s) = n
  <2> HIDE DEF s
  <2> QED
    BY <1>2, FunctionIsSeq
<1>4. FlattenSeq(s) \in Seq(Marks \cup Elements)
  <2> HIDE DEF s
  <2> QED
    BY <1>3, FlattenType
<1> QED
  BY <1>3, <1>4 DEF AllElements

LEMMA ExpandTyped ==
  ASSUME NEW r, Sized(r)
  PROVE  /\ Expand(r) \in [Pieces -> Seq(Pieces)]
         /\ \A x \in Pieces : x.kind # "dataset" => Expand(r)[x] = Fill(r)[x]
<1>1. Fill(r) \in [Pieces -> Seq(Pieces)]
  BY FillTyped DEF Sized
<1>2. ASSUME NEW x \in Pieces, x.kind # "dataset"
      PROVE  Expanded(r, x) = Fill(r)[x]
  <2>1. <<x>> \in Seq(Pieces)
    OBVIOUS
  <2>2. Filled(r, <<x>>) = Put(Fill(r), <<x>>)
    BY <2>1, FilledIsPut
  <2>3. Put(Fill(r), <<x>>) = Fill(r)[x]
    BY <1>1, PutOne
  <2> QED
    BY <1>2, <2>2, <2>3 DEF Expanded
<1>3. ASSUME NEW x \in Pieces, x.kind = "dataset"
      PROVE  Expanded(r, x) \in Seq(Pieces)
  <2> DEFINE n == SizeOf(r, x.group)
             t == [i \in 1 .. n |-> Filled(r, Element(x, i - 1))]
  <2>1. n \in Nat
    BY <1>3, DatasetPiece DEF Sized
  <2>2. ASSUME NEW i \in 1 .. n PROVE Filled(r, Element(x, i - 1)) \in Seq(Pieces)
    <3>1. i - 1 \in Nat
      BY <2>1
    <3>2. Element(x, i - 1) \in Seq(Pieces)
      BY <1>3, <3>1, ElementTyped, TextsOfPieces
    <3> QED
      BY <1>1, <3>2, FilledIsPut, PutType
  <2> HIDE DEF n
  <2>3. t \in [1 .. n -> Seq(Pieces)]
    BY <2>2
  <2>4. FlattenSeq(t) \in Seq(Pieces)
    <3> HIDE DEF t
    <3> QED
      BY <2>1, <2>3, FunctionIsSeq, FlattenType
  <2> QED
    BY <1>3, <2>4 DEF Expanded, n
<1>4. \A x \in Pieces : Expanded(r, x) \in Seq(Pieces)
  BY <1>1, <1>2, <1>3
<1> QED
  BY <1>2, <1>4 DEF Expand

LEMMA DatasetExpanded ==
  ASSUME NEW r, Sized(r), NEW x \in Pieces, x.kind = "dataset",
         NEW n \in Nat, n = SizeOf(r, x.group)
  PROVE  Put(Expand(r), AllElements(x, n)) = Expand(r)[x]
<1> DEFINE s == [i \in 1 .. n |-> Element(x, i - 1)]
           t == [i \in 1 .. n |-> Filled(r, Element(x, i - 1))]
           p == [k \in DOMAIN s |-> Put(Expand(r), s[k])]
<1>1. Expand(r) \in [Pieces -> Seq(Pieces)]
  BY ExpandTyped
<1>2. ASSUME NEW e \in Seq(Marks \cup Elements)
      PROVE  Put(Expand(r), e) = Filled(r, e)
  <2>1. e \in Seq(Pieces) /\ DOMAIN e = 1 .. Len(e)
    BY TextsOfPieces, LenProperties
  <2>2. ASSUME NEW k \in DOMAIN e PROVE Expand(r)[e[k]] = Fill(r)[e[k]]
    <3>1. e[k] \in Marks \cup Elements
      BY <2>1, ElementOfSeq
    <3>2. e[k] \in Pieces /\ e[k].kind # "dataset"
      BY <3>1 DEF Pieces, Marks, Elements, Backslash
    <3> QED
      BY <3>2, ExpandTyped
  <2>3. Mapped(Expand(r), e) = Mapped(Fill(r), e)
    BY <2>2 DEF Mapped
  <2> QED
    BY <2>1, <2>3, FilledIsPut DEF Put
<1>3. s \in Seq(Seq(Marks \cup Elements)) /\ Len(s) = n
  BY ElementsTyped
<1>4. s \in Seq(Seq(Pieces))
  <2>1. Seq(Marks \cup Elements) \subseteq Seq(Pieces)
    BY TextsOfPieces
  <2> HIDE DEF s
  <2> QED
    BY <1>3, <2>1, SeqMonotonic
<1>5. Put(Expand(r), FlattenSeq(s)) = FlattenSeq(p)
  <2> HIDE DEF s
  <2> QED
    BY <1>1, <1>4, PutFlatten
<1>6. p = t
  <2>1. \A i \in 1 .. n : Put(Expand(r), Element(x, i - 1)) = Filled(r, Element(x, i - 1))
    <3> TAKE i \in 1 .. n
    <3>1. i - 1 \in Nat
      OBVIOUS
    <3> QED
      BY <1>2, <3>1, ElementTyped
  <2>2. DOMAIN s = 1 .. n /\ \A i \in 1 .. n : s[i] = Element(x, i - 1)
    OBVIOUS
  <2>3. \A i \in 1 .. n : Put(Expand(r), s[i]) = Filled(r, Element(x, i - 1))
    BY <2>1, <2>2
  <2> HIDE DEF s
  <2> QED
    BY <2>2, <2>3
<1>7. Expand(r)[x] = FlattenSeq(t)
  BY DEF Expand, Expanded
<1> QED
  BY <1>5, <1>6, <1>7 DEF AllElements

-----------------------------------------------------------------------------
(* A text with one of its pieces replaced.                                 *)
LEMMA SplicedPieces ==
  ASSUME NEW X, NEW txt \in Seq(X), NEW k \in 1 .. Len(txt), NEW new \in Seq(X)
  PROVE  /\ Spliced(txt, k, new) \in Seq(X)
         /\ \A x \in Range(Spliced(txt, k, new)) : x \in Range(txt) \/ x \in Range(new)
<1> DEFINE a == SubSeq(txt, 1, k - 1)
           b == SubSeq(txt, k + 1, Len(txt))
<1>1. Len(txt) \in Nat /\ DOMAIN txt = 1 .. Len(txt)
  BY LenProperties
<1>2. a \in Seq(X) /\ b \in Seq(X)
  BY <1>1, SubSeqProperties
<1>3. Range(a) \subseteq Range(txt)
  <2>1. DOMAIN a = 1 .. k - 1 /\ \A q \in 1 .. k - 1 : a[q] = txt[q] /\ q \in 1 .. Len(txt)
    BY <1>1
  <2> HIDE DEF a
  <2> QED
    BY <1>1, <2>1 DEF Range
<1>4. Range(b) \subseteq Range(txt)
  <2>1. /\ DOMAIN b = 1 .. Len(txt) - k
        /\ \A q \in 1 .. Len(txt) - k : b[q] = txt[k + q] /\ k + q \in 1 .. Len(txt)
    BY <1>1, SMTT(30)
  <2> HIDE DEF b
  <2> QED
    BY <1>1, <2>1 DEF Range
<1> HIDE DEF a, b
<1>5. a \o new \in Seq(X) /\ Range(a \o new) = Range(a) \cup Range(new)
  BY <1>2, ConcatProperties, RangeConcatenation
<1>6. PICK c \in Seq(X) : c = a \o new
  BY <1>5
<1>7. c \o b \in Seq(X) /\ Range(c \o b) = Range(c) \cup Range(b)
  BY <1>2, ConcatProperties, RangeConcatenation
<1> QED
  BY <1>3, <1>4, <1>5, <1>6, <1>7 DEF Spliced, a, b

LEMMA SplicedPut ==
  ASSUME NEW X, NEW h \in [X -> Seq(X)],
         NEW txt \in Seq(X), NEW k \in 1 .. Len(txt), NEW new \in Seq(X),
         Put(h, new) = h[txt[k]]
  PROVE  Put(h, Spliced(txt, k, new)) = Put(h, txt)
<1> DEFINE a == SubSeq(txt, 1, k - 1)
           b == SubSeq(txt, k + 1, Len(txt))
           o == <<txt[k]>>
<1>1. Len(txt) \in Nat /\ txt[k] \in X
  BY LenProperties, ElementOfSeq
<1>2. a \in Seq(X) /\ b \in Seq(X) /\ o \in Seq(X)
  BY <1>1, SubSeqProperties
<1>3. txt = (a \o o) \o b
  <2>1. a \o o = SubSeq(txt, 1, k)
    BY <1>1
  <2>2. SubSeq(txt, 1, k) \o b = SubSeq(txt, 1, Len(txt))
    BY <1>1, ConcatAdjacentSubSeq
  <2> QED
    BY <2>1, <2>2, SubSeqFull
<1>4. Put(h, o) = Put(h, new)
  BY <1>1, PutOne
<1> HIDE DEF a, b, o
<1>5. \A c \in Seq(X) : Put(h, (a \o c) \o b) = (Put(h, a) \o Put(h, c)) \o Put(h, b)
  <2> TAKE c \in Seq(X)
  <2>1. PICK d \in Seq(X) : d = a \o c
    BY <1>2, ConcatProperties
  <2>2. Put(h, d \o b) = Put(h, d) \o Put(h, b)
    BY <1>2, PutConcat, ZenonT(30)
  <2>3. Put(h, a \o c) = Put(h, a) \o Put(h, c)
    BY <1>2, PutConcat
  <2> QED
    BY <2>1, <2>2, <2>3
<1>6. Put(h, (a \o new) \o b) = Put(h, (a \o o) \o b)
  BY <1>2, <1>4, <1>5
<1>7. Spliced(txt, k, new) = (a \o new) \o b
  BY DEF Spliced, a, b
<1> QED
  BY <1>3, <1>6, <1>7

(* The search finds a piece when there is one.                             *)
LEMMA FoundDataset ==
  ASSUME NEW txt \in Seq(Pieces), NEW k, k = SelectInSeq(txt, IsDataset)
  PROVE  /\ k # 0 => k \in 1 .. Len(txt) /\ txt[k].kind = "dataset"
         /\ k = 0 => \A x \in Range(txt) : x.kind # "dataset"
<1> DEFINE I == {i \in 1 .. Len(txt) : txt[i].kind = "dataset"}
<1>1. k = IF I # {} THEN Min(I) ELSE 0
  BY DEF SelectInSeq, IsDataset
<1>2. DOMAIN txt = 1 .. Len(txt) /\ Len(txt) \in Nat
  BY LenProperties
<1>3. CASE I # {}
  <2>1. I \in SUBSET Nat
    OBVIOUS
  <2>2. Min(I) \in I
    <3> HIDE DEF I
    <3> QED
      BY <1>3, <2>1, MinIsSmallest
  <2> QED
    BY <1>1, <1>3, <2>2
<1>4. CASE I = {}
  <2>1. \A i \in DOMAIN txt : txt[i].kind # "dataset"
    BY <1>2, <1>4
  <2> QED
    BY <1>1, <1>4, <2>1 DEF Range
<1> QED
  BY <1>3, <1>4

LEMMA FoundRowset ==
  ASSUME NEW txt \in Seq(Pieces), NEW k, k = SelectInSeq(txt, IsRowset), k # 0
  PROVE  k \in 1 .. Len(txt) /\ txt[k].kind = "rowset"
<1> DEFINE I == {i \in 1 .. Len(txt) : txt[i].kind = "rowset"}
<1>1. k = IF I # {} THEN Min(I) ELSE 0
  BY DEF SelectInSeq, IsRowset
<1>2. I \in SUBSET Nat /\ I # {}
  BY <1>1
<1>3. Min(I) \in I
  <2> HIDE DEF I
  <2> QED
    BY <1>2, MinIsSmallest
<1> QED
  BY <1>1, <1>2, <1>3

LEMMA FoundField ==
  ASSUME NEW txt \in Seq(Pieces), NEW name, NEW q \in DOMAIN txt, txt[q] = Field(name),
         NEW k, k = FirstField(txt, name)
  PROVE  k \in 1 .. Len(txt) /\ txt[k] = Field(name)
<1> DEFINE I == {i \in 1 .. Len(txt) : txt[i] = Field(name)}
<1>1. k = IF I # {} THEN Min(I) ELSE 0
  BY DEF FirstField, SelectInSeq
<1>2. I \in SUBSET Nat /\ q \in I
  BY LenProperties
<1>3. Min(I) \in I
  <2> HIDE DEF I
  <2> QED
    BY <1>2, MinIsSmallest
<1> QED
  BY <1>1, <1>2, <1>3

(* A value that is text only comes through the replacement as it is.       *)
LEMMA PlainReplacement ==
  ASSUME NEW value \in Values, Plain(value), NEW match
  PROVE  Replacement(value, match) = value
<1> DEFINE n == Len(value)
           from[k \in 1 .. n + 2] ==
             IF k > n THEN <<>>
             ELSE IF value[k] # Backslash THEN <<value[k]>> \o from[k + 1]
             ELSE IF k = n THEN <<>>
             ELSE IF value[k + 1] = Digit("0") THEN <<match>> \o from[k + 2]
             ELSE IF value[k + 1].kind = "digit" THEN from[k + 2]
             ELSE <<value[k + 1]>> \o from[k + 2]
           g == [k \in 1 .. n + 2 |-> SubSeq(value, k, n)]
           P == Marks \cup Fields
<1>1. value \in Seq(P) /\ n \in Nat /\ DOMAIN value = 1 .. n
  BY LenProperties DEF Values
<1>2. \A k \in 1 .. n : value[k] # Backslash
  <2> TAKE k \in 1 .. n
  <2>1. value[k].kind \in {"lit", "digit"}
    BY <1>1 DEF Plain
  <2> QED
    BY <2>1 DEF Backslash
<1>3. \A k \in 1 .. n : <<value[k]>> \o SubSeq(value, k + 1, n) = SubSeq(value, k, n)
  BY <1>1
<1>4. \A k \in Nat : k > n => SubSeq(value, k, n) = <<>>
  BY <1>1, SubSeqEmpty
<1>5. g = [k \in 1 .. n + 2 |->
             IF k > n THEN <<>>
             ELSE IF value[k] # Backslash THEN <<value[k]>> \o g[k + 1]
             ELSE IF k = n THEN <<>>
             ELSE IF value[k + 1] = Digit("0") THEN <<match>> \o g[k + 2]
             ELSE IF value[k + 1].kind = "digit" THEN g[k + 2]
             ELSE <<value[k + 1]>> \o g[k + 2]]
  <2> SUFFICES ASSUME NEW k \in 1 .. n + 2
               PROVE  SubSeq(value, k, n) =
             IF k > n THEN <<>>
             ELSE IF value[k] # Backslash THEN <<value[k]>> \o g[k + 1]
             ELSE IF k = n THEN <<>>
             ELSE IF value[k + 1] = Digit("0") THEN <<match>> \o g[k + 2]
             ELSE IF value[k + 1].kind = "digit" THEN g[k + 2]
             ELSE <<value[k + 1]>> \o g[k + 2]
    OBVIOUS
  <2>1. CASE k > n
    BY <1>4, <2>1
  <2>2. CASE ~(k > n)
    <3>1. k \in 1 .. n /\ k + 1 \in 1 .. n + 2
      BY <1>1, <2>2
    <3>2. g[k + 1] = SubSeq(value, k + 1, n)
      BY <3>1
    <3> HIDE DEF g, n
    <3> QED
      BY <1>2, <1>3, <2>2, <3>1, <3>2
  <2> QED
    BY <2>1, <2>2
<1>6. from = [k \in 1 .. n + 2 |->
             IF k > n THEN <<>>
             ELSE IF value[k] # Backslash THEN <<value[k]>> \o from[k + 1]
             ELSE IF k = n THEN <<>>
             ELSE IF value[k + 1] = Digit("0") THEN <<match>> \o from[k + 2]
             ELSE IF value[k + 1].kind = "digit" THEN from[k + 2]
             ELSE <<value[k + 1]>> \o from[k + 2]]
  <2> HIDE DEF g, n
  <2> QED
    BY <1>5 DEF from
<1>7. Replacement(value, match) = from[1]
  BY DEF Replacement
<1> HIDE DEF from, g, n
<1>8. from[n + 1] = <<>>
  <2>1. n + 1 \in 1 .. n + 2 /\ n + 1 > n
    BY <1>1
  <2> QED
    BY <1>6, <2>1
<1>9. \A k \in 1 .. n : from[k] = <<value[k]>> \o from[k + 1]
  <2> TAKE k \in 1 .. n
  <2>1. k \in 1 .. n + 2 /\ ~(k > n)
    BY <1>1
  <2> QED
    BY <1>2, <1>6, <2>1
<1> DEFINE T == {j \in Nat : \A k \in 1 .. n + 1 : k = n + 1 - j => from[k] = SubSeq(value, k, n)}
<1>10. 0 \in T
  <2>1. n + 1 - 0 = n + 1 /\ n + 1 > n /\ n + 1 \in Nat
    BY <1>1
  <2> QED
    BY <1>4, <1>8, <2>1
<1>11. ASSUME NEW j \in T PROVE j + 1 \in T
  <2> SUFFICES ASSUME NEW k \in 1 .. n + 1, k = n + 1 - (j + 1)
               PROVE  from[k] = SubSeq(value, k, n)
    OBVIOUS
  <2>1. k \in 1 .. n /\ k + 1 \in 1 .. n + 1 /\ k + 1 = n + 1 - j
    BY <1>1
  <2>2. from[k + 1] = SubSeq(value, k + 1, n)
    BY <2>1
  <2> HIDE DEF T
  <2> QED
    BY <1>3, <1>9, <2>1, <2>2
<1>12. T = Nat
  <2>1. T \in SUBSET Nat
    OBVIOUS
  <2> HIDE DEF T
  <2> QED
    BY <1>10, <1>11, <2>1, NatSetInduction
<1>13. from[1] = SubSeq(value, 1, n)
  <2>1. n \in T
    <3> HIDE DEF T
    <3> QED
      BY <1>1, <1>12
  <2>2. 1 \in 1 .. n + 1 /\ 1 = n + 1 - n
    BY <1>1
  <2> QED
    BY <2>1, <2>2
<1>14. SubSeq(value, 1, n) = value
  BY <1>1, SubSeqFull DEF n
<1> QED
  BY <1>7, <1>13, <1>14

-----------------------------------------------------------------------------
(* The sizes kept for the datasets of the first c columns.                 *)
SizesOf(d, r, c) ==
  /\ \A q \in 1 .. c : r[q].type = "dataset" =>
       r[q].group \in DOMAIN d /\ d[r[q].group] = Len(r[q].texts)
  /\ \A g \in DOMAIN d : \E q \in 1 .. c : r[q].type = "dataset" /\ r[q].group = g

LEMMA SizeIsKept ==
  ASSUME NEW r \in Seq(Columns), NEW d, SizesOf(d, r, Len(r)), NEW g
  PROVE  /\ SizeOf(r, g) \in Nat
         /\ g \in DOMAIN d => SizeOf(r, g) = d[g]
<1> DEFINE sizes == {Len(r[k].texts) :
                       k \in {q \in DOMAIN r : r[q].type = "dataset" /\ r[q].group = g}}
<1>1. DOMAIN r = 1 .. Len(r)
  BY LenProperties
<1>2. \A q \in DOMAIN r : r[q].type = "dataset" => Len(r[q].texts) \in Nat
  <2> SUFFICES ASSUME NEW q \in DOMAIN r, r[q].type = "dataset" PROVE Len(r[q].texts) \in Nat
    OBVIOUS
  <2>1. r[q] \in Columns
    BY <1>1, ElementOfSeq
  <2>2. r[q].texts \in Seq(Values)
    BY <2>1 DEF Columns
  <2> QED
    BY <2>2, LenProperties
<1>3. CASE g \in DOMAIN d
  <2>1. sizes = {d[g]}
    BY <1>1, <1>3 DEF SizesOf
  <2>2. d[g] \in Nat
    BY <1>1, <1>2, <1>3 DEF SizesOf
  <2>3. SizeOf(r, g) = Max({0} \cup {d[g]})
    BY <2>1 DEF SizeOf
  <2>4. Max({0} \cup {d[g]}) = d[g]
    <3>1. \A n \in Nat : Max({0} \cup {n}) = n
      BY DEF Max
    <3> QED
      BY <2>2, <3>1
  <2> QED
    BY <2>2, <2>3, <2>4
<1>4. CASE g \notin DOMAIN d
  <2>1. sizes = {}
    BY <1>1, <1>4 DEF SizesOf
  <2>2. SizeOf(r, g) = Max({0} \cup {})
    BY <2>1 DEF SizeOf
  <2>3. Max({0} \cup {}) = 0
    BY DEF Max
  <2> QED
    BY <1>4, <2>2, <2>3
<1> QED
  BY <1>3, <1>4

-----------------------------------------------------------------------------
(* The invariant: what is bound so far, and that the text, with what it    *)
(* still holds of fields and datasets, stands for the documented one.      *)
Typed ==
  /\ template \in Seq(Marks \cup Fields \cup Datasets \cup Rowsets)
  /\ row \in Seq(Columns) /\ is_rowset \in BOOLEAN
  /\ pc \in {"bind", "rowset", "dataset", "replace", "done", "rejected", "crashed"}
  /\ col \in 1 .. Len(row) + 1
  /\ pc \notin {"bind", "rejected"} => col = Len(row) + 1

(* The table holds the bindings of the columns passed, the first of each   *)
(* name, and the sizes of their datasets.                                  *)
BoundSoFar ==
  /\ rep_hash = InsertAll(Nothing, BindsBefore(row, col))
  /\ SizesOf(dataset, row, col - 1)

(* What the text stands for does not change while it is made.              *)
TextKept ==
  /\ pc = "rowset" => data = template
  /\ pc \in {"dataset", "replace", "done"} =>
       data \in Seq(Pieces) /\ Rendered(row, data) = Documented

(* A bound field that is left has a key the loop has not finished with.    *)
FieldsLeft ==
  /\ pc \notin {"replace", "done"} => key = NoKey
  /\ pc \in {"replace", "done"} =>
       /\ todo \subseteq DOMAIN rep_hash /\ key \in DOMAIN rep_hash \cup {NoKey}
       /\ \A x \in Range(data) : x.kind # "dataset"
       /\ \A x \in Range(data) :
            x.kind = "field" /\ x.name \in DOMAIN rep_hash => x.name \in todo \cup {key}
  /\ pc = "done" => todo = {} /\ key = NoKey

RowInv == Typed /\ BoundSoFar /\ (PlainValues(row) => TextKept /\ FieldsLeft)

(* What the table and the sizes are when all columns are bound.            *)
LEMMA AllBound ==
  ASSUME RowInv, pc \notin {"bind", "rejected"}
  PROVE  /\ AllBinds(row) \in Seq(Bound) /\ Sized(row)
         /\ rep_hash = InsertAll(Nothing, AllBinds(row))
         /\ \A g \in DOMAIN dataset : dataset[g] \in Nat /\ SizeOf(row, g) = dataset[g]
<1>1. row \in Seq(Columns) /\ col = Len(row) + 1 /\ Len(row) \in Nat
  BY LenProperties DEF RowInv, Typed
<1>2. rep_hash = InsertAll(Nothing, AllBinds(row))
  BY <1>1, BindsOfAll DEF RowInv, BoundSoFar
<1>3. AllBinds(row) \in Seq(Bound)
  <2>1. CASE Len(row) = 0
    <3>1. BindsBefore(row, 1) = AllBinds(row)
      <4>1. Len(row) + 1 = 1
        BY <2>1
      <4>2. BindsBefore(row, Len(row) + 1) = AllBinds(row)
        BY <1>1, BindsOfAll
      <4> QED
        BY <4>1, <4>2
    <3> QED
      BY <3>1, BindsOfNone, SystemTyped
  <2>2. CASE Len(row) # 0
    <3>1. Len(row) \in 1 .. Len(row)
      BY <1>1, <2>2
    <3>2. BindsBefore(row, Len(row) + 1) \in Seq(Bound)
      BY <1>1, <3>1, BindsOfOneMore
    <3> QED
      BY <1>1, <3>2, BindsOfAll
  <2> QED
    BY <2>1, <2>2
<1>4. SizesOf(dataset, row, Len(row))
  BY <1>1 DEF RowInv, BoundSoFar
<1>5. \A g : SizeOf(row, g) \in Nat /\ (g \in DOMAIN dataset => SizeOf(row, g) = dataset[g])
  BY <1>1, <1>4, SizeIsKept
<1> QED
  BY <1>2, <1>3, <1>5 DEF Sized

(* The names of the table are names.                                       *)
LEMMA NamesBound ==
  ASSUME RowInv, pc \notin {"bind", "rejected"}, NEW name \in DOMAIN rep_hash
  PROVE  /\ name # NoKey
         /\ ValueOf(row, name) = rep_hash[name] /\ rep_hash[name] \in Values
         /\ PlainValues(row) => Plain(rep_hash[name])
<1> DEFINE a == AllBinds(row)
<1>1. a \in Seq(Bound) /\ rep_hash = InsertAll(Nothing, a)
  BY AllBound
<1>2. ValueOf(row, name) = rep_hash[name]
  BY <1>1, ValueIsBound
<1>3. PICK k \in DOMAIN a : rep_hash[name] = a[k].text /\ name = a[k].name
  BY <1>1, ValueIsBound
<1>4. a[k] \in Bound
  <2>1. k \in 1 .. Len(a)
    BY <1>1, LenProperties
  <2> HIDE DEF a
  <2> QED
    BY <1>1, <2>1, ElementOfSeq
<1>5. a[k].text \in Values /\ a[k].name \in FieldNames \cup ElementNames
  <2> HIDE DEF a
  <2> QED
    BY <1>4 DEF Bound
<1>6. NoKey \notin FieldNames \cup ElementNames
  BY DEF NoKey, FieldNames, ElementNames
<1>7. PlainValues(row) => Plain(a[k].text)
  BY DEF PlainValues
<1> QED
  BY <1>2, <1>3, <1>5, <1>6, <1>7

(* The program starts with the bindings of system.*.                       *)
LEMMA RowInit == Init => RowInv
<1> SUFFICES ASSUME Init PROVE RowInv
  OBVIOUS
<1>1. template \in Templates /\ row \in Rows
  BY DEF Init
<1>2. template \in Seq(Marks \cup Fields \cup Datasets \cup Rowsets) /\ row \in Seq(Columns)
  BY <1>1, TextsAssumption
<1>3. Len(row) \in Nat
  BY <1>2, LenProperties
<1>4. Typed
  BY <1>2, <1>3 DEF Init, Typed
<1>5. BoundSoFar
  <2>1. rep_hash = InsertAll(Nothing, BindsBefore(row, col))
    BY BindsOfNone DEF Init
  <2>2. SizesOf(dataset, row, col - 1)
    BY DEF Init, SizesOf, Nothing
  <2> QED
    BY <2>1, <2>2 DEF BoundSoFar
<1>6. TextKept /\ FieldsLeft
  BY DEF Init, TextKept, FieldsLeft
<1> QED
  BY <1>4, <1>5, <1>6 DEF RowInv

(* A column that is passed adds its bindings to the table.                 *)
LEMMA ColumnPassed ==
  ASSUME RowInv, pc = "bind", col \in 1 .. Len(row), row' = row, col' = col + 1,
         rep_hash' = InsertAll(rep_hash, ColumnBinds(row[col]))
  PROVE  rep_hash' = InsertAll(Nothing, BindsBefore(row', col'))
<1>1. row \in Seq(Columns)
  BY DEF RowInv, Typed
<1>2. rep_hash = InsertAll(Nothing, BindsBefore(row, col))
  BY DEF RowInv, BoundSoFar
<1>3. /\ BindsBefore(row, col) \in Seq(Bound)
      /\ BindsBefore(row, col + 1) = BindsBefore(row, col) \o ColumnBinds(row[col])
  BY <1>1, BindsOfOneMore
<1>4. row[col] \in Columns
  BY <1>1, ElementOfSeq
<1>5. ColumnBinds(row[col]) \in Seq(Bound)
  BY <1>4, ColumnBindsTyped
<1> QED
  <2>1. PICK x \in Seq(Bound) : x = BindsBefore(row, col)
    BY <1>3
  <2>2. PICK y \in Seq(Bound) : y = ColumnBinds(row[col])
    BY <1>5
  <2>3. InsertAll(InsertAll(Nothing, x), y) = InsertAll(Nothing, x \o y)
    BY InsertedInTurn
  <2>4. BindsBefore(row', col') = x \o y
    BY <1>3, <2>1, <2>2
  <2>5. rep_hash' = InsertAll(InsertAll(Nothing, x), y)
    BY <1>2, <2>1, <2>2
  <2> QED
    BY <2>3, <2>4, <2>5

(* A step that leaves the text alone before the text is made.              *)
LEMMA NoTextYet ==
  ASSUME RowInv, pc = "bind", pc' \in {"bind", "rejected"}, key' = key, row' = row
  PROVE  PlainValues(row') => TextKept' /\ FieldsLeft'
<1> SUFFICES ASSUME PlainValues(row) PROVE TextKept' /\ FieldsLeft'
  OBVIOUS
<1>1. key = NoKey
  BY DEF RowInv, FieldsLeft
<1> QED
  BY <1>1 DEF TextKept, FieldsLeft

LEMMA BindColumnKeeps == RowInv /\ BindColumn => RowInv'
<1> SUFFICES ASSUME RowInv, BindColumn PROVE RowInv'
  OBVIOUS
<1>1. /\ pc = "bind" /\ pc' = pc /\ key' = key /\ row' = row /\ template' = template
      /\ is_rowset' = is_rowset /\ dataset' = dataset /\ col' = col + 1
      /\ col <= Len(row) /\ row[col].type = "value"
      /\ rep_hash' = InsertAll(rep_hash, row[col].binds)
  BY DEF BindColumn, AtColumn, Column
<1>2. Len(row) \in Nat /\ col \in 1 .. Len(row) /\ Typed
  BY <1>1, LenProperties DEF RowInv, Typed
<1>3. Typed'
  BY <1>1, <1>2 DEF Typed
<1>4. rep_hash' = InsertAll(Nothing, BindsBefore(row', col'))
  BY <1>1, <1>2, ColumnPassed DEF ColumnBinds
<1>5. SizesOf(dataset', row', col' - 1)
  <2>1. SizesOf(dataset, row, col - 1)
    BY DEF RowInv, BoundSoFar
  <2>2. col' - 1 = col /\ \A q \in 1 .. col : q \in 1 .. col - 1 \/ q = col
    BY <1>1, <1>2
  <2>3. \A q \in 1 .. col - 1 : q \in 1 .. col
    BY <1>2
  <2>4. SizesOf(dataset, row, col)
    BY <1>1, <2>1, <2>2, <2>3 DEF SizesOf
  <2> QED
    BY <1>1, <2>2, <2>4
<1> QED
  BY <1>1, <1>3, <1>4, <1>5, NoTextYet DEF RowInv, BoundSoFar

LEMMA BindDatasetKeeps == RowInv /\ BindDataset => RowInv'
<1> SUFFICES ASSUME RowInv, BindDataset PROVE RowInv'
  OBVIOUS
<1>1. /\ pc = "bind" /\ pc' = pc /\ key' = key /\ row' = row /\ template' = template
      /\ is_rowset' = is_rowset /\ col' = col + 1
      /\ col <= Len(row) /\ row[col].type = "dataset"
      /\ rep_hash' = InsertAll(rep_hash, ElementBinds(row[col]))
  BY DEF BindDataset, AtColumn, Column
<1>2. Len(row) \in Nat /\ col \in 1 .. Len(row) /\ Typed
  BY <1>1, LenProperties DEF RowInv, Typed
<1>3. Typed'
  BY <1>1, <1>2 DEF Typed
<1>4. rep_hash' = InsertAll(Nothing, BindsBefore(row', col'))
  BY <1>1, <1>2, ColumnPassed DEF ColumnBinds
<1>5. SizesOf(dataset', row', col' - 1)
  <2> DEFINE g == row[col].group
             n == Len(row[col].texts)
  <2>1. /\ dataset' = [x \in DOMAIN dataset \cup {g} |-> IF x = g THEN n ELSE dataset[x]]
        /\ g \in DOMAIN dataset => dataset[g] = n
    BY DEF BindDataset, Column, Extended, Agrees
  <2>2. SizesOf(dataset, row, col - 1)
    BY DEF RowInv, BoundSoFar
  <2>3. col' - 1 = col /\ col \in 1 .. col /\ \A q \in 1 .. col : q \in 1 .. col - 1 \/ q = col
    BY <1>1, <1>2
  <2>4. \A q \in 1 .. col - 1 : q \in 1 .. col
    BY <1>2
  <2>5. /\ DOMAIN dataset' = DOMAIN dataset \cup {g} /\ dataset'[g] = n
        /\ \A x \in DOMAIN dataset : dataset'[x] = dataset[x]
    BY <2>1
  <2>6. \A q \in 1 .. col : row[q].type = "dataset" =>
          row[q].group \in DOMAIN dataset' /\ dataset'[row[q].group] = Len(row[q].texts)
    BY <2>2, <2>3, <2>5 DEF SizesOf
  <2>7. \A x \in DOMAIN dataset' : \E q \in 1 .. col : row[q].type = "dataset" /\ row[q].group = x
    <3> SUFFICES ASSUME NEW x \in DOMAIN dataset'
                 PROVE  \E q \in 1 .. col : row[q].type = "dataset" /\ row[q].group = x
      OBVIOUS
    <3>1. CASE x = g
      BY <1>1, <2>3, <3>1
    <3>2. CASE x \in DOMAIN dataset
      BY <2>2, <2>4, <3>2 DEF SizesOf
    <3> QED
      BY <2>5, <3>1, <3>2
  <2> QED
    BY <1>1, <2>3, <2>6, <2>7 DEF SizesOf
<1> QED
  BY <1>1, <1>3, <1>4, <1>5, NoTextYet DEF RowInv, BoundSoFar

LEMMA RejectDatasetKeeps == RowInv /\ RejectDataset => RowInv'
<1> SUFFICES ASSUME RowInv, RejectDataset PROVE RowInv'
  OBVIOUS
<1>1. /\ pc = "bind" /\ pc' = "rejected" /\ key' = key /\ row' = row /\ template' = template
      /\ is_rowset' = is_rowset /\ col' = col /\ rep_hash' = rep_hash /\ dataset' = dataset
  BY DEF RejectDataset, AtColumn, bindings
<1>2. Typed' /\ BoundSoFar'
  BY <1>1 DEF RowInv, Typed, BoundSoFar
<1> QED
  BY <1>1, <1>2, NoTextYet DEF RowInv

LEMMA ColumnsDoneKeeps == RowInv /\ ColumnsDone => RowInv'
<1> SUFFICES ASSUME RowInv, ColumnsDone PROVE RowInv'
  OBVIOUS
<1>1. /\ pc = "bind" /\ pc' = "rowset" /\ key' = key /\ row' = row /\ template' = template
      /\ is_rowset' = is_rowset /\ col' = col /\ rep_hash' = rep_hash /\ dataset' = dataset
      /\ col > Len(row) /\ data' = template
  BY DEF ColumnsDone, bindings
<1>2. Len(row) \in Nat
  BY LenProperties DEF RowInv, Typed
<1>3. Typed' /\ BoundSoFar'
  BY <1>1, <1>2 DEF RowInv, Typed, BoundSoFar
<1>4. PlainValues(row) => key = NoKey
  BY <1>1 DEF RowInv, FieldsLeft
<1> QED
  BY <1>1, <1>3, <1>4 DEF RowInv, TextKept, FieldsLeft

-----------------------------------------------------------------------------
LEMMA TagsArePieces == Lit(RowsetTags[1]) \in Pieces /\ Lit(RowsetTags[2]) \in Pieces
<1>1. DOMAIN RowsetTags = 1 .. 2
  BY DEF RowsetTags
<1>2. RowsetTags[1] \in Range(RowsetTags) /\ RowsetTags[2] \in Range(RowsetTags)
  BY <1>1 DEF Range
<1>3. \A x \in Range(RowsetTags) : Lit(x) \in Marks
  BY DEF Lit, Marks
<1> QED
  BY <1>2, <1>3 DEF Pieces

LEMMA RowsetTakenTyped ==
  ASSUME NEW txt \in Seq(Marks \cup Fields \cup Datasets \cup Rowsets), NEW index \in BOOLEAN
  PROVE  RowsetTaken(txt, index) \in Seq(Pieces)
<1> DEFINE k == SelectInSeq(txt, IsRowset)
<1>1. txt \in Seq(Pieces)
  BY TextsOfPieces
<1>2. CASE k = 0
  BY <1>1, <1>2 DEF RowsetTaken
<1>3. CASE k # 0
  <2>1. k \in 1 .. Len(txt) /\ txt[k].kind = "rowset"
    BY <1>1, <1>3, FoundRowset
  <2>2. txt[k] \in Pieces
    BY <1>1, <2>1, ElementOfSeq
  <2>3. PICK body \in Seq(Pieces) : body = txt[k].body
    BY <2>1, <2>2, RowsetPiece, TextsOfPieces
  <2> HIDE DEF k
  <2>4. PICK o \in Seq(Pieces) : o = <<Lit(RowsetTags[1])>>
    <3>1. Lit(RowsetTags[1]) \in Pieces
      BY TagsArePieces
    <3> DEFINE tag == Lit(RowsetTags[1])
    <3> HIDE DEF tag
    <3>2. tag \in Pieces
      BY <3>1 DEF tag
    <3>3. <<tag>> \in Seq(Pieces)
      BY <3>2
    <3> QED
      BY <3>3 DEF tag
  <2>5. PICK c \in Seq(Pieces) : c = <<Lit(RowsetTags[2])>>
    <3>1. Lit(RowsetTags[2]) \in Pieces
      BY TagsArePieces
    <3> DEFINE tag == Lit(RowsetTags[2])
    <3> HIDE DEF tag
    <3>2. tag \in Pieces
      BY <3>1 DEF tag
    <3>3. <<tag>> \in Seq(Pieces)
      BY <3>2
    <3> QED
      BY <3>3 DEF tag
  <2>6. PICK new \in Seq(Pieces) : new = (o \o body) \o c
    <3>1. o \o body \in Seq(Pieces)
      BY ConcatProperties
    <3> QED
      BY <3>1, ConcatProperties
  <2>7. Spliced(txt, k, new) \in Seq(Pieces)
    BY <1>1, <2>1, SplicedPieces
  <2>8. RowsetTaken(txt, index) = IF index THEN body ELSE Spliced(txt, k, new)
    BY <1>3, <2>3, <2>4, <2>5, <2>6 DEF RowsetTaken, k
  <2> QED
    BY <2>7, <2>8
<1> QED
  BY <1>2, <1>3

LEMMA TakeRowsetKeeps == RowInv /\ TakeRowset => RowInv'
<1> SUFFICES ASSUME RowInv, TakeRowset PROVE RowInv'
  OBVIOUS
<1>1. /\ pc = "rowset" /\ pc' = "dataset" /\ key' = key /\ row' = row /\ template' = template
      /\ is_rowset' = is_rowset /\ col' = col /\ rep_hash' = rep_hash /\ dataset' = dataset
      /\ data' = RowsetTaken(data, is_rowset)
  BY DEF TakeRowset, bindings
<1>2. Typed' /\ BoundSoFar'
  BY <1>1 DEF RowInv, Typed, BoundSoFar
<1>3. ASSUME PlainValues(row) PROVE TextKept' /\ FieldsLeft'
  <2>1. data = template /\ key = NoKey
    BY <1>1, <1>3 DEF RowInv, TextKept, FieldsLeft
  <2>2. data' \in Seq(Pieces)
    BY <1>1, <2>1, RowsetTakenTyped DEF RowInv, Typed
  <2>3. Rendered(row', data') = Documented'
    BY <1>1, <2>1 DEF Documented
  <2> QED
    BY <1>1, <2>1, <2>2, <2>3 DEF TextKept, FieldsLeft
<1> QED
  BY <1>1, <1>2, <1>3 DEF RowInv

LEMMA ExpandDatasetKeeps == RowInv /\ ExpandDataset => RowInv'
<1> SUFFICES ASSUME RowInv, ExpandDataset PROVE RowInv'
  OBVIOUS
<1>1. PICK k : k = SelectInSeq(data, IsDataset)
  OBVIOUS
<1>2. /\ pc = "dataset" /\ pc' = pc /\ key' = key /\ row' = row /\ template' = template
      /\ is_rowset' = is_rowset /\ col' = col /\ rep_hash' = rep_hash /\ dataset' = dataset
      /\ k # 0 /\ data[k].group \in DOMAIN dataset
      /\ data' = Spliced(data, k, Copies(data[k]))
  BY <1>1 DEF ExpandDataset, bindings
<1>3. Typed' /\ BoundSoFar'
  BY <1>2 DEF RowInv, Typed, BoundSoFar
<1>4. ASSUME PlainValues(row) PROVE TextKept' /\ FieldsLeft'
  <2>1. data \in Seq(Pieces) /\ Rendered(row, data) = Documented /\ key = NoKey
    BY <1>2, <1>4 DEF RowInv, TextKept, FieldsLeft
  <2>2. k \in 1 .. Len(data) /\ data[k].kind = "dataset"
    BY <1>1, <1>2, <2>1, FoundDataset
  <2>3. PICK x \in Pieces : x = data[k] /\ x.kind = "dataset"
    BY <2>1, <2>2, ElementOfSeq
  <2>4. Sized(row) /\ dataset[x.group] \in Nat /\ SizeOf(row, x.group) = dataset[x.group]
    BY <1>2, <2>3, AllBound
  <2>5. PICK n \in Nat : n = dataset[x.group] /\ n = SizeOf(row, x.group)
    BY <2>4
  <2>6. PICK new \in Seq(Pieces) : new = AllElements(x, n)
    BY <2>3, ElementsTyped, TextsOfPieces
  <2>7. Copies(data[k]) = new
    BY <2>3, <2>5, <2>6 DEF Copies, AllElements
  <2>8. Put(Expand(row), new) = Expand(row)[data[k]]
    BY <2>3, <2>4, <2>5, <2>6, DatasetExpanded
  <2>9. Expand(row) \in [Pieces -> Seq(Pieces)]
    BY <2>4, ExpandTyped
  <2>10. data' \in Seq(Pieces) /\ Put(Expand(row), data') = Put(Expand(row), data)
    BY <1>2, <2>1, <2>2, <2>7, <2>8, <2>9, SplicedPieces, SplicedPut
  <2>11. Rendered(row, data') = Documented
    BY <2>1, <2>10, RenderedIsPut
  <2>12. Documented' = Documented
    BY <1>2 DEF Documented
  <2> QED
    BY <1>2, <2>1, <2>10, <2>11, <2>12 DEF TextKept, FieldsLeft
<1> QED
  BY <1>2, <1>3, <1>4 DEF RowInv

LEMMA UnknownDatasetKeeps == RowInv /\ UnknownDataset => RowInv'
<1> SUFFICES ASSUME RowInv, UnknownDataset PROVE RowInv'
  OBVIOUS
<1>1. /\ pc = "dataset" /\ pc' = "crashed" /\ key' = key /\ row' = row /\ template' = template
      /\ is_rowset' = is_rowset /\ col' = col /\ rep_hash' = rep_hash /\ dataset' = dataset
  BY DEF UnknownDataset, bindings
<1> QED
  BY <1>1 DEF RowInv, Typed, BoundSoFar, TextKept, FieldsLeft

LEMMA RegionsDoneKeeps == RowInv /\ RegionsDone => RowInv'
<1> SUFFICES ASSUME RowInv, RegionsDone PROVE RowInv'
  OBVIOUS
<1>1. /\ pc = "dataset" /\ pc' = "replace" /\ key' = key /\ row' = row /\ template' = template
      /\ is_rowset' = is_rowset /\ col' = col /\ rep_hash' = rep_hash /\ dataset' = dataset
      /\ data' = data /\ todo' = DOMAIN rep_hash /\ SelectInSeq(data, IsDataset) = 0
  BY DEF RegionsDone, bindings
<1>2. Typed' /\ BoundSoFar'
  BY <1>1 DEF RowInv, Typed, BoundSoFar
<1>3. ASSUME PlainValues(row) PROVE TextKept' /\ FieldsLeft'
  <2>1. data \in Seq(Pieces) /\ Rendered(row, data) = Documented /\ key = NoKey
    BY <1>1, <1>3 DEF RowInv, TextKept, FieldsLeft
  <2>2. \A x \in Range(data) : x.kind # "dataset"
    BY <1>1, <2>1, FoundDataset
  <2>3. Documented' = Documented
    BY <1>1 DEF Documented
  <2> QED
    BY <1>1, <2>1, <2>2, <2>3 DEF TextKept, FieldsLeft
<1> QED
  BY <1>1, <1>2, <1>3 DEF RowInv

LEMMA NextKeyKeeps == RowInv /\ NextKey => RowInv'
<1> SUFFICES ASSUME RowInv, NextKey PROVE RowInv'
  OBVIOUS
<1>1. /\ pc = "replace" /\ pc' = pc /\ key = NoKey /\ row' = row /\ template' = template
      /\ is_rowset' = is_rowset /\ col' = col /\ rep_hash' = rep_hash /\ dataset' = dataset
      /\ data' = data /\ key' \in todo /\ todo' = todo \ {key'}
  BY DEF NextKey, bindings
<1>2. Typed' /\ BoundSoFar'
  BY <1>1 DEF RowInv, Typed, BoundSoFar
<1>3. ASSUME PlainValues(row) PROVE TextKept' /\ FieldsLeft'
  <2>1. data \in Seq(Pieces) /\ Rendered(row, data) = Documented /\ FieldsLeft
    BY <1>1, <1>3 DEF RowInv, TextKept
  <2>2. Documented' = Documented
    BY <1>1 DEF Documented
  <2>3. \A name \in DOMAIN rep_hash : name # NoKey
    BY <1>1, NamesBound
  <2>4. FieldsLeft'
    BY <1>1, <2>1, <2>3 DEF FieldsLeft
  <2> QED
    BY <1>1, <2>1, <2>2, <2>4 DEF TextKept
<1> QED
  BY <1>1, <1>2, <1>3 DEF RowInv

LEMMA ReplaceFirstKeeps == RowInv /\ ReplaceFirst => RowInv'
<1> SUFFICES ASSUME RowInv, ReplaceFirst PROVE RowInv'
  OBVIOUS
<1>1. PICK k : k = FirstField(data, key)
  OBVIOUS
<1>2. /\ pc = "replace" /\ pc' = pc /\ key # NoKey /\ key' = key /\ row' = row
      /\ template' = template /\ is_rowset' = is_rowset /\ col' = col
      /\ rep_hash' = rep_hash /\ dataset' = dataset /\ todo' = todo /\ Occurs(key)
      /\ data' = Spliced(data, k, Replacement(rep_hash[key], Field(key)))
  BY <1>1 DEF ReplaceFirst, bindings
<1>3. Typed' /\ BoundSoFar'
  BY <1>2 DEF RowInv, Typed, BoundSoFar
<1>4. ASSUME PlainValues(row) PROVE TextKept' /\ FieldsLeft'
  <2>1. data \in Seq(Pieces) /\ Rendered(row, data) = Documented /\ FieldsLeft
    BY <1>2, <1>4 DEF RowInv, TextKept
  <2>2. k \in 1 .. Len(data) /\ data[k] = Field(key)
    BY <1>1, <1>2, <2>1, FoundField DEF Occurs
  <2>3. Field(key) \in Pieces
    BY <2>1, <2>2, ElementOfSeq
  <2>4. key \in DOMAIN rep_hash
    BY <1>2, <2>1 DEF FieldsLeft
  <2>5. PICK new : new = rep_hash[key]
    OBVIOUS
  <2>6. new \in Values /\ Plain(new) /\ ValueOf(row, key) = new
    BY <1>2, <1>4, <2>4, <2>5, NamesBound
  <2>7. Replacement(rep_hash[key], Field(key)) = new
    BY <2>5, <2>6, PlainReplacement
  <2>8. Sized(row)
    BY <1>2, AllBound
  <2>9. Expand(row) \in [Pieces -> Seq(Pieces)]
    BY <2>8, ExpandTyped
  <2>10. new \in Seq(Pieces) /\ DOMAIN new = 1 .. Len(new)
    BY <2>6, TextsOfPieces, LenProperties
  <2>11. \A x \in Range(new) : x.kind \in {"lit", "digit"}
    BY <2>6 DEF Plain, Range
  <2>12. Put(Expand(row), new) = new
    <3>1. ASSUME NEW q \in 1 .. Len(new) PROVE Expand(row)[new[q]] = <<new[q]>>
      <4>1. new[q] \in Pieces /\ new[q].kind \in {"lit", "digit"}
        BY <2>10, <2>11, ElementOfSeq DEF Range
      <4>2. Expand(row)[new[q]] = Fill(row)[new[q]]
        BY <2>8, <4>1, ExpandTyped
      <4> QED
        BY <4>1, <4>2 DEF Fill
    <3> QED
      BY <2>9, <2>10, <3>1, PutSame
  <2>13. Expand(row)[Field(key)] = new
    <3>1. Field(key).kind = "field" /\ Field(key).name = key
      BY DEF Field
    <3>2. Expand(row)[Field(key)] = Fill(row)[Field(key)]
      BY <2>3, <2>8, <3>1, ExpandTyped
    <3> QED
      BY <2>3, <2>6, <3>1, <3>2 DEF Fill
  <2>14. data' = Spliced(data, k, new)
    BY <1>2, <2>7
  <2>15. /\ data' \in Seq(Pieces) /\ Put(Expand(row), data') = Put(Expand(row), data)
         /\ \A x \in Range(data') : x \in Range(data) \/ x \in Range(new)
    <3>1. /\ Spliced(data, k, new) \in Seq(Pieces)
          /\ \A x \in Range(Spliced(data, k, new)) : x \in Range(data) \/ x \in Range(new)
      BY <2>1, <2>2, <2>10, SplicedPieces
    <3>2. Put(Expand(row), new) = Expand(row)[data[k]]
      BY <2>2, <2>12, <2>13
    <3>3. Put(Expand(row), Spliced(data, k, new)) = Put(Expand(row), data)
      BY <2>1, <2>2, <2>9, <2>10, <3>2, SplicedPut
    <3> QED
      BY <2>14, <3>1, <3>3
  <2>16. Rendered(row, data') = Documented
    BY <2>1, <2>15, RenderedIsPut
  <2>17. Documented' = Documented
    BY <1>2 DEF Documented
  <2>18. FieldsLeft'
    BY <1>2, <2>1, <2>11, <2>15 DEF FieldsLeft
  <2> QED
    BY <1>2, <2>15, <2>16, <2>17, <2>18 DEF TextKept
<1> QED
  BY <1>2, <1>3, <1>4 DEF RowInv

LEMMA KeyDoneKeeps == RowInv /\ KeyDone => RowInv'
<1> SUFFICES ASSUME RowInv, KeyDone PROVE RowInv'
  OBVIOUS
<1>1. /\ pc = "replace" /\ pc' = pc /\ key' = NoKey /\ row' = row /\ template' = template
      /\ is_rowset' = is_rowset /\ col' = col /\ rep_hash' = rep_hash /\ dataset' = dataset
      /\ data' = data /\ todo' = todo /\ ~Occurs(key)
  BY DEF KeyDone, bindings
<1>2. Typed' /\ BoundSoFar'
  BY <1>1 DEF RowInv, Typed, BoundSoFar
<1>3. ASSUME PlainValues(row) PROVE TextKept' /\ FieldsLeft'
  <2>1. data \in Seq(Pieces) /\ Rendered(row, data) = Documented /\ FieldsLeft
    BY <1>1, <1>3 DEF RowInv, TextKept
  <2>2. Documented' = Documented
    BY <1>1 DEF Documented
  <2>3. \A x \in Range(data) : x.kind = "field" => x.name # key
    <3> SUFFICES ASSUME NEW x \in Range(data), x.kind = "field", x.name = key PROVE FALSE
      OBVIOUS
    <3>1. PICK q \in DOMAIN data : x = data[q]
      BY DEF Range
    <3>2. x \in Pieces
      BY <2>1, <3>1, ElementOfSeq, LenProperties
    <3>3. x = Field(key)
      BY <3>2, FieldPiece
    <3> QED
      BY <1>1, <3>1, <3>3 DEF Occurs
  <2>4. FieldsLeft'
    BY <1>1, <2>1, <2>3 DEF FieldsLeft
  <2> QED
    BY <1>1, <2>1, <2>2, <2>4 DEF TextKept
<1> QED
  BY <1>1, <1>2, <1>3 DEF RowInv

LEMMA WriteXmlKeeps == RowInv /\ WriteXml => RowInv'
<1> SUFFICES ASSUME RowInv, WriteXml PROVE RowInv'
  OBVIOUS
<1>1. /\ pc = "replace" /\ pc' = "done" /\ key = NoKey /\ key' = key /\ row' = row
      /\ template' = template /\ is_rowset' = is_rowset /\ col' = col /\ rep_hash' = rep_hash
      /\ dataset' = dataset /\ data' = data /\ todo = {} /\ todo' = todo
  BY DEF WriteXml, bindings
<1>2. Typed' /\ BoundSoFar'
  BY <1>1 DEF RowInv, Typed, BoundSoFar
<1>3. Documented' = Documented
  BY <1>1 DEF Documented
<1> QED
  BY <1>1, <1>2, <1>3 DEF RowInv, TextKept, FieldsLeft

LEMMA RowInvKept == RowInv /\ [Next]_vars => RowInv'
<1> SUFFICES ASSUME RowInv, [Next]_vars PROVE RowInv'
  OBVIOUS
<1>1. CASE UNCHANGED vars
  <2>1. Documented' = Documented
    BY <1>1 DEF vars, bindings, Documented
  <2> QED
    BY <1>1, <2>1 DEF vars, bindings, RowInv, Typed, BoundSoFar, TextKept, FieldsLeft
<1> QED
  BY <1>1, BindColumnKeeps, BindDatasetKeeps, RejectDatasetKeeps, ColumnsDoneKeeps,
     TakeRowsetKeeps, ExpandDatasetKeeps, UnknownDatasetKeeps, RegionsDoneKeeps,
     NextKeyKeeps, ReplaceFirstKeeps, KeyDoneKeeps, WriteXmlKeeps
     DEF Next, Finished

(* What is left in a finished text stays what it is.                       *)
LEMMA FinishedText == RowInv => ValuesInPlace
<1> SUFFICES ASSUME RowInv, pc = "done", PlainValues(row) PROVE data = Documented
  BY DEF ValuesInPlace
<1>1. data \in Seq(Pieces) /\ Rendered(row, data) = Documented
  BY DEF RowInv, TextKept
<1>2. \A x \in Range(data) :
        x.kind # "dataset" /\ (x.kind = "field" => x.name \notin DOMAIN rep_hash)
  <2>1. \A name \in DOMAIN rep_hash : name # NoKey
    BY NamesBound
  <2> QED
    BY <2>1 DEF RowInv, FieldsLeft
<1>3. Sized(row) /\ AllBinds(row) \in Seq(Bound) /\ rep_hash = InsertAll(Nothing, AllBinds(row))
  BY AllBound
<1>4. Expand(row) \in [Pieces -> Seq(Pieces)]
  BY <1>3, ExpandTyped
<1>5. ASSUME NEW q \in 1 .. Len(data) PROVE Expand(row)[data[q]] = <<data[q]>>
  <2>1. PICK x \in Pieces : x = data[q] /\ x \in Range(data)
    BY <1>1, ElementOfSeq, LenProperties DEF Range
  <2>2. Expand(row)[x] = Fill(row)[x]
    BY <1>2, <1>3, <2>1, ExpandTyped
  <2>3. CASE x.kind = "field"
    <3>1. ValueOf(row, x.name) = <<Field(x.name)>> /\ x = Field(x.name)
      BY <1>2, <1>3, <2>1, <2>3, ValueIsBound, FieldPiece
    <3> QED
      BY <2>1, <2>2, <2>3, <3>1 DEF Fill
  <2>4. CASE x.kind # "field"
    BY <2>1, <2>2, <2>4 DEF Fill
  <2> QED
    BY <2>3, <2>4
<1>6. Put(Expand(row), data) = data
  BY <1>1, <1>4, <1>5, PutSame
<1> QED
  BY <1>1, <1>6, RenderedIsPut

(* In every text that is finished, whatever the order the table delivers   *)
(* its keys in, each field has given way to the first value bound to its   *)
(* name, each dataset to as many copies as its columns have elements, and  *)
(* nothing else has changed.                                               *)
THEOREM TextIsDocumented == Spec => []ValuesInPlace
<1>1. Init => RowInv
  BY RowInit
<1>2. RowInv /\ [Next]_vars => RowInv'
  BY RowInvKept
<1>3. RowInv => ValuesInPlace
  BY FinishedText
<1> QED
  BY <1>1, <1>2, <1>3, PTL DEF Spec
=============================================================================
