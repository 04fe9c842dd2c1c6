--------------------------- MODULE ArchiverProofs ---------------------------
(***************************************************************************)
(* Proofs about Archiver: the removal leaves nothing behind unless the     *)
(* system refuses (RemovedEntirely), and packing and removing do together  *)
(* what Packing says (ArchiverImplementsPacking).                          *)
(*                                                                         *)
(*   WalkInv   what is on disk stays a directory tree until it is gone;    *)
(*             the calls under way are the directories on one path of it,  *)
(*             and what a call has left are entries of its directory       *)
(*   Listing   the list holds the files that were passed, each once        *)
(*   Zipping   each file is in the archive, in hand or in the list; InHand *)
(*             is how far the one in hand has come                         *)
(*   Removing  what is there is still to come or on the way to it, unless  *)
(*             something was refused, which then is there for good         *)
(*                                                                         *)
(* A path is Pending when the walk has it, or a path above it, before it,  *)
(* and Under when it is a directory that is being read.                    *)
(***************************************************************************)
EXTENDS Archiver, FiniteSetTheorems, SequenceTheorems, TLAPS

(* The first k names of a path below the directory.                        *)
Up(x, k) == SubSeq(x, 1, Len(Root) + k)

LEMMA Appended ==
  ASSUME NEW S, NEW q \in Seq(S), NEW e \in S
  PROVE  /\ Append(q, e) \in Seq(S) /\ Len(Append(q, e)) = Len(q) + 1
         /\ Range(Append(q, e)) = Range(q) \cup {e}
<1>1. /\ Append(q, e) \in Seq(S) /\ Len(Append(q, e)) = Len(q) + 1 /\ Len(q) \in Nat
      /\ Append(q, e)[Len(q) + 1] = e /\ \A i \in 1 .. Len(q) : Append(q, e)[i] = q[i]
  OBVIOUS
<1>2. /\ DOMAIN q = 1 .. Len(q) /\ DOMAIN Append(q, e) = 1 .. Len(q) + 1
      /\ 1 .. Len(q) + 1 = (1 .. Len(q)) \cup {Len(q) + 1}
  BY <1>1
<1> QED
  BY <1>1, <1>2 DEF Range

LEMMA RangeEmpty == ASSUME NEW q, q = <<>> PROVE Range(q) = {} /\ Len(q) = 0
<1>1. Len(<<>>) = 0 /\ DOMAIN <<>> = {}
  OBVIOUS
<1> QED
  BY <1>1 DEF Range

LEMMA FirstAndRest ==
  ASSUME NEW S, NEW q \in Seq(S), q # <<>>
  PROVE  /\ Len(q) \in Nat /\ Len(Tail(q)) = Len(q) - 1
         /\ Range(q) = {Head(q)} \cup Range(Tail(q))
<1> DEFINE n == Len(q)
           t == Tail(q)
<1>1. /\ n \in Nat \ {0} /\ DOMAIN q = 1 .. n /\ Head(q) = q[1]
      /\ t \in Seq(S) /\ Len(t) = n - 1 /\ DOMAIN t = 1 .. n - 1
      /\ \A i \in 1 .. n - 1 : t[i] = q[i + 1]
  OBVIOUS
<1> HIDE DEF n, t
<1>2. \A i \in 1 .. n : i = 1 \/ (i - 1 \in 1 .. n - 1 /\ i = (i - 1) + 1)
  BY <1>1
<1>3. ASSUME NEW i \in 1 .. n PROVE q[i] \in {Head(q)} \cup Range(t)
  <2>1. CASE i = 1
    BY <1>1, <2>1
  <2>2. CASE i # 1
    <3>1. i - 1 \in 1 .. n - 1 /\ t[i - 1] = q[i]
      BY <1>1, <1>2, <2>2
    <3> QED
      BY <1>1, <3>1 DEF Range
  <2> QED
    BY <2>1, <2>2
<1>4. ASSUME NEW i \in 1 .. n - 1 PROVE t[i] \in Range(q)
  BY <1>1, SMTT(30) DEF Range
<1>5. Head(q) \in Range(q)
  BY <1>1 DEF Range
<1>6. Range(q) = {Head(q)} \cup Range(t)
  BY <1>1, <1>3, <1>4, <1>5 DEF Range
<1> QED
  BY <1>1, <1>6 DEF n, t

LEMMA SubSeqFacts ==
  ASSUME NEW S, NEW x \in Seq(S), NEW n \in 0 .. Len(x)
  PROVE  /\ SubSeq(x, 1, n) \in Seq(S) /\ Len(SubSeq(x, 1, n)) = n
         /\ \A i \in 1 .. n : SubSeq(x, 1, n)[i] = x[i]
         /\ n = Len(x) => SubSeq(x, 1, n) = x
         /\ \A m \in 0 .. n : SubSeq(SubSeq(x, 1, n), 1, m) = SubSeq(x, 1, m)
OBVIOUS

LEMMA FrontFacts ==
  ASSUME NEW S, NEW x \in Seq(S), Len(x) # 0
  PROVE  Front(x) = SubSeq(x, 1, Len(x) - 1)
BY DEF Front

LEMMA ErasedFacts ==
  ASSUME NEW S, Root \in Seq(S), NEW x \in Seq(S), Len(x) >= Len(Root),
         SubSeq(x, 1, Len(Root)) = Root
  PROVE  Erased(x) \in Seq(S) /\ x = Root \o Erased(x)
<1> DEFINE r == Len(Root)
           e == Erased(x)
<1>1. r \in Nat /\ Len(x) \in Nat /\ r <= Len(x)
  OBVIOUS
<1>2. e \in Seq(S) /\ Len(e) = Len(x) - r /\ \A i \in 1 .. Len(x) - r : e[i] = x[r + i]
  BY <1>1 DEF Erased
<1>3. \A i \in 1 .. r : Root[i] = x[i]
  BY <1>1, SubSeqFacts
<1> HIDE DEF e
<1> DEFINE c == Root \o e
<1>4. /\ Len(c) = Len(x) /\ c \in Seq(S)
      /\ \A i \in 1 .. r : c[i] = Root[i]
      /\ \A i \in 1 .. Len(x) - r : c[r + i] = e[i]
  BY <1>1, <1>2
<1> HIDE DEF c
<1>5. ASSUME NEW i \in 1 .. Len(x) PROVE c[i] = x[i]
  <2>1. CASE i <= r
    BY <1>1, <1>3, <1>4, <2>1
  <2>2. CASE i > r
    <3>1. i - r \in 1 .. Len(x) - r /\ r + (i - r) = i
      BY <1>1, <2>2
    <3>2. c[r + (i - r)] = x[r + (i - r)]
      BY <1>2, <1>4, <3>1
    <3> QED
      BY <3>1, <3>2
  <2> QED
    BY <1>1, <2>1, <2>2
<1>6. x = c
  BY <1>4, <1>5
<1> QED
  BY <1>2, <1>6 DEF c, e

LEMMA ErasedBack ==
  ASSUME NEW S, Root \in Seq(S), NEW y \in Seq(S)
  PROVE  Erased(Root \o y) = y
BY DEF Erased

Frame == [dir : Seq(Names), left : SUBSET Seq(Names)]

Typed ==
  /\ frames \in Seq(Frame)
  /\ path \in Seq(Names)
  /\ filelist \in Seq(Seq(Names))

Walking == pc \in {"open", "read"}

DiskKept ==
  /\ tree \in Trees /\ (walk = "list" => disk = tree)
  /\ disk.dirs # {} => DirectoryTree(disk)
  /\ disk.dirs = {} => DOMAIN disk.files = {} /\ pc = "over"

FramesRight ==
  /\ \A k \in 1 .. Len(frames) :
       /\ frames[k].dir \in disk.dirs /\ Len(frames[k].dir) = Len(Root) + k - 1
       /\ \A x \in frames[k].left :
            x \in Paths /\ Len(x) = Len(Root) + k /\ Up(x, k - 1) = frames[k].dir
  /\ \A j, k \in 1 .. Len(frames) : k < j =>
       Up(frames[j].dir, k - 1) = frames[k].dir /\ Up(frames[j].dir, k) \notin frames[k].left

PathRight ==
  /\ pc = "open" =>
       /\ path \in disk.dirs /\ Len(path) = Len(Root) + Len(frames)
       /\ \A k \in 1 .. Len(frames) :
            Up(path, k - 1) = frames[k].dir /\ Up(path, k) \notin frames[k].left
  /\ pc = "read" => frames # <<>>
  /\ ~Walking => frames = <<>>

Phases ==
  /\ walk = "list" => /\ ret \in {"none", "abort"} /\ ~refused
                      /\ pc # "over" /\ (pc = "exit" <=> ret = "abort")
  /\ walk # "list" => /\ walk = "remove" /\ ret \in {"ok", "noopen", "nofiles"}
                      /\ pc \in {"open", "read", "over"}

WalkInv == Typed /\ DiskKept /\ FramesRight /\ PathRight /\ Phases

(* x is to be looked at, or below a path that is.                          *)
Pending(x) ==
  \/ \E k \in 1 .. Len(frames) : Len(x) >= Len(Root) + k /\ Up(x, k) \in frames[k].left
  \/ pc = "open" /\ Len(x) >= Len(path) /\ SubSeq(x, 1, Len(path)) = path

Under(x) == \E k \in 1 .. Len(frames) : x = frames[k].dir

-----------------------------------------------------------------------------
(* What is in a directory tree.                                            *)
LEMMA InTree ==
  ASSUME DirectoryTree(disk), NEW x \in Paths
  PROVE  /\ x \in Seq(Names) /\ Root \in Seq(Names) /\ Len(Root) \in Nat /\ Len(x) \in Nat
         /\ Len(x) >= Len(Root) /\ Up(x, 0) = Root
         /\ \A k \in Nat : Len(Root) + k <= Len(x) =>
              /\ Up(x, k) \in Paths /\ Len(Up(x, k)) = Len(Root) + k
              /\ Len(Root) + k < Len(x) => Up(x, k) \in disk.dirs
              /\ Len(Root) + k = Len(x) => Up(x, k) = x
              /\ \A j \in 0 .. k : Up(Up(x, k), j) = Up(x, j)
<1>1. x \in Seq(Names) /\ Root \in Seq(Names)
  BY DEF DirectoryTree, Paths
<1>2. Len(Root) \in Nat /\ Len(x) \in Nat
  BY <1>1
<1>3. /\ Len(x) >= Len(Root) /\ SubSeq(x, 1, Len(Root)) = Root
      /\ \A n \in Len(Root) .. Len(x) - 1 : SubSeq(x, 1, n) \in disk.dirs
  BY DEF DirectoryTree, Entire, Paths
<1>4. Up(x, 0) = Root
  BY <1>2, <1>3 DEF Up
<1>5. ASSUME NEW k \in Nat, Len(Root) + k <= Len(x)
      PROVE  /\ Up(x, k) \in Paths /\ Len(Up(x, k)) = Len(Root) + k
             /\ Len(Root) + k < Len(x) => Up(x, k) \in disk.dirs
             /\ Len(Root) + k = Len(x) => Up(x, k) = x
             /\ \A j \in 0 .. k : Up(Up(x, k), j) = Up(x, j)
  <2> DEFINE n == Len(Root) + k
  <2>1. n \in 0 .. Len(x) /\ n \in Nat
    BY <1>2, <1>5
  <2>2. /\ Len(SubSeq(x, 1, n)) = n /\ (n = Len(x) => SubSeq(x, 1, n) = x)
        /\ \A m \in 0 .. n : SubSeq(SubSeq(x, 1, n), 1, m) = SubSeq(x, 1, m)
    BY <1>1, <2>1, SubSeqFacts
  <2>3. n < Len(x) => SubSeq(x, 1, n) \in disk.dirs
    BY <1>2, <1>3, <2>1
  <2>4. \A j \in 0 .. k : Len(Root) + j \in 0 .. n
    BY <1>2
  <2>5. /\ Up(x, k) = SubSeq(x, 1, n)
        /\ \A j : Up(Up(x, k), j) = SubSeq(SubSeq(x, 1, n), 1, Len(Root) + j)
    BY DEF Up
  <2>6. \A j \in 0 .. k : Up(Up(x, k), j) = Up(x, j)
    BY <2>2, <2>4, <2>5 DEF Up
  <2>7. Up(x, k) \in Paths
    <3>1. CASE n < Len(x)
      BY <2>3, <2>5, <3>1 DEF Paths
    <3>2. CASE n = Len(x)
      BY <2>2, <2>5, <3>2
    <3> QED
      BY <1>2, <2>1, <3>1, <3>2
  <2> QED
    BY <2>2, <2>3, <2>5, <2>6, <2>7
<1> QED
  BY <1>1, <1>2, <1>3, <1>4, <1>5

(* An entry of a directory is one name longer.                             *)
LEMMA EntryFacts ==
  ASSUME DirectoryTree(disk), NEW d \in Seq(Names), NEW k \in Nat, Len(d) = Len(Root) + k,
         NEW x
  PROVE  x \in Entries(d) <=> x \in Paths /\ Len(x) = Len(Root) + k + 1 /\ Up(x, k) = d
<1> SUFFICES ASSUME x \in Paths
             PROVE  (x # Root /\ Front(x) = d) <=> (Len(x) = Len(Root) + k + 1 /\ Up(x, k) = d)
  BY DEF Entries
<1>1. /\ x \in Seq(Names) /\ Len(Root) \in Nat /\ Len(x) \in Nat /\ Len(x) >= Len(Root)
      /\ Up(x, 0) = Root /\ (Len(x) = Len(Root) => Up(x, 0) = x)
  BY InTree
<1>2. x # Root => Len(x) > Len(Root)
  BY <1>1
<1>3. x # Root => /\ Front(x) = SubSeq(x, 1, Len(x) - 1)
                  /\ Len(SubSeq(x, 1, Len(x) - 1)) = Len(x) - 1
  <2>1. x # Root => Len(x) # 0 /\ Len(x) - 1 \in 0 .. Len(x)
    BY <1>1, <1>2
  <2>2. x # Root => Front(x) = SubSeq(x, 1, Len(x) - 1)
    BY <1>1, <2>1, FrontFacts
  <2>3. x # Root => Len(SubSeq(x, 1, Len(x) - 1)) = Len(x) - 1
    BY <1>1, <2>1, SubSeqFacts
  <2> QED
    BY <2>2, <2>3
<1>4. CASE x # Root /\ Front(x) = d
  BY <1>1, <1>3, <1>4 DEF Up
<1>5. CASE Len(x) = Len(Root) + k + 1 /\ Up(x, k) = d
  <2>1. x # Root /\ Len(x) - 1 = Len(Root) + k
    BY <1>1, <1>5
  <2> QED
    BY <1>3, <1>5, <2>1 DEF Up
<1> QED
  BY <1>4, <1>5

-----------------------------------------------------------------------------
(* The three things that happen to the calls under way.                    *)
LEMMA Pushed ==
  ASSUME Typed, NEW f \in Frame, frames' = Append(frames, f)
  PROVE  /\ frames' \in Seq(Frame) /\ Len(frames) \in Nat /\ Len(frames') = Len(frames) + 1
         /\ \A k \in 1 .. Len(frames) : frames'[k] = frames[k]
         /\ frames'[Len(frames) + 1] = f
BY DEF Typed

LEMMA Dropped ==
  ASSUME Typed, frames # <<>>, frames' = Front(frames)
  PROVE  /\ frames' \in Seq(Frame) /\ Len(frames') \in Nat /\ Len(frames) = Len(frames') + 1
         /\ \A k \in 1 .. Len(frames') : frames'[k] = frames[k]
         /\ Last(frames) = frames[Len(frames)]
<1> DEFINE n == Len(frames)
<1>1. frames \in Seq(Frame) /\ n \in Nat \ {0} /\ n - 1 \in 0 .. n
  BY DEF Typed
<1>2. frames' = SubSeq(frames, 1, n - 1)
  BY DEF Front
<1>3. /\ SubSeq(frames, 1, n - 1) \in Seq(Frame) /\ Len(SubSeq(frames, 1, n - 1)) = n - 1
      /\ \A k \in 1 .. n - 1 : SubSeq(frames, 1, n - 1)[k] = frames[k]
  BY <1>1, SubSeqFacts
<1> QED
  BY <1>1, <1>2, <1>3 DEF Last

LEMMA Shortened ==
  ASSUME Typed, frames # <<>>, NEW x, Read(x)
  PROVE  /\ frames' \in Seq(Frame) /\ Len(frames') = Len(frames) /\ Len(frames) \in Nat \ {0}
         /\ x \in frames[Len(frames)].left
         /\ \A k \in 1 .. Len(frames) :
              /\ frames'[k].dir = frames[k].dir
              /\ frames'[k].left = IF k = Len(frames) THEN frames[k].left \ {x} ELSE frames[k].left
<1> DEFINE n == Len(frames)
           f == [frames[n] EXCEPT !.left = @ \ {x}]
<1>1. frames \in Seq(Frame) /\ n \in Nat \ {0} /\ frames[n] \in Frame
  BY DEF Typed
<1>2. f \in Frame /\ f.dir = frames[n].dir /\ f.left = frames[n].left \ {x}
  BY <1>1 DEF Frame
<1>3. frames' = [frames EXCEPT ![n] = f] /\ x \in frames[n].left
  BY DEF Read, Last
<1> HIDE DEF f, n
<1>4. frames' \in Seq(Frame) /\ Len(frames') = n
  BY <1>1, <1>2, <1>3 DEF n
<1>5. \A k \in 1 .. n : frames'[k] = IF k = n THEN f ELSE frames[k]
  BY <1>1, <1>3 DEF n
<1>6. ASSUME NEW k \in 1 .. n
      PROVE  /\ frames'[k].dir = frames[k].dir
             /\ frames'[k].left = IF k = n THEN frames[k].left \ {x} ELSE frames[k].left
  <2>1. CASE k = n
    BY <1>2, <1>5, <2>1
  <2>2. CASE k # n
    BY <1>5, <2>2
  <2> QED
    BY <2>1, <2>2
<1> QED
  BY <1>1, <1>3, <1>4, <1>6 DEF n

-----------------------------------------------------------------------------
LEMMA StepOpenDir ==
  ASSUME WalkInv, OpenDir
  PROVE  /\ frames' \in Seq(Frame) /\ FramesRight' /\ PathRight'
         /\ \A x \in Paths : /\ Pending(x)' <=> Pending(x) /\ x # path
                             /\ Under(x)' <=> Under(x) \/ x = path
<1> DEFINE n == Len(frames)
           f == [dir |-> path, left |-> Entries(path)]
<1>1. /\ pc = "open" /\ pc' = "read" /\ UNCHANGED <<disk, path>>
      /\ frames' = Append(frames, f)
  BY DEF OpenDir
<1>2. /\ DirectoryTree(disk) /\ path \in disk.dirs /\ path \in Paths /\ path \in Seq(Names)
      /\ Len(path) = Len(Root) + n
      /\ \A k \in 1 .. n : Up(path, k - 1) = frames[k].dir /\ Up(path, k) \notin frames[k].left
  BY <1>1 DEF WalkInv, Typed, DiskKept, PathRight, Paths
<1>3. /\ n \in Nat /\ Len(Root) \in Nat /\ Len(path) \in Nat
  BY <1>2, InTree DEF WalkInv, Typed
<1>4. \A x : x \in Entries(path) <=> x \in Paths /\ Len(x) = Len(Root) + n + 1 /\ Up(x, n) = path
  BY <1>2, <1>3, EntryFacts
<1>5. f \in Frame
  BY <1>2, <1>4, InTree DEF Frame
<1>6. f.dir = path /\ f.left = Entries(path)
  OBVIOUS
<1> HIDE DEF f
<1>7. /\ frames' \in Seq(Frame) /\ Len(frames') = n + 1
      /\ \A k \in 1 .. n : frames'[k] = frames[k]
      /\ frames'[n + 1] = f
  BY <1>1, <1>5, Pushed DEF WalkInv
<1> HIDE DEF n
<1>8. FramesRight'
  <2> USE DEF WalkInv
  <2>1. ASSUME NEW k \in 1 .. n + 1
        PROVE  /\ frames'[k].dir \in disk.dirs /\ Len(frames'[k].dir) = Len(Root) + k - 1
               /\ \A x \in frames'[k].left :
                    x \in Paths /\ Len(x) = Len(Root) + k /\ Up(x, k - 1) = frames'[k].dir
    <3>1. CASE k \in 1 .. n
      BY <1>7, <3>1 DEF FramesRight, n
    <3>2. CASE k = n + 1
      <4>1. k - 1 = n /\ Len(Root) + k - 1 = Len(Root) + n /\ Len(Root) + k = Len(Root) + n + 1
        BY <1>3, <3>2
      <4>2. frames'[k].dir = path /\ frames'[k].left = Entries(path)
        BY <1>6, <1>7, <3>2
      <4> QED
        BY <1>2, <1>4, <4>1, <4>2
    <3> QED
      BY <1>3, <3>1, <3>2
  <2>2. ASSUME NEW j \in 1 .. n + 1, NEW k \in 1 .. n + 1, k < j
        PROVE  /\ Up(frames'[j].dir, k - 1) = frames'[k].dir
               /\ Up(frames'[j].dir, k) \notin frames'[k].left
    <3>1. k \in 1 .. n /\ (j \in 1 .. n \/ j = n + 1)
      BY <1>3, <2>2
    <3>2. CASE j \in 1 .. n
      BY <1>7, <2>2, <3>1, <3>2 DEF FramesRight, n
    <3>3. CASE j = n + 1
      BY <1>2, <1>6, <1>7, <3>1, <3>3
    <3> QED
      BY <3>1, <3>2, <3>3
  <2> QED
    BY <1>1, <1>7, <2>1, <2>2 DEF FramesRight, Paths
<1>9. PathRight'
  BY <1>1, <1>3, <1>7 DEF PathRight, Walking
<1>10. ASSUME NEW x \in Paths PROVE Pending(x)' <=> Pending(x) /\ x # path
  <2>1. /\ x \in Seq(Names) /\ Len(x) \in Nat
        /\ \A k \in Nat : Len(Root) + k <= Len(x) =>
             /\ Up(x, k) \in Paths /\ Len(Up(x, k)) = Len(Root) + k
             /\ Len(Root) + k = Len(x) => Up(x, k) = x
             /\ \A j \in 0 .. k : Up(Up(x, k), j) = Up(x, j)
    BY <1>2, InTree
  <2>2. SubSeq(x, 1, Len(path)) = Up(x, n)
    BY <1>2 DEF Up
  <2>3. Pending(x)' <=> \E k \in 1 .. n + 1 :
                           Len(x) >= Len(Root) + k /\ Up(x, k) \in frames'[k].left
    BY <1>1, <1>7 DEF Pending
  <2>4. Pending(x) <=> \/ \E k \in 1 .. n : Len(x) >= Len(Root) + k /\ Up(x, k) \in frames'[k].left
                       \/ Len(x) >= Len(Root) + n /\ Up(x, n) = path
    BY <1>1, <1>2, <1>7, <2>2 DEF Pending, n
  <2>5. Len(x) >= Len(Root) + (n + 1) /\ Up(x, n + 1) \in frames'[n + 1].left <=>
          Len(x) >= Len(Root) + n /\ Up(x, n) = path /\ x # path
    <3>1. CASE Len(x) >= Len(Root) + (n + 1)
      <4>1. /\ Up(x, n + 1) \in Paths /\ Len(Up(x, n + 1)) = Len(Root) + (n + 1)
            /\ Up(Up(x, n + 1), n) = Up(x, n)
        BY <1>3, <2>1, <3>1
      <4> QED
        BY <1>2, <1>3, <1>4, <1>6, <1>7, <3>1, <4>1
    <3>2. CASE Len(x) < Len(Root) + (n + 1)
      BY <1>2, <1>3, <2>1, <3>2
    <3> QED
      BY <1>3, <2>1, <3>1, <3>2
  <2>6. \A k \in 1 .. n : Up(path, k) \notin frames'[k].left
    BY <1>2, <1>7
  <2>7. 1 .. n + 1 = (1 .. n) \cup {n + 1}
    BY <1>3
  <2> QED
    BY <2>3, <2>4, <2>5, <2>6, <2>7
<1>11. ASSUME NEW x \in Paths PROVE Under(x)' <=> Under(x) \/ x = path
  <2>1. Under(x)' <=> \E k \in 1 .. n + 1 : x = frames'[k].dir
    BY <1>7 DEF Under
  <2>2. Under(x) <=> \E k \in 1 .. n : x = frames'[k].dir
    BY <1>7 DEF Under, n
  <2>3. 1 .. n + 1 = (1 .. n) \cup {n + 1}
    BY <1>3
  <2> QED
    BY <1>6, <1>7, <2>1, <2>2, <2>3
<1> QED
  BY <1>7, <1>8, <1>9, <1>10, <1>11

(* A path that is read is a child of the last directory, and below no      *)
(* other path that is left.                                                *)
LEMMA WhatIsRead ==
  ASSUME WalkInv, pc = "read", NEW x, Read(x)
  PROVE  /\ frames # <<>> /\ DirectoryTree(disk) /\ Len(frames) \in Nat \ {0}
         /\ Len(Root) \in Nat
         /\ x \in Paths /\ x \in Seq(Names) /\ Len(x) = Len(Root) + Len(frames)
         /\ x \in frames[Len(frames)].left
         /\ \A k \in 1 .. Len(frames) : Up(x, k - 1) = frames[k].dir
         /\ \A k \in 1 .. Len(frames) : k < Len(frames) => Up(x, k) \notin frames[k].left
<1> DEFINE n == Len(frames)
<1>1. frames # <<>>
  BY DEF WalkInv, PathRight
<1>2. n \in Nat \ {0} /\ x \in frames[n].left
  BY <1>1, Shortened DEF WalkInv
<1>3. /\ frames[n].dir \in disk.dirs /\ x \in Paths
      /\ Len(x) = Len(Root) + n /\ Up(x, n - 1) = frames[n].dir
  BY <1>2 DEF WalkInv, FramesRight
<1>4. DirectoryTree(disk)
  BY <1>3 DEF WalkInv, DiskKept
<1>5. /\ x \in Seq(Names) /\ Len(Root) \in Nat
      /\ \A k \in Nat : Len(Root) + k <= Len(x) => \A j \in 0 .. k : Up(Up(x, k), j) = Up(x, j)
  BY <1>3, <1>4, InTree
<1>6. \A j \in 0 .. n - 1 : Up(frames[n].dir, j) = Up(x, j)
  <2>1. n - 1 \in Nat /\ Len(Root) + (n - 1) <= Len(x)
    BY <1>2, <1>3, <1>5
  <2> QED
    BY <1>3, <1>5, <2>1
<1>7. ASSUME NEW k \in 1 .. n, k < n
      PROVE  Up(x, k - 1) = frames[k].dir /\ Up(x, k) \notin frames[k].left
  <2>1. Up(frames[n].dir, k - 1) = frames[k].dir /\ Up(frames[n].dir, k) \notin frames[k].left
    BY <1>2, <1>7 DEF WalkInv, FramesRight
  <2>2. k - 1 \in 0 .. n - 1 /\ k \in 0 .. n - 1
    BY <1>2, <1>7
  <2> QED
    BY <1>6, <2>1, <2>2
<1>8. \A k \in 1 .. n : k = n \/ k < n
  BY <1>2
<1> QED
  BY <1>1, <1>2, <1>3, <1>4, <1>5, <1>7, <1>8

(* With less left to look at, and nothing of that gone from the directory, *)
(* the calls stay right.                                                   *)
LEMMA FramesKept ==
  ASSUME FramesRight, Len(frames) \in Nat, Len(frames') \in 0 .. Len(frames),
         \A k \in 1 .. Len(frames') : /\ frames'[k].dir = frames[k].dir
                                      /\ frames'[k].dir \in disk'.dirs
                                      /\ frames'[k].left \subseteq frames[k].left \cap Paths'
  PROVE  FramesRight'
<1>1. \A k \in 1 .. Len(frames') : k \in 1 .. Len(frames)
  OBVIOUS
<1>2. ASSUME NEW k \in 1 .. Len(frames')
      PROVE  /\ frames'[k].dir \in disk'.dirs /\ Len(frames'[k].dir) = Len(Root) + k - 1
             /\ \A x \in frames'[k].left :
                  x \in Paths' /\ Len(x) = Len(Root) + k /\ Up(x, k - 1) = frames'[k].dir
  BY <1>1 DEF FramesRight
<1>3. ASSUME NEW j \in 1 .. Len(frames'), NEW k \in 1 .. Len(frames'), k < j
      PROVE  /\ Up(frames'[j].dir, k - 1) = frames'[k].dir
             /\ Up(frames'[j].dir, k) \notin frames'[k].left
  BY <1>1, <1>3 DEF FramesRight
<1> QED
  BY <1>2, <1>3 DEF FramesRight

LEMMA StepEnterDir ==
  ASSUME WalkInv, NEW e, pc = "read", EnterDir(e)
  PROVE  /\ frames' \in Seq(Frame) /\ FramesRight' /\ PathRight'
         /\ \A x \in Paths : (Pending(x)' <=> Pending(x)) /\ (Under(x)' <=> Under(x))
<1> DEFINE n == Len(frames)
<1>1. Read(e) /\ path' = e /\ pc' = "open" /\ disk' = disk /\ e \in disk.dirs
  BY DEF EnterDir
<1>2. /\ frames # <<>> /\ DirectoryTree(disk) /\ n \in Nat \ {0} /\ Len(Root) \in Nat
      /\ e \in Seq(Names) /\ Len(e) = Len(Root) + n
      /\ e \in frames[n].left
      /\ \A k \in 1 .. n : Up(e, k - 1) = frames[k].dir
      /\ \A k \in 1 .. n : k < n => Up(e, k) \notin frames[k].left
  BY <1>1, WhatIsRead
<1>3. /\ frames' \in Seq(Frame) /\ Len(frames') = n
      /\ \A k \in 1 .. n :
           /\ frames'[k].dir = frames[k].dir
           /\ frames'[k].left = IF k = n THEN frames[k].left \ {e} ELSE frames[k].left
  BY <1>1, <1>2, Shortened DEF WalkInv
<1>4. Up(e, n) = e
  BY <1>2, SubSeqFacts DEF Up
<1>5. \A k \in 1 .. n : frames'[k].left \subseteq frames[k].left
  BY <1>3
<1>6. Len(frames) = n
  OBVIOUS
<1> HIDE DEF n
<1>7. FramesRight'
  <2>1. n \in 0 .. n /\ Paths' = Paths
    BY <1>1, <1>2 DEF Paths
  <2>2. \A k \in 1 .. n : frames[k].dir \in disk.dirs /\ frames[k].left \subseteq Paths
    BY <1>6 DEF WalkInv, FramesRight
  <2> QED
    BY <1>1, <1>2, <1>3, <1>5, <1>6, <2>1, <2>2, FramesKept DEF WalkInv
<1>8. PathRight'
  <2>1. ASSUME NEW k \in 1 .. n PROVE Up(e, k) \notin frames'[k].left
    <3>1. CASE k = n
      BY <1>3, <1>4, <3>1
    <3>2. CASE k < n
      BY <1>2, <1>5, <3>2
    <3> QED
      BY <1>2, <3>1, <3>2
  <2>2. frames' # <<>>
    BY <1>2, <1>3
  <2> QED
    BY <1>1, <1>2, <1>3, <2>1, <2>2 DEF PathRight, Walking
<1>9. ASSUME NEW x \in Paths PROVE (Pending(x)' <=> Pending(x)) /\ (Under(x)' <=> Under(x))
  <2>1. SubSeq(x, 1, Len(e)) = Up(x, n)
    BY <1>2 DEF Up
  <2>2. Pending(x)' <=> \/ \E k \in 1 .. n : Len(x) >= Len(Root) + k /\ Up(x, k) \in frames'[k].left
                        \/ Len(x) >= Len(Root) + n /\ Up(x, n) = e
    BY <1>1, <1>2, <1>3, <2>1 DEF Pending
  <2>3. Pending(x) <=> \E k \in 1 .. n : Len(x) >= Len(Root) + k /\ Up(x, k) \in frames[k].left
    BY <1>6 DEF Pending
  <2>4. n \in 1 .. n
    BY <1>2
  <2> QED
    BY <1>2, <1>3, <1>6, <2>2, <2>3, <2>4 DEF Under
<1> QED
  BY <1>3, <1>7, <1>8, <1>9

LEMMA StepTakeFile ==
  ASSUME WalkInv, NEW e, pc = "read", Read(e), e \in DOMAIN disk.files,
         pc' = pc, disk'.dirs = disk.dirs, Paths \ {e} \subseteq Paths'
  PROVE  /\ frames' \in Seq(Frame) /\ FramesRight' /\ PathRight'
         /\ e \in Paths /\ Pending(e) /\ ~Under(e)
         /\ \A x \in Paths : /\ Pending(x)' <=> Pending(x) /\ x # e
                             /\ Under(x)' <=> Under(x)
<1> DEFINE n == Len(frames)
<1>1. /\ frames # <<>> /\ DirectoryTree(disk) /\ n \in Nat \ {0} /\ Len(Root) \in Nat
      /\ e \in Paths /\ e \in Seq(Names) /\ Len(e) = Len(Root) + n
      /\ e \in frames[n].left
      /\ \A k \in 1 .. n : Up(e, k - 1) = frames[k].dir
      /\ \A k \in 1 .. n : k < n => Up(e, k) \notin frames[k].left
  BY WhatIsRead
<1>2. /\ frames' \in Seq(Frame) /\ Len(frames') = n
      /\ \A k \in 1 .. n :
           /\ frames'[k].dir = frames[k].dir
           /\ frames'[k].left = IF k = n THEN frames[k].left \ {e} ELSE frames[k].left
  BY <1>1, Shortened DEF WalkInv
<1>3. Up(e, n) = e /\ e \notin disk.dirs
  BY <1>1, SubSeqFacts DEF Up, DirectoryTree
<1>4. /\ n \in 1 .. n /\ Len(frames) = n
      /\ \A k \in 1 .. n : frames'[k].left \subseteq frames[k].left
  <2>1. \A k \in 1 .. n : frames'[k].left \subseteq frames[k].left
    BY <1>2
  <2> QED
    BY <1>1, <2>1
<1> HIDE DEF n
<1>5. FramesRight'
  <2>1. \A k \in 1 .. n :
          /\ frames[k].dir \in disk.dirs
          /\ \A x \in frames[k].left : x \in Paths /\ Len(x) = Len(Root) + k
    BY <1>4 DEF WalkInv, FramesRight
  <2>2. ASSUME NEW k \in 1 .. n, NEW x \in frames'[k].left PROVE x \in Paths'
    <3>1. x # e
      <4>1. CASE k = n
        BY <1>2, <2>2, <4>1
      <4>2. CASE k # n
        BY <1>1, <1>4, <2>1, <2>2, <4>2
      <4> QED
        BY <4>1, <4>2
    <3> QED
      BY <1>4, <2>1, <3>1
  <2>3. n \in 0 .. n
    BY <1>1
  <2> QED
    BY <1>1, <1>2, <1>4, <2>1, <2>2, <2>3, FramesKept DEF WalkInv
<1>6. PathRight'
  <2>1. frames' # <<>>
    BY <1>1, <1>2
  <2> QED
    BY <2>1 DEF PathRight, Walking
<1>7. Pending(e) /\ ~Under(e)
  <2>1. Pending(e)
    BY <1>1, <1>3, <1>4 DEF Pending
  <2>2. ~Under(e)
    BY <1>3 DEF WalkInv, FramesRight, Under
  <2> QED
    BY <2>1, <2>2
<1>8. ASSUME NEW x \in Paths
      PROVE  (Pending(x)' <=> Pending(x) /\ x # e) /\ (Under(x)' <=> Under(x))
  <2>1. Pending(x)' <=> \E k \in 1 .. n : Len(x) >= Len(Root) + k /\ Up(x, k) \in frames'[k].left
    BY <1>2 DEF Pending
  <2>2. Pending(x) <=> \E k \in 1 .. n : Len(x) >= Len(Root) + k /\ Up(x, k) \in frames[k].left
    BY <1>4 DEF Pending
  <2>3. Len(x) >= Len(Root) + n /\ Up(x, n) = e => x = e
    BY <1>1, <1>3, InTree
  <2>4. \A k \in 1 .. n : Up(e, k) \notin frames'[k].left
    <3> TAKE k \in 1 .. n
    <3>1. CASE k = n
      BY <1>2, <1>3, <3>1
    <3>2. CASE k < n
      BY <1>1, <1>4, <3>2
    <3> QED
      BY <1>1, <3>1, <3>2
  <2> QED
    BY <1>2, <1>4, <2>1, <2>2, <2>3, <2>4 DEF Under
<1> QED
  BY <1>1, <1>2, <1>5, <1>6, <1>7, <1>8

LEMMA StepCloseDir ==
  ASSUME WalkInv, DirDone,
         \/ UNCHANGED disk
         \/ disk' = [disk EXCEPT !.dirs = @ \ {Last(frames).dir}]
  PROVE  /\ frames' \in Seq(Frame) /\ FramesRight' /\ PathRight'
         /\ Len(frames) = 1 <=> Last(frames).dir = Root
         /\ Len(frames) = 1 => frames' = <<>>
         /\ Last(frames).dir \in Paths
         /\ \A x \in Paths : /\ Pending(x)' <=> Pending(x)
                             /\ Under(x)' <=> Under(x) /\ x # Last(frames).dir
         /\ \A x \in Paths : x \in Entries(Last(frames).dir) => ~Pending(x) /\ ~Under(x)
         /\ Under(Last(frames).dir) /\ ~Pending(Last(frames).dir)
         /\ frames # <<>> /\ DirectoryTree(disk)
<1> DEFINE n == Len(frames)
           d == Last(frames).dir
<1>1. /\ pc = "read" /\ frames[n].left = {} /\ frames' = Front(frames)
      /\ pc' = IF n > 1 THEN "read" ELSE IF walk = "list" THEN "create" ELSE "over"
      /\ frames # <<>>
  BY DEF DirDone, WalkInv, PathRight, Last
<1>2. /\ frames' \in Seq(Frame) /\ Len(frames') = n - 1 /\ n \in Nat \ {0}
      /\ \A k \in 1 .. n - 1 : frames'[k] = frames[k]
      /\ d = frames[n].dir
  BY <1>1, Dropped DEF WalkInv
<1>3. /\ d \in disk.dirs /\ DirectoryTree(disk) /\ d \in Seq(Names) /\ d \in Paths
      /\ Len(Root) \in Nat /\ Len(d) = Len(Root) + (n - 1)
      /\ \A k \in 1 .. n - 1 : Up(d, k - 1) = frames[k].dir /\ Up(d, k) \notin frames[k].left
  <2>0. n \in 1 .. n /\ \A k \in 1 .. n - 1 : k \in 1 .. n /\ k < n
    BY <1>2
  <2>1. d \in disk.dirs /\ Len(d) = Len(Root) + n - 1
    BY <1>2, <2>0 DEF WalkInv, FramesRight
  <2>2. d \in Paths /\ DirectoryTree(disk)
    BY <2>1 DEF Paths, WalkInv, DiskKept
  <2>3. \A k \in 1 .. n - 1 : Up(d, k - 1) = frames[k].dir /\ Up(d, k) \notin frames[k].left
    BY <1>2, <2>0, SMTT(30) DEF WalkInv, FramesRight
  <2> QED
    BY <1>2, <2>1, <2>2, <2>3, InTree
<1>4. Len(frames) = n /\ n - 1 \in 0 .. n /\ n \in 1 .. n
  BY <1>2
<1> HIDE DEF n, d
<1>5. \A k \in 1 .. n - 1 : /\ frames[k].dir \in disk.dirs /\ Len(frames[k].dir) = Len(Root) + k - 1
                            /\ \A x \in frames[k].left : x \in Paths /\ Len(x) = Len(Root) + k
  BY <1>2, <1>4 DEF WalkInv, FramesRight
<1>6. \A k \in 1 .. n - 1 : frames[k].dir # d /\ d \notin frames[k].left
  <2> TAKE k \in 1 .. n - 1
  <2>1. frames[k].dir # d
    BY <1>2, <1>3, <1>5
  <2>2. ASSUME d \in frames[k].left PROVE FALSE
    <3>1. k = n - 1
      BY <1>2, <1>3, <1>5, <2>2
    <3>2. Up(d, n - 1) = d
      BY <1>2, <1>3, InTree, SMTT(30)
    <3> QED
      BY <1>3, <2>2, <3>1, <3>2
  <2> QED
    BY <2>1, <2>2
<1>a. disk'.files = disk.files /\ disk'.dirs \in {disk.dirs, disk.dirs \ {d}}
  BY <1>3 DEF d, DirectoryTree
<1>7. \A x \in Paths : x # d => x \in Paths'
  BY <1>a DEF Paths
<1>8. \A x \in disk.dirs : x # d => x \in disk'.dirs
  BY <1>a
<1>9. FramesRight'
  <2>1. \A k \in 1 .. n - 1 :
          frames'[k].dir \in disk'.dirs /\ frames'[k].left \subseteq frames[k].left \cap Paths'
    BY <1>2, <1>5, <1>6, <1>7, <1>8
  <2> QED
    BY <1>2, <1>4, <2>1, FramesKept DEF WalkInv
<1>10. PathRight' /\ (n = 1 => frames' = <<>>)
  <2>1. n > 1 => frames' # <<>>
    BY <1>2
  <2>2. n <= 1 => frames' = <<>>
    BY <1>2
  <2> QED
    BY <1>1, <1>2, <2>1, <2>2 DEF PathRight, Walking
<1>11. n = 1 <=> d = Root
  <2>1. n = 1 => d = Root
    BY <1>2, <1>3, InTree
  <2>2. d = Root => Len(d) = Len(Root)
    OBVIOUS
  <2> QED
    BY <1>2, <1>3, <2>1, <2>2
<1>12. ASSUME NEW x \in Paths
       PROVE  (Pending(x)' <=> Pending(x)) /\ (Under(x)' <=> Under(x) /\ x # d)
  <2>1. Pending(x)' <=> \E k \in 1 .. n - 1 : Len(x) >= Len(Root) + k /\ Up(x, k) \in frames[k].left
    BY <1>1, <1>2 DEF Pending
  <2>2. Pending(x) <=> \E k \in 1 .. n : Len(x) >= Len(Root) + k /\ Up(x, k) \in frames[k].left
    BY <1>1, <1>4 DEF Pending
  <2>3. 1 .. n = (1 .. n - 1) \cup {n}
    BY <1>2
  <2>4. Under(x)' <=> \E k \in 1 .. n - 1 : x = frames[k].dir
    BY <1>2 DEF Under
  <2>5. Under(x) <=> \E k \in 1 .. n : x = frames[k].dir
    BY <1>4 DEF Under
  <2> QED
    BY <1>1, <1>2, <1>6, <2>1, <2>2, <2>3, <2>4, <2>5
<1>13. Under(d) /\ ~Pending(d)
  <2>1. Under(d)
    BY <1>2, <1>4 DEF Under
  <2>2. \A k \in 1 .. n : ~(Len(d) >= Len(Root) + k /\ Up(d, k) \in frames[k].left)
    BY <1>1, <1>2, <1>3
  <2> QED
    BY <1>1, <1>4, <2>1, <2>2 DEF Pending
<1>14. ASSUME NEW x \in Paths, x \in Entries(d) PROVE ~Pending(x) /\ ~Under(x)
  <2>1. Len(x) = Len(Root) + n /\ Up(x, n - 1) = d
    BY <1>2, <1>3, <1>14, EntryFacts
  <2>2. \A k \in 1 .. n - 1 : Up(x, k) = Up(d, k)
    <3>1. n - 1 \in Nat /\ Len(Root) + (n - 1) <= Len(x)
      BY <1>2, <1>3, <2>1
    <3>2. \A j \in 0 .. n - 1 : Up(Up(x, n - 1), j) = Up(x, j)
      BY <1>3, <3>1, InTree
    <3> QED
      BY <2>1, <3>2
  <2>3. \A k \in 1 .. n : Up(x, k) \notin frames[k].left
    BY <1>1, <1>2, <1>3, <2>2
  <2>4. \A k \in 1 .. n : x # frames[k].dir
    BY <1>2, <1>3, <1>5, <2>1, SMTT(30)
  <2> QED
    BY <1>1, <1>4, <2>3, <2>4 DEF Pending, Under
<1> QED
  BY <1>1, <1>2, <1>3, <1>4, <1>9, <1>10, <1>11, <1>12, <1>13, <1>14 DEF d

-----------------------------------------------------------------------------
(* What is deleted leaves a directory tree, or nothing.                    *)
LEMMA FileUnlinked ==
  ASSUME DirectoryTree(disk), NEW x \in DOMAIN disk.files,
         disk' = [disk EXCEPT !.files = [y \in DOMAIN @ \ {x} |-> @[y]]]
  PROVE  /\ disk'.dirs = disk.dirs /\ DOMAIN disk'.files = DOMAIN disk.files \ {x}
         /\ DirectoryTree(disk')
<1> DEFINE f == [y \in DOMAIN disk.files \ {x} |-> disk.files[y]]
<1>1. disk = [dirs |-> disk.dirs, files |-> disk.files]
  BY DEF DirectoryTree
<1>2. disk' = [dirs |-> disk.dirs, files |-> f]
  BY <1>1
<1>3. /\ DOMAIN f = DOMAIN disk.files \ {x} /\ \A y \in DOMAIN f : f[y] = disk.files[y]
      /\ f = [y \in DOMAIN f |-> f[y]]
  OBVIOUS
<1> HIDE DEF f
<1>4. /\ disk'.dirs = disk.dirs /\ disk'.files = f
      /\ disk' = [dirs |-> disk'.dirs, files |-> disk'.files]
  <2>1. disk'.dirs = disk.dirs /\ disk'.files = f
    BY <1>2
  <2> QED
    BY <1>2, <2>1, Zenon
<1>5. IsFiniteSet(DOMAIN f)
  BY <1>3, FS_Subset DEF DirectoryTree
<1>6. Entire(disk')
  BY <1>3, <1>4 DEF DirectoryTree, Entire
<1>7. /\ disk'.dirs \subseteq Seq(Names) /\ Root \in disk'.dirs
      /\ DOMAIN disk'.files \subseteq Seq(Names) \ disk'.dirs
      /\ \A y \in DOMAIN disk'.files : disk'.files[y] \in Seq(Bytes)
  BY <1>3, <1>4 DEF DirectoryTree
<1>8. DirectoryTree(disk')
  BY <1>3, <1>4, <1>5, <1>6, <1>7 DEF DirectoryTree
<1> QED
  BY <1>3, <1>4, <1>8

LEMMA DirRemoved ==
  ASSUME DirectoryTree(disk), NEW d \in disk.dirs, Entries(d) = {},
         disk' = [disk EXCEPT !.dirs = @ \ {d}]
  PROVE  /\ disk'.files = disk.files /\ disk'.dirs = disk.dirs \ {d}
         /\ d = Root => Paths = {Root} /\ disk'.dirs = {} /\ DOMAIN disk'.files = {}
         /\ d # Root => DirectoryTree(disk')
<1>1. disk = [dirs |-> disk.dirs, files |-> disk.files]
  BY DEF DirectoryTree
<1>2. disk' = [dirs |-> disk.dirs \ {d}, files |-> disk.files]
  BY <1>1
<1>3. /\ disk'.files = disk.files /\ disk'.dirs = disk.dirs \ {d}
      /\ disk' = [dirs |-> disk'.dirs, files |-> disk'.files]
  BY <1>2
<1>4. d \in Paths /\ d \in Seq(Names) /\ Len(Root) \in Nat /\ Len(d) \in Nat /\ Len(d) >= Len(Root)
  <2>1. d \in Paths
    BY DEF Paths
  <2> QED
    BY <2>1, InTree
(* A path below d would go through an entry of d.                          *)
<1>5. ASSUME NEW x \in Paths, x # d, NEW n \in Len(Root) .. Len(x) - 1, SubSeq(x, 1, n) = d
      PROVE  FALSE
  <2> DEFINE k == n - Len(Root)
  <2>1. k \in Nat /\ Len(Root) + k = n /\ Len(x) \in Nat /\ Len(Root) + (k + 1) <= Len(x)
    BY <1>4, InTree
  <2>2. Up(x, k) = d
    BY <1>5, <2>1 DEF Up
  <2> HIDE DEF k
  <2>3. /\ Up(x, k + 1) \in Paths /\ Len(Up(x, k + 1)) = Len(Root) + (k + 1)
        /\ Up(Up(x, k + 1), k) = Up(x, k)
    <3>1. k + 1 \in Nat /\ k \in 0 .. k + 1
      BY <2>1
    <3> QED
      BY <2>1, <3>1, InTree
  <2>4. Len(d) = Len(Root) + k
    BY <2>1, <2>2, InTree
  <2>5. Up(x, k + 1) \in Entries(d)
    BY <1>4, <2>1, <2>2, <2>3, <2>4, EntryFacts
  <2> QED
    BY <2>5
<1>6. ASSUME d = Root PROVE Paths = {Root} /\ disk'.dirs = {} /\ DOMAIN disk'.files = {}
  <2>1. ASSUME NEW x \in Paths, x # d PROVE FALSE
    <3>1. /\ Len(x) \in Nat /\ Len(x) >= Len(Root) /\ Up(x, 0) = Root
          /\ Len(x) = Len(Root) => Up(x, 0) = x
      BY <1>4, InTree
    <3>2. Len(Root) \in Len(Root) .. Len(x) - 1
      BY <1>4, <1>6, <2>1, <3>1
    <3>3. SubSeq(x, 1, Len(Root)) = d
      BY <1>4, <1>6, <3>1 DEF Up
    <3> QED
      BY <1>5, <2>1, <3>2, <3>3
  <2>2. d \notin DOMAIN disk.files
    BY DEF DirectoryTree
  <2>3. Paths = {Root}
    BY <1>4, <1>6, <2>1
  <2> QED
    BY <1>3, <2>1, <2>2, <2>3 DEF Paths
<1>7. ASSUME d # Root PROVE DirectoryTree(disk')
  <2>1. Entire(disk')
    <3> SUFFICES ASSUME NEW x \in disk'.dirs \cup DOMAIN disk'.files
                 PROVE  /\ Len(x) >= Len(Root) /\ SubSeq(x, 1, Len(Root)) = Root
                        /\ \A n \in Len(Root) .. Len(x) - 1 : SubSeq(x, 1, n) \in disk'.dirs
      BY DEF Entire
    <3>1. x \in Paths /\ x # d
      BY <1>3 DEF Paths, DirectoryTree
    <3>2. /\ Len(x) >= Len(Root) /\ SubSeq(x, 1, Len(Root)) = Root
          /\ \A n \in Len(Root) .. Len(x) - 1 : SubSeq(x, 1, n) \in disk.dirs
      BY <3>1 DEF DirectoryTree, Entire, Paths
    <3> QED
      BY <1>3, <1>5, <3>1, <3>2
  <2> QED
    BY <1>3, <1>7, <2>1 DEF DirectoryTree
<1> QED
  BY <1>3, <1>6, <1>7

-----------------------------------------------------------------------------
LEMMA TreeThere ==
  ASSUME WalkInv, pc # "over"
  PROVE  /\ DirectoryTree(disk) /\ disk.dirs # {} /\ Root \in disk.dirs
         /\ Root \in Paths /\ Root \in Seq(Names) /\ Len(Root) \in Nat
<1>1. DirectoryTree(disk)
  BY DEF WalkInv, DiskKept
<1> QED
  BY <1>1, InTree DEF DirectoryTree, Paths

ZipPcs == {"create", "files", "fopen", "block", "close"}

ZipGoesOn ==
  /\ pc \in ZipPcs /\ pc' \in ZipPcs
  /\ UNCHANGED <<tree, disk, frames, walk, ret, refused>>
ZipAborts ==
  /\ pc \in ZipPcs /\ pc' = "exit" /\ ret' = "abort"
  /\ UNCHANGED <<tree, disk, frames, walk, refused>>
ZipReturns ==
  /\ pc \in ZipPcs
  /\ \E r \in {"ok", "noopen", "nofiles"} : Return(r)
  /\ UNCHANGED <<tree, disk, frames, refused>>

LEMMA ZipKinds ==
  ASSUME WalkInv
  PROVE  /\ OpenZip \/ NewFileInZip \/ OpenFile \/ ReadBlock \/ EndOfFile \/ BlockFails
            \/ (\E n \in 1 .. BufferSize : ReadPart(n)) \/ CloseFileInZip => ZipGoesOn
         /\ FileAborts => ZipAborts
         /\ NoFiles \/ OpenZipFails \/ CloseZip => ZipReturns
<1>1. OpenZip \/ NewFileInZip \/ OpenFile \/ CloseFileInZip \/ EndOfFile \/ BlockFails => ZipGoesOn
  BY DEF OpenZip, NewFileInZip, OpenFile, CloseFileInZip, EndOfFile, BlockFails,
         ZipGoesOn, ZipPcs, walkVars
<1>2. ReadBlock \/ (\E n \in 1 .. BufferSize : ReadPart(n)) => ZipGoesOn
  BY DEF ReadBlock, ReadPart, ZipGoesOn, ZipPcs, walkVars
<1>3. FileAborts => ZipAborts
  BY DEF FileAborts, ZipAborts, ErrorUnexpected, ZipPcs
<1>4. NoFiles \/ OpenZipFails \/ CloseZip => ZipReturns
  BY DEF NoFiles, OpenZipFails, CloseZip, ZipReturns, ZipPcs
<1> QED
  BY <1>1, <1>2, <1>3, <1>4

LEMMA ZipKeepsWalk ==
  ASSUME WalkInv, ZipGoesOn \/ ZipAborts \/ ZipReturns
  PROVE  DiskKept' /\ FramesRight' /\ PathRight' /\ Phases'
<1>1. /\ pc \in ZipPcs /\ UNCHANGED <<tree, disk, frames, refused>>
      /\ walk = "list" /\ ret = "none" /\ frames = <<>> /\ pc # "over"
  BY DEF ZipGoesOn, ZipAborts, ZipReturns, ZipPcs, WalkInv, Phases, PathRight, Walking
<1>2. DirectoryTree(disk) /\ disk.dirs # {} /\ Root \in disk.dirs /\ Len(Root) \in Nat
  BY <1>1, TreeThere
<1>3. DirectoryTree(disk')
  BY <1>1, <1>2
<1>4. FramesRight'
  BY <1>1 DEF FramesRight
<1>5. CASE ZipGoesOn \/ ZipAborts
  <2>1. walk' = "list" /\ ~(pc' \in {"open", "read"})
    BY <1>1, <1>5 DEF ZipGoesOn, ZipAborts, ZipPcs
  <2>2. DiskKept' /\ PathRight'
    BY <1>1, <1>2, <1>3, <2>1 DEF WalkInv, DiskKept, PathRight, Walking
  <2>3. Phases'
    BY <1>1, <1>5, <2>1 DEF WalkInv, Phases, ZipGoesOn, ZipAborts, ZipPcs
  <2> QED
    BY <1>4, <2>2, <2>3
<1>6. CASE ZipReturns
  <2>1. /\ pc' = "open" /\ walk' = "remove" /\ path' = Root
        /\ ret' \in {"ok", "noopen", "nofiles"}
    BY <1>6 DEF ZipReturns, Return
  <2>2. DiskKept'
    BY <1>1, <1>2, <1>3, <2>1 DEF WalkInv, DiskKept
  <2>3. PathRight'
    BY <1>1, <1>2, <2>1 DEF PathRight, Walking
  <2> QED
    BY <1>4, <2>1, <2>2, <2>3 DEF Phases
<1> QED
  BY <1>5, <1>6

LEMMA WalkInit == Init => WalkInv
<1> SUFFICES ASSUME Init PROVE WalkInv
  OBVIOUS
<1>1. /\ tree \in Trees /\ disk = tree /\ pc = "open" /\ walk = "list" /\ path = Root
      /\ frames = <<>> /\ filelist = <<>> /\ ret = "none" /\ refused = FALSE
  BY DEF Init
<1>2. DirectoryTree(disk)
  BY <1>1, ArchiverAssumption
<1>3. Root \in disk.dirs /\ Root \in Seq(Names)
  BY <1>2 DEF DirectoryTree
<1>4. Typed
  BY <1>1, <1>3 DEF Typed
<1>5. DiskKept /\ Phases
  BY <1>1, <1>2, <1>3 DEF DiskKept, Phases
<1>6. Len(frames) = 0 /\ Len(Root) \in Nat
  BY <1>1, <1>3
<1>7. FramesRight
  BY <1>6 DEF FramesRight
<1>8. PathRight
  BY <1>1, <1>3, <1>6 DEF PathRight, Walking
<1> QED
  BY <1>4, <1>5, <1>7, <1>8 DEF WalkInv

LEMMA ErasedTyped ==
  ASSUME NEW t, DirectoryTree(t), NEW x \in t.dirs \cup DOMAIN t.files
  PROVE  /\ Root \in Seq(Names) /\ x \in Seq(Names)
         /\ Erased(x) \in Seq(Names) /\ x = Root \o Erased(x)
<1>1. /\ x \in Seq(Names) /\ Root \in Seq(Names) /\ Len(x) >= Len(Root)
      /\ SubSeq(x, 1, Len(Root)) = Root
  BY DEF DirectoryTree, Entire
<1> QED
  BY <1>1, ErasedFacts

LEMMA Gone ==
  ASSUME tree' \in Trees, walk' # "list", disk'.dirs = {}, DOMAIN disk'.files = {},
         pc' = "over"
  PROVE  DiskKept'
<1>1. (disk.dirs)' = {} /\ (DOMAIN disk.files)' = {}
  OBVIOUS
<1> QED
  BY <1>1 DEF DiskKept

LEMMA WalkStep == WalkInv /\ [Next]_vars => WalkInv'
<1> SUFFICES ASSUME WalkInv, [Next]_vars PROVE WalkInv'
  OBVIOUS
<1>1. CASE OpenDir
  <2>1. frames' \in Seq(Frame) /\ FramesRight' /\ PathRight'
    BY <1>1, StepOpenDir
  <2>2. pc = "open" /\ pc' = "read" /\ UNCHANGED <<tree, disk, walk, path, filelist, ret, refused>>
    BY <1>1 DEF OpenDir
  <2>3. Typed' /\ Phases'
    BY <2>1, <2>2 DEF WalkInv, Typed, Phases
  <2>4. DiskKept'
    BY <2>2, TreeThere DEF WalkInv, DiskKept
  <2> QED
    BY <2>1, <2>3, <2>4 DEF WalkInv
<1>2. CASE OpenDirFails
  <2>1. /\ pc = "open" /\ frames' = <<>> /\ Len(frames') = 0
        /\ UNCHANGED <<tree, disk, walk, path, filelist, refused>>
        /\ IF walk = "list" THEN pc' = "exit" /\ ret' = "abort" ELSE pc' = "over" /\ ret' = ret
    BY <1>2 DEF OpenDirFails
  <2>2. Typed' /\ Phases'
    BY <2>1 DEF WalkInv, Typed, Phases
  <2>3. FramesRight' /\ PathRight'
    BY <2>1 DEF FramesRight, PathRight, Walking
  <2>4. DiskKept'
    BY <2>1, TreeThere DEF WalkInv, DiskKept
  <2> QED
    BY <2>2, <2>3, <2>4 DEF WalkInv
<1>3. ASSUME NEW x \in Paths, EnterDir(x) PROVE WalkInv'
  <2>1. /\ pc = "read" /\ pc' = "open" /\ path' = x /\ x \in disk.dirs
        /\ UNCHANGED <<tree, disk, walk, filelist, ret, refused>>
    BY <1>3 DEF EnterDir, Read
  <2>2. frames' \in Seq(Frame) /\ FramesRight' /\ PathRight'
    BY <1>3, <2>1, StepEnterDir
  <2>3. DirectoryTree(disk) /\ x \in Seq(Names)
    BY <2>1, TreeThere DEF DirectoryTree
  <2>4. Typed' /\ Phases'
    BY <2>1, <2>2, <2>3 DEF WalkInv, Typed, Phases
  <2>5. DiskKept'
    BY <2>1, <2>3 DEF WalkInv, DiskKept
  <2> QED
    BY <2>2, <2>4, <2>5 DEF WalkInv
<1>4. ASSUME NEW x \in Paths, ListFile(x) \/ UnlinkRefused(x) PROVE WalkInv'
  <2>1. /\ pc = "read" /\ pc' = pc /\ Read(x) /\ x \in DOMAIN disk.files
        /\ UNCHANGED <<tree, disk, walk, path, ret>>
    BY <1>4 DEF ListFile, UnlinkRefused, Read
  <2>2. disk'.dirs = disk.dirs /\ Paths \ {x} \subseteq Paths'
    BY <2>1 DEF Paths
  <2>3. frames' \in Seq(Frame) /\ FramesRight' /\ PathRight'
    BY <2>1, <2>2, StepTakeFile
  <2>4. Typed'
    <3>1. Erased(x) \in Seq(Names)
      BY <2>1, TreeThere, ErasedTyped DEF Paths
    <3>2. filelist' = filelist \/ filelist' = Append(filelist, Erased(x))
      BY <1>4 DEF ListFile, UnlinkRefused
    <3>3. filelist \in Seq(Seq(Names)) /\ path' \in Seq(Names)
      BY <2>1 DEF WalkInv, Typed
    <3>4. \A q \in Seq(Seq(Names)), e \in Seq(Names) : Append(q, e) \in Seq(Seq(Names))
      BY Appended
    <3>5. Append(filelist, Erased(x)) \in Seq(Seq(Names))
      BY <3>1, <3>3, <3>4
    <3> QED
      BY <2>3, <3>2, <3>3, <3>5 DEF Typed
  <2>5. Phases'
    BY <1>4, <2>1 DEF WalkInv, Phases, ListFile, UnlinkRefused
  <2>6. DiskKept'
    BY <2>1, TreeThere DEF WalkInv, DiskKept
  <2> QED
    BY <2>3, <2>4, <2>5, <2>6 DEF WalkInv
<1>5. ASSUME NEW x \in Paths, UnlinkFile(x) PROVE WalkInv'
  <2>1. /\ pc = "read" /\ pc' = pc /\ Read(x) /\ x \in DOMAIN disk.files /\ walk = "remove"
        /\ disk' = [disk EXCEPT !.files = [y \in DOMAIN @ \ {x} |-> @[y]]]
        /\ UNCHANGED <<tree, walk, path, filelist, ret, refused>>
    BY <1>5 DEF UnlinkFile, Read
  <2>2. /\ disk'.dirs = disk.dirs /\ DOMAIN disk'.files = DOMAIN disk.files \ {x}
        /\ DirectoryTree(disk')
    BY <2>1, TreeThere, FileUnlinked
  <2>3. Paths \ {x} \subseteq Paths'
    BY <2>2 DEF Paths
  <2>4. frames' \in Seq(Frame) /\ FramesRight' /\ PathRight'
    BY <2>1, <2>2, <2>3, StepTakeFile
  <2>5. Typed' /\ Phases'
    BY <2>1, <2>4 DEF WalkInv, Typed, Phases
  <2>6. DiskKept'
    <3>1. disk'.dirs # {}
      BY <2>1, <2>2, TreeThere
    <3> QED
      BY <2>1, <2>2, <3>1 DEF WalkInv, DiskKept
  <2> QED
    BY <2>4, <2>5, <2>6 DEF WalkInv
<1>6. CASE CloseDir \/ RmdirRefused
  <2>1. /\ pc = "read" /\ DirDone /\ UNCHANGED <<tree, walk, path, filelist, ret>>
        /\ pc' = IF Len(frames) > 1 THEN "read" ELSE IF walk = "list" THEN "create" ELSE "over"
        /\ walk = "list" => UNCHANGED <<disk, refused>>
    BY <1>6 DEF CloseDir, RmdirRefused, DirDone
  <2> DEFINE d == Last(frames).dir
  <2>2. \/ UNCHANGED disk
        \/ Entries(d) = {} /\ disk' = [disk EXCEPT !.dirs = @ \ {d}]
    BY <1>6 DEF CloseDir, RmdirRefused, Rmdir
  <2>3. /\ frames' \in Seq(Frame) /\ FramesRight' /\ PathRight'
        /\ Under(d) /\ frames # <<>> /\ (Len(frames) = 1 <=> d = Root) /\ DirectoryTree(disk)
    BY <2>1, <2>2, StepCloseDir
  <2>4. Len(frames) \in Nat \ {0}
    BY <2>3 DEF WalkInv, Typed
  <2>5. Typed' /\ Phases'
    BY <2>1, <2>3, <2>4 DEF WalkInv, Typed, Phases
  <2>6. CASE UNCHANGED disk
    <3>1. DiskKept'
      BY <2>1, <2>6, TreeThere DEF WalkInv, DiskKept
    <3> QED
      BY <2>3, <2>5, <3>1 DEF WalkInv
  <2>7. CASE walk = "remove" /\ Entries(d) = {} /\ disk' = [disk EXCEPT !.dirs = @ \ {d}]
    <3>1. d \in disk.dirs
      BY <2>3 DEF Under, WalkInv, FramesRight
    <3>2. /\ disk'.dirs = disk.dirs \ {d}
          /\ d = Root => disk'.dirs = {} /\ DOMAIN disk'.files = {}
          /\ d # Root => DirectoryTree(disk')
      BY <2>3, <2>7, <3>1, DirRemoved
    <3>4. DiskKept'
      <4>0. tree' \in Trees /\ walk' = "remove"
        BY <2>1, <2>7 DEF WalkInv, DiskKept
      <4>1. CASE d = Root
        <5>1. disk'.dirs = {} /\ DOMAIN disk'.files = {}
          BY <3>2, <4>1
        <5>2. pc' = "over"
          <6>1. Len(frames) = 1
            BY <2>3, <4>1
          <6>2. ~(Len(frames) > 1) /\ walk # "list"
            BY <2>7, <6>1
          <6> QED
            BY <2>1, <6>2
        <5>3. walk' # "list"
          BY <4>0
        <5> HIDE DEF d
        <5> QED
          BY <4>0, <5>1, <5>2, <5>3, Gone
      <4>2. CASE d # Root
        <5>1. DirectoryTree(disk')
          BY <3>2, <4>2
        <5>2. disk'.dirs # {}
          BY <5>1 DEF DirectoryTree
        <5> QED
          BY <4>0, <5>1, <5>2 DEF DiskKept
      <4> QED
        BY <4>1, <4>2
    <3> QED
      BY <2>3, <2>5, <3>4 DEF WalkInv
  <2> QED
    BY <2>1, <2>2, <2>6, <2>7 DEF WalkInv, Phases
<1>7. ASSUME ZipGoesOn \/ ZipAborts \/ ZipReturns, Typed' PROVE WalkInv'
  BY <1>7, ZipKeepsWalk DEF WalkInv
<1>8. CASE NewFileInZip
  <2>1. /\ filelist # <<>> /\ path' = Root \o Head(filelist) /\ filelist' = Tail(filelist)
        /\ frames' = frames /\ pc = "files"
    BY <1>8 DEF NewFileInZip, walkVars
  <2>2. Root \in Seq(Names)
    BY <2>1, TreeThere
  <2>3. Head(filelist) \in Seq(Names) /\ Tail(filelist) \in Seq(Seq(Names))
    BY <2>1 DEF WalkInv, Typed
  <2>4. Typed'
    BY <2>1, <2>2, <2>3 DEF WalkInv, Typed
  <2> QED
    BY <1>7, <1>8, <2>4, ZipKinds
<1>9. CASE OpenZip \/ OpenFile \/ ReadBlock \/ EndOfFile \/ BlockFails \/ CloseFileInZip
           \/ FileAborts \/ \E n \in 1 .. BufferSize : ReadPart(n)
  <2>1. UNCHANGED <<frames, path, filelist>>
    BY <1>9 DEF OpenZip, OpenFile, ReadBlock, EndOfFile, BlockFails, CloseFileInZip,
                FileAborts, ErrorUnexpected, ReadPart, walkVars
  <2>2. Typed'
    BY <2>1 DEF WalkInv, Typed
  <2> QED
    BY <1>7, <1>9, <2>2, ZipKinds
<1>10. CASE NoFiles \/ OpenZipFails \/ CloseZip
  <2>1. UNCHANGED <<frames, filelist>> /\ path' = Root /\ pc # "over"
    BY <1>10 DEF NoFiles, OpenZipFails, CloseZip, Return
  <2>2. Typed'
    BY <2>1, TreeThere DEF WalkInv, Typed
  <2> QED
    BY <1>7, <1>10, <2>2, ZipKinds
<1>11. CASE UNCHANGED vars
  <2>1. UNCHANGED <<tree, disk, pc, walk, path, frames, filelist, ret, refused>>
    BY <1>11 DEF vars
  <2>2. Typed' /\ DiskKept' /\ Phases'
    BY <2>1 DEF WalkInv, Typed, DiskKept, Phases
  <2>3. FramesRight' /\ PathRight'
    BY <2>1 DEF WalkInv, FramesRight, PathRight, Paths, Walking
  <2> QED
    BY <2>2, <2>3 DEF WalkInv
<1> QED
  BY <1>1, <1>2, <1>3, <1>4, <1>5, <1>6, <1>8, <1>9, <1>10, <1>11
  DEF Next, AtEntry, Terminated

-----------------------------------------------------------------------------
(* The files of a tree under their paths in the directory.                 *)
LEMMA RelativeFacts ==
  ASSUME NEW t, DirectoryTree(t)
  PROVE  /\ DOMAIN Relative(t.files) = {Erased(y) : y \in DOMAIN t.files}
         /\ \A y \in DOMAIN t.files : /\ Erased(y) \in DOMAIN Relative(t.files)
                                      /\ Relative(t.files)[Erased(y)] = t.files[y]
                                      /\ t.files[y] \in Seq(Bytes)
         /\ \A m \in DOMAIN Relative(t.files) :
              m \in Seq(Names) /\ Root \o m \in DOMAIN t.files /\ Erased(Root \o m) = m
         /\ \A y, z \in DOMAIN t.files : Erased(y) = Erased(z) => y = z
         /\ IsFiniteSet(DOMAIN Relative(t.files))
<1> DEFINE F == DOMAIN t.files
           R == Relative(t.files)
           E == {Erased(y) : y \in F}
<1>1. DOMAIN R = E /\ \A m \in E : R[m] = t.files[Root \o m]
  BY DEF Relative
<1>2. \A y \in F : /\ Root \in Seq(Names) /\ Erased(y) \in Seq(Names)
                    /\ y = Root \o Erased(y) /\ t.files[y] \in Seq(Bytes)
  <2> TAKE y \in F
  <2>1. y \in t.dirs \cup DOMAIN t.files /\ t.files[y] \in Seq(Bytes)
    BY DEF DirectoryTree
  <2> QED
    BY <2>1, ErasedTyped
<1> HIDE DEF R
<1>3. \A y \in F : Erased(y) \in DOMAIN R /\ R[Erased(y)] = t.files[y]
  <2> TAKE y \in F
  <2>1. Erased(y) \in E
    OBVIOUS
  <2> QED
    BY <1>1, <1>2, <2>1
<1>4. ASSUME NEW m \in DOMAIN R
      PROVE  m \in Seq(Names) /\ Root \o m \in DOMAIN t.files /\ Erased(Root \o m) = m
  <2>1. PICK y \in F : m = Erased(y)
    BY <1>1
  <2>2. m \in Seq(Names) /\ Root \o m = y
    BY <1>2, <2>1
  <2> QED
    BY <2>1, <2>2
<1>5. \A y, z \in F : Erased(y) = Erased(z) => y = z
  BY <1>2
<1>6. IsFiniteSet(DOMAIN R)
  <2> DEFINE f == [y \in F |-> Erased(y)]
  <2>1. f \in Surjection(F, E)
    BY DEF Surjection
  <2>2. IsFiniteSet(F)
    BY DEF DirectoryTree
  <2> HIDE DEF f, E
  <2>3. IsFiniteSet(E)
    BY <2>1, <2>2, FS_Surjection
  <2> QED
    BY <1>1, <2>3
<1> QED
  BY <1>1, <1>2, <1>3, <1>4, <1>5, <1>6 DEF R

(* What the list holds while the directory is walked: the files that were  *)
(* passed, each once.                                                      *)
Passed == {y \in DOMAIN disk.files : ~Pending(y)}
Listed == {Erased(x) : x \in Passed}

Listing ==
  walk = "list" /\ pc \in {"open", "read", "create"} =>
    /\ Range(filelist) = Listed /\ Len(filelist) = Cardinality(Listed)
    /\ zip = <<>> /\ spoiled = {}

ListInv == WalkInv /\ Listing

LEMMA ListedFinite ==
  ASSUME WalkInv, pc # "over"
  PROVE  IsFiniteSet(Listed)
<1>1. DirectoryTree(disk)
  BY TreeThere
<1>2. /\ DOMAIN Relative(disk.files) = {Erased(y) : y \in DOMAIN disk.files}
      /\ IsFiniteSet(DOMAIN Relative(disk.files))
  BY <1>1, RelativeFacts
<1>3. Listed \in SUBSET DOMAIN Relative(disk.files)
  BY <1>2 DEF Listed, Passed
<1> QED
  BY <1>2, <1>3, FS_Subset

LEMMA ListInit == Init => ListInv
<1> SUFFICES ASSUME Init PROVE ListInv
  OBVIOUS
<1>1. WalkInv /\ pc = "open" /\ path = Root /\ filelist = <<>> /\ zip = <<>> /\ spoiled = {}
  BY WalkInit DEF Init
<1>2. DirectoryTree(disk)
  BY <1>1, TreeThere
<1>3. ASSUME NEW x \in DOMAIN disk.files PROVE Pending(x)
  <2>1. Len(x) >= Len(Root) /\ SubSeq(x, 1, Len(Root)) = Root
    BY <1>2 DEF DirectoryTree, Entire
  <2> QED
    BY <1>1, <2>1 DEF Pending
<1>4. Listed = {}
  BY <1>3 DEF Listed, Passed
<1>5. Range(filelist) = {} /\ Len(filelist) = 0
  BY <1>1, RangeEmpty
<1> QED
  BY <1>1, <1>4, <1>5, FS_EmptySet DEF ListInv, Listing

LEMMA ListedKept ==
  ASSUME UNCHANGED <<disk, filelist, zip, spoiled>>, Listing, walk = "list",
         pc \in {"open", "read", "create"},
         \A x \in DOMAIN disk.files : Pending(x)' <=> Pending(x)
  PROVE  Listing'
<1>1. Passed' = Passed
  BY DEF Passed
<1>2. Listed' = Listed
  BY <1>1 DEF Listed
<1> QED
  BY <1>2 DEF Listing

LEMMA ListStep == ListInv /\ [Next]_vars => ListInv'
<1> SUFFICES ASSUME ListInv, [Next]_vars PROVE ListInv'
  OBVIOUS
<1>0. WalkInv /\ Listing /\ WalkInv'
  BY WalkStep DEF ListInv
<1> SUFFICES Listing'
  BY <1>0 DEF ListInv
<1> SUFFICES ASSUME walk' = "list", pc' \in {"open", "read", "create"} PROVE Listing'
  BY DEF Listing
<1>1. CASE OpenDir
  <2>1. pc = "open" /\ UNCHANGED <<disk, walk, filelist, zip, spoiled>>
    BY <1>1 DEF OpenDir, zipVars
  <2>2. path \in disk.dirs /\ DirectoryTree(disk)
    BY <1>0, <2>1, TreeThere DEF WalkInv, PathRight
  <2>3. \A x \in DOMAIN disk.files : x \in Paths /\ x # path
    BY <2>2 DEF Paths, DirectoryTree
  <2>4. \A x \in DOMAIN disk.files : Pending(x)' <=> Pending(x)
    BY <1>0, <1>1, <2>3, StepOpenDir
  <2> QED
    BY <1>0, <2>1, <2>4, ListedKept
<1>2. ASSUME NEW x \in Paths, EnterDir(x) PROVE Listing'
  <2>1. pc = "read" /\ UNCHANGED <<disk, walk, filelist, zip, spoiled>>
    BY <1>2 DEF EnterDir, Read, zipVars
  <2>2. \A y \in DOMAIN disk.files : Pending(y)' <=> Pending(y)
    BY <1>0, <1>2, <2>1, StepEnterDir DEF Paths
  <2> QED
    BY <1>0, <2>1, <2>2, ListedKept
<1>3. CASE CloseDir
  <2>1. pc = "read" /\ DirDone /\ UNCHANGED <<disk, walk, filelist, zip, spoiled>>
    BY <1>3 DEF CloseDir, DirDone, zipVars
  <2>2. \A y \in DOMAIN disk.files : Pending(y)' <=> Pending(y)
    BY <1>0, <2>1, StepCloseDir DEF Paths
  <2> QED
    BY <1>0, <2>1, <2>2, ListedKept
<1>4. ASSUME NEW x \in Paths, ListFile(x) PROVE Listing'
  <2>1. /\ pc = "read" /\ pc' = pc /\ Read(x) /\ x \in DOMAIN disk.files
        /\ walk = "list" /\ filelist' = Append(filelist, Erased(x))
        /\ UNCHANGED <<disk, walk, zip, spoiled>>
    BY <1>4 DEF ListFile, Read, zipVars
  <2>2. disk'.dirs = disk.dirs /\ Paths \ {x} \subseteq Paths'
    BY <2>1 DEF Paths
  <2>3. /\ Pending(x)
        /\ \A y \in DOMAIN disk.files : Pending(y)' <=> Pending(y) /\ y # x
    BY <1>0, <2>1, <2>2, StepTakeFile DEF Paths
  <2>4. DirectoryTree(disk)
    BY <1>0, <2>1, TreeThere
  <2>5. Passed' = Passed \cup {x} /\ x \notin Passed /\ Passed \subseteq DOMAIN disk.files
    BY <2>1, <2>3 DEF Passed
  <2>6. Listed' = Listed \cup {Erased(x)}
    BY <2>5 DEF Listed
  <2>7. Erased(x) \notin Listed
    <3>1. \A y, z \in DOMAIN disk.files : Erased(y) = Erased(z) => y = z
      BY <2>4, RelativeFacts
    <3> QED
      BY <2>1, <2>5, <3>1 DEF Listed
  <2>8. IsFiniteSet(Listed)
    BY <1>0, <2>1, ListedFinite
  <2>9. Cardinality(Listed') = Cardinality(Listed) + 1
    BY <2>6, <2>7, <2>8, FS_AddElement
  <2>10. filelist \in Seq(Seq(Names)) /\ Erased(x) \in Seq(Names)
    <3>1. x \in disk.dirs \cup DOMAIN disk.files
      BY <2>1
    <3>2. Erased(x) \in Seq(Names)
      BY <2>4, <3>1, ErasedTyped
    <3> QED
      BY <1>0, <3>2 DEF WalkInv, Typed
  <2>11. /\ Len(filelist') = Len(filelist) + 1
         /\ Range(filelist') = Range(filelist) \cup {Erased(x)}
    BY <2>1, <2>10, Appended
  <2> QED
    BY <1>0, <2>1, <2>6, <2>9, <2>11 DEF Listing
<1>5. CASE UNCHANGED vars
  <2>1. UNCHANGED <<disk, pc, path, frames, walk, filelist, zip, spoiled>>
    BY <1>5 DEF vars
  <2>2. \A y \in DOMAIN disk.files : Pending(y)' <=> Pending(y)
    BY <2>1 DEF Pending
  <2> QED
    BY <1>0, <2>1, <2>2, ListedKept
<1>6. ~OpenDirFails /\ ~RmdirRefused /\ \A x \in Paths : ~UnlinkFile(x) /\ ~UnlinkRefused(x)
  BY DEF OpenDirFails, RmdirRefused, DirDone, UnlinkFile, UnlinkRefused
<1>7. ~(NoFiles \/ OpenZipFails \/ CloseZip) /\ ~FileAborts
  BY DEF NoFiles, OpenZipFails, CloseZip, Return, FileAborts, ErrorUnexpected
<1>8. ~(OpenZip \/ NewFileInZip \/ OpenFile \/ EndOfFile \/ BlockFails \/ CloseFileInZip)
  BY DEF OpenZip, NewFileInZip, OpenFile, EndOfFile, BlockFails, CloseFileInZip
<1>9. ~ReadBlock /\ \A n \in 1 .. BufferSize : ~ReadPart(n)
  BY DEF ReadBlock, ReadPart
<1> QED
  BY <1>1, <1>2, <1>3, <1>4, <1>5, <1>6, <1>7, <1>8, <1>9 DEF Next, AtEntry, Terminated

-----------------------------------------------------------------------------
(* While files are packed each is in the archive, in hand or in the list.  *)
Handled == {"fopen", "block", "close"}
Current == IF pc \in Handled THEN {Erased(path)} ELSE {}
Zipped  == {e.name : e \in Range(zip)}
AllFiles == DOMAIN Relative(tree.files)
Entry   == [name : Seq(Names), data : Seq(Bytes)]

ZipTyped == zip \in Seq(Entry) /\ got \in [read : Nat, written : Seq(Bytes)]

InHand ==
  pc \in Handled =>
    /\ path \in DOMAIN disk.files
    /\ got.read <= Len(Data) /\ got.written = SubSeq(Data, 1, got.read)
    /\ pc = "close" /\ Erased(path) \notin spoiled => got.read = Len(Data)

Zipping ==
  pc \in {"files"} \cup Handled =>
    /\ Zipped \cup Current \cup Range(filelist) = AllFiles
    /\ Len(zip) + (IF pc \in Handled THEN 1 ELSE 0) + Len(filelist) = Cardinality(AllFiles)
    /\ spoiled \subseteq AllFiles /\ AllFiles # {}
    /\ \A e \in Range(zip) : e.name \notin spoiled => e.data = Relative(tree.files)[e.name]

ZipInv == ListInv /\ ZipTyped /\ InHand /\ Zipping

(* The files of the directory that is packed.                              *)
LEMMA PackedTree ==
  ASSUME ZipInv, pc \in ZipPcs
  PROVE  /\ disk = tree /\ DirectoryTree(tree) /\ walk = "list" /\ frames = <<>>
         /\ ret = "none" /\ IsFiniteSet(AllFiles)
<1>1. WalkInv
  BY DEF ZipInv, ListInv
<1>2. walk = "list" /\ pc # "over" /\ frames = <<>> /\ ret = "none"
  BY <1>1 DEF WalkInv, Phases, PathRight, ZipPcs, Walking
<1>3. disk = tree /\ DirectoryTree(disk)
  BY <1>1, <1>2, TreeThere DEF WalkInv, DiskKept
<1> QED
  BY <1>2, <1>3, RelativeFacts DEF AllFiles

LEMMA FileInHand ==
  ASSUME ZipInv, pc \in Handled
  PROVE  /\ path \in DOMAIN tree.files /\ Data = tree.files[path] /\ Data \in Seq(Bytes)
         /\ Erased(path) \in AllFiles /\ Relative(tree.files)[Erased(path)] = Data
         /\ Erased(path) \in Seq(Names)
<1>1. disk = tree /\ DirectoryTree(tree)
  BY PackedTree DEF Handled, ZipPcs
<1>2. path \in DOMAIN tree.files /\ Data = tree.files[path]
  BY <1>1 DEF ZipInv, InHand, Data
<1> QED
  BY <1>1, <1>2, RelativeFacts DEF AllFiles

LEMMA AllListed ==
  ASSUME ZipInv, pc = "create"
  PROVE  Listed = AllFiles
<1>1. disk = tree /\ DirectoryTree(tree) /\ frames = <<>>
  BY PackedTree DEF ZipPcs
<1>2. Len(frames) = 0
  BY <1>1
<1>3. Passed = DOMAIN tree.files
  BY <1>1, <1>2 DEF Passed, Pending
<1> QED
  BY <1>1, <1>3, RelativeFacts DEF Listed, AllFiles

(* What is read and written of the file in hand leaves the rest alone.     *)
LEMMA ZippingKept ==
  ASSUME ZipInv, pc \in Handled, pc' \in Handled, UNCHANGED <<tree, path, filelist, zip>>,
         \/ UNCHANGED spoiled
         \/ spoiled' = spoiled \cup {Erased(path)}
  PROVE  Zipping'
<1>1. Erased(path) \in AllFiles /\ AllFiles' = AllFiles
  BY FileInHand DEF AllFiles
<1>2. /\ Zipped \cup {Erased(path)} \cup Range(filelist) = AllFiles
      /\ Len(zip) + 1 + Len(filelist) = Cardinality(AllFiles)
      /\ spoiled \subseteq AllFiles /\ AllFiles # {}
      /\ \A e \in Range(zip) : e.name \notin spoiled => e.data = Relative(tree.files)[e.name]
  BY DEF ZipInv, Zipping, Current
<1>3. spoiled \subseteq spoiled' /\ spoiled' \subseteq AllFiles
  BY <1>1, <1>2
<1>4. Zipped' = Zipped /\ Current' = {Erased(path)}
  BY DEF Zipped, Current
<1> QED
  BY <1>1, <1>2, <1>3, <1>4 DEF Zipping

LEMMA BlockWritten ==
  ASSUME ZipInv, pc = "block", NEW n \in 1 .. BufferSize, n <= Rest, Written(n),
         UNCHANGED <<pc, disk, path>>
  PROVE  InHand' /\ got' \in [read : Nat, written : Seq(Bytes)]
<1> DEFINE d == Data
           r == got.read
<1>1. pc \in Handled
  BY DEF Handled
<1>2. /\ d \in Seq(Bytes) /\ r \in Nat /\ r <= Len(d) /\ got.written = SubSeq(d, 1, r)
      /\ path \in DOMAIN disk.files
  BY <1>1, FileInHand DEF ZipInv, ZipTyped, InHand
<1>3. n \in Nat /\ r + n <= Len(d) /\ r + n \in Nat
  BY <1>2, ArchiverAssumption DEF Rest
<1>4. Data' = d
  BY DEF Data
<1>5. got' = [read |-> r + n, written |-> SubSeq(d, 1, r) \o SubSeq(d, r + 1, r + n)]
  BY <1>2 DEF Written, Part
<1> HIDE DEF d, r
<1>a. SubSeq(d, 1, r) \o SubSeq(d, r + 1, r + n) = SubSeq(d, 1, r + n)
  <2>1. 1 \in 1 .. Len(d) + 1 /\ r \in 1 - 1 .. Len(d) /\ r + n \in r .. Len(d)
    BY <1>2, <1>3
  <2> QED
    BY <1>2, <2>1, ConcatAdjacentSubSeq
<1>6. got'.read = r + n /\ got'.written = SubSeq(d, 1, r + n)
  BY <1>5, <1>a
<1>7. SubSeq(d, 1, r + n) \in Seq(Bytes)
  BY <1>2, <1>3, SubSeqFacts
<1>8. got' \in [read : Nat, written : Seq(Bytes)]
  BY <1>3, <1>5, <1>7, <1>a
<1>9. InHand'
  BY <1>2, <1>3, <1>4, <1>6 DEF InHand
<1> QED
  BY <1>8, <1>9

LEMMA ZipInit == Init => ZipInv
<1> SUFFICES ASSUME Init PROVE ZipInv
  OBVIOUS
<1>1. ListInv /\ pc = "open" /\ zip = <<>> /\ got = [read |-> 0, written |-> <<>>]
  BY ListInit DEF Init
<1> QED
  BY <1>1 DEF ZipInv, ZipTyped, InHand, Zipping, Handled

LEMMA ZipStep == ZipInv /\ [Next]_vars => ZipInv'
<1> SUFFICES ASSUME ZipInv, [Next]_vars PROVE ZipInv'
  OBVIOUS
<1>0. ListInv' /\ ZipTyped /\ WalkInv
  BY ListStep DEF ZipInv, ListInv
<1>1. CASE OpenZip
  <2>1. /\ pc = "create" /\ pc' = "files" /\ UNCHANGED <<tree, disk, filelist, zip, got, spoiled>>
    BY <1>1 DEF OpenZip, zipVars
  <2>2. disk = tree /\ DirectoryTree(tree) /\ walk = "list" /\ frames = <<>>
    BY <2>1, PackedTree DEF ZipPcs
  <2>3. /\ Range(filelist) = Listed /\ Len(filelist) = Cardinality(Listed)
        /\ zip = <<>> /\ spoiled = {}
    BY <2>1, <2>2 DEF ZipInv, ListInv, Listing
  <2>4. Listed = AllFiles /\ AllFiles # {}
    <3>1. Listed = AllFiles
      BY <2>1, AllListed
    <3>2. filelist # <<>> /\ filelist \in Seq(Seq(Names))
      BY <1>0, <1>1 DEF OpenZip, WalkInv, Typed
    <3>3. Head(filelist) \in Range(filelist)
      BY <3>2, FirstAndRest
    <3> QED
      BY <2>3, <3>1, <3>3
  <2>5. Range(zip) = {} /\ Len(zip) = 0
    BY <2>3, RangeEmpty
  <2>6. Zipped' = {} /\ Current' = {} /\ Range(zip') = {} /\ AllFiles' = AllFiles
    BY <2>1, <2>5 DEF Zipped, Current, Handled, AllFiles
  <2>7. Len(zip') + 0 + Len(filelist') = Cardinality(AllFiles)
    <3>1. Len(filelist) \in Nat
      BY <1>0 DEF WalkInv, Typed
    <3> QED
      BY <2>1, <2>3, <2>4, <2>5, <3>1
  <2>8. Zipping'
    BY <2>1, <2>3, <2>4, <2>6, <2>7 DEF Zipping, Handled
  <2> QED
    BY <1>0, <2>1, <2>8 DEF ZipInv, ZipTyped, InHand, Handled
<1>2. CASE NewFileInZip
  <2>1. /\ pc = "files" /\ pc' = "fopen" /\ filelist # <<>>
        /\ path' = Root \o Head(filelist) /\ filelist' = Tail(filelist)
        /\ got' = [read |-> 0, written |-> <<>>] /\ UNCHANGED <<tree, disk, zip, spoiled>>
    BY <1>2 DEF NewFileInZip
  <2>2. disk = tree /\ DirectoryTree(tree)
    BY <2>1, PackedTree DEF ZipPcs
  <2> DEFINE h == Head(filelist)
  <2>3. /\ filelist \in Seq(Seq(Names)) /\ Len(filelist) \in Nat
        /\ Len(Tail(filelist)) = Len(filelist) - 1
        /\ Range(filelist) = {h} \cup Range(Tail(filelist))
    BY <1>0, <2>1, FirstAndRest DEF WalkInv, Typed
  <2> HIDE DEF h
  <2>4. /\ Zipped \cup Range(filelist) = AllFiles /\ spoiled \subseteq AllFiles
        /\ AllFiles # {}
        /\ Len(zip) + 0 + Len(filelist) = Cardinality(AllFiles)
        /\ \A e \in Range(zip) : e.name \notin spoiled => e.data = Relative(tree.files)[e.name]
    BY <2>1 DEF ZipInv, Zipping, Current, Handled
  <2>5. h \in AllFiles
    BY <2>3, <2>4
  <2>6. Erased(path') = h /\ path' \in DOMAIN tree.files
    BY <2>1, <2>2, <2>5, RelativeFacts DEF AllFiles, h
  <2>7. Zipped' = Zipped /\ Current' = {h} /\ AllFiles' = AllFiles
    BY <2>1, <2>6 DEF Zipped, Current, Handled, AllFiles
  <2>8. Zipped' \cup Current' \cup Range(filelist') = AllFiles'
    BY <2>1, <2>3, <2>4, <2>7
  <2>9. Len(zip) + 1 + Len(filelist') = Cardinality(AllFiles)
    <3>1. Len(zip) \in Nat
      BY <1>0 DEF ZipTyped
    <3> QED
      BY <2>1, <2>3, <2>4, <3>1
  <2>10. Zipping'
    BY <2>1, <2>4, <2>7, <2>8, <2>9 DEF Zipping, Handled
  <2>11. Data' \in Seq(Bytes) /\ path' \in DOMAIN disk'.files
    BY <2>1, <2>2, <2>6 DEF Data, DirectoryTree
  <2>12. InHand'
    <3>1. SubSeq(Data', 1, 0) = <<>> /\ Len(Data') \in Nat
      BY <2>11
    <3> QED
      BY <2>1, <2>11, <3>1 DEF InHand
  <2>13. ZipTyped'
    BY <1>0, <2>1 DEF ZipTyped
  <2> QED
    BY <1>0, <2>10, <2>12, <2>13 DEF ZipInv
<1>3. CASE OpenFile \/ EndOfFile \/ BlockFails
  <2>1. /\ pc \in {"fopen", "block"} /\ pc' \in Handled /\ pc \in Handled
        /\ UNCHANGED <<tree, disk, path, filelist, zip, got>>
        /\ UNCHANGED spoiled \/ spoiled' = spoiled \cup {Erased(path)}
        /\ pc' = "close" /\ Erased(path) \notin spoiled' => Rest = 0
    BY <1>3 DEF OpenFile, EndOfFile, BlockFails, walkVars, zipVars, Handled
  <2>2. Zipping'
    BY <2>1, ZippingKept
  <2>3. Data \in Seq(Bytes) /\ got.read \in Nat
    BY <1>0, <2>1, FileInHand DEF ZipTyped
  <2>4. pc' = "close" /\ Erased(path) \notin spoiled' => got.read = Len(Data)
    BY <2>1, <2>3 DEF Rest
  <2>5. Data' = Data
    BY <2>1 DEF Data
  <2>6. InHand'
    BY <2>1, <2>4, <2>5 DEF ZipInv, InHand
  <2> QED
    BY <1>0, <2>1, <2>2, <2>6 DEF ZipInv, ZipTyped
<1>4. CASE ReadBlock \/ \E n \in 1 .. BufferSize : ReadPart(n)
  <2>1. /\ pc = "block" /\ pc \in Handled /\ UNCHANGED <<tree, disk, pc, path, filelist, zip>>
        /\ UNCHANGED spoiled \/ spoiled' = spoiled \cup {Erased(path)}
    BY <1>4 DEF ReadBlock, ReadPart, walkVars, Handled
  <2>2. Data \in Seq(Bytes) /\ got.read \in Nat /\ Rest \in Int
    BY <1>0, <2>1, FileInHand DEF ZipTyped, Rest
  <2>3. Most \in Int /\ Most <= Rest /\ Most <= BufferSize /\ (Rest > 0 => Most > 0)
    BY <2>2, ArchiverAssumption DEF Most
  <2>4. PICK n \in 1 .. BufferSize : n <= Rest /\ Written(n)
    <3>1. CASE ReadBlock
      <4>1. Rest > 0 /\ Written(Most)
        BY <3>1 DEF ReadBlock
      <4>2. Most \in 1 .. BufferSize
        BY <2>3, <4>1, ArchiverAssumption
      <4> QED
        BY <2>3, <4>1, <4>2
    <3>2. ASSUME NEW n \in 1 .. BufferSize, ReadPart(n)
          PROVE  n <= Rest /\ Written(n)
      <4>1. n \in 1 .. Most /\ Written(n)
        BY <3>2 DEF ReadPart
      <4> QED
        BY <2>2, <2>3, <4>1
    <3> QED
      BY <1>4, <3>1, <3>2
  <2>5. InHand' /\ got' \in [read : Nat, written : Seq(Bytes)]
    BY <2>1, <2>4, BlockWritten
  <2>6. Zipping'
    BY <2>1, ZippingKept
  <2> QED
    BY <1>0, <2>1, <2>5, <2>6 DEF ZipInv, ZipTyped
<1>5. CASE CloseFileInZip
  <2> DEFINE e == [name |-> Erased(path), data |-> got.written]
  <2>1. /\ pc = "close" /\ pc' = "files" /\ pc \in Handled /\ zip' = Append(zip, e)
        /\ UNCHANGED <<tree, disk, path, filelist, got, spoiled>>
    BY <1>5 DEF CloseFileInZip, walkVars, Handled
  <2>2. /\ Data \in Seq(Bytes) /\ Relative(tree.files)[Erased(path)] = Data
        /\ Erased(path) \in Seq(Names)
    BY <2>1, FileInHand
  <2>3. e.name = Erased(path) /\ e.data = got.written /\ e \in Entry
    BY <1>0, <2>2 DEF ZipTyped, Entry
  <2>4. e.name \notin spoiled => e.data = Relative(tree.files)[e.name]
    <3>1. ASSUME Erased(path) \notin spoiled PROVE got.written = Data
      <4>1. got.read = Len(Data) /\ got.written = SubSeq(Data, 1, Len(Data))
        BY <2>1, <3>1 DEF ZipInv, InHand
      <4>2. Len(Data) \in 0 .. Len(Data)
        BY <2>2
      <4> QED
        BY <2>2, <4>1, <4>2, SubSeqFacts
    <3> QED
      BY <2>2, <2>3, <3>1
  <2> HIDE DEF e
  <2>5. /\ zip' \in Seq(Entry) /\ Len(zip') = Len(zip) + 1 /\ Range(zip') = Range(zip) \cup {e}
        /\ Len(zip) \in Nat
    BY <1>0, <2>1, <2>3, Appended DEF ZipTyped
  <2>6. /\ Zipped \cup {Erased(path)} \cup Range(filelist) = AllFiles /\ spoiled \subseteq AllFiles
        /\ AllFiles # {}
        /\ Len(zip) + 1 + Len(filelist) = Cardinality(AllFiles)
        /\ \A x \in Range(zip) : x.name \notin spoiled => x.data = Relative(tree.files)[x.name]
    BY <2>1 DEF ZipInv, Zipping, Current
  <2>7. Zipped' = Zipped \cup {Erased(path)} /\ Current' = {} /\ AllFiles' = AllFiles
    BY <2>1, <2>3, <2>5 DEF Zipped, Current, Handled, AllFiles
  <2>8. \A x \in Range(zip') : x.name \notin spoiled => x.data = Relative(tree.files)[x.name]
    BY <2>4, <2>5, <2>6
  <2>9. Len(zip') + 0 + Len(filelist') = Cardinality(AllFiles')
    BY <2>1, <2>5, <2>6, <2>7
  <2>10. Zipped' \cup Current' \cup Range(filelist') = AllFiles'
    BY <2>1, <2>6, <2>7
  <2>11. pc' \notin Handled
    BY <2>1 DEF Handled
  <2>12. Zipping'
    BY <2>1, <2>6, <2>7, <2>8, <2>9, <2>10, <2>11 DEF Zipping
  <2> QED
    BY <1>0, <2>1, <2>5, <2>11, <2>12 DEF ZipInv, ZipTyped, InHand
<1>6. ASSUME pc' \notin {"files"} \cup Handled, UNCHANGED <<zip, got>> PROVE ZipInv'
  BY <1>0, <1>6 DEF ZipInv, ZipTyped, InHand, Zipping
<1>7. CASE OpenDir \/ OpenDirFails \/ CloseDir \/ RmdirRefused \/ \E x \in Paths : AtEntry(x)
  <2>1. pc' \in {"open", "read", "create", "over", "exit"} /\ UNCHANGED <<zip, got>>
    BY <1>7 DEF OpenDir, OpenDirFails, CloseDir, RmdirRefused, DirDone, AtEntry, EnterDir,
                ListFile, UnlinkFile, UnlinkRefused, Read, zipVars
  <2> QED
    BY <1>6, <2>1 DEF Handled
<1>8. CASE NoFiles \/ OpenZipFails \/ CloseZip \/ FileAborts
  <2>1. pc' \in {"open", "exit"} /\ UNCHANGED <<zip, got>>
    BY <1>8 DEF NoFiles, OpenZipFails, CloseZip, FileAborts, Return, ErrorUnexpected, zipVars
  <2> QED
    BY <1>6, <2>1 DEF Handled
<1>9. CASE UNCHANGED vars
  <2>1. UNCHANGED <<tree, disk, pc, path, filelist, zip, got, spoiled>>
    BY <1>9 DEF vars
  <2>2. ZipTyped' /\ InHand'
    BY <2>1 DEF ZipInv, ZipTyped, InHand, Data
  <2>3. Zipping'
    BY <2>1 DEF ZipInv, Zipping, Zipped, Current, AllFiles
  <2> QED
    BY <1>0, <2>2, <2>3 DEF ZipInv
<1> QED
  BY <1>1, <1>2, <1>3, <1>4, <1>5, <1>7, <1>8, <1>9 DEF Next, Terminated

-----------------------------------------------------------------------------
(* While the directory is removed, all that is there is still to come, or  *)
(* on the way to it; and when something was refused it is there for good.  *)
Removing ==
  walk = "remove" /\ Walking =>
    IF refused THEN \E x \in Paths : x # Root /\ ~Pending(x) /\ ~Under(x)
               ELSE \A x \in Paths : Pending(x) \/ Under(x)

RemInv == WalkInv /\ Removing /\ NothingLeft

LEMMA RemInit == Init => RemInv
BY WalkInit DEF Init, RemInv, Removing, NothingLeft

(* A step that keeps the order of the walk, and what is there.             *)
LEMMA RemovingKept ==
  ASSUME Removing, walk = "remove", Walking, UNCHANGED <<disk, refused>>,
         \A x \in Paths : Pending(x) \/ Under(x) <=> (Pending(x) \/ Under(x))'
  PROVE  Removing'
<1>1. Paths' = Paths
  BY DEF Paths
<1>2. CASE refused
  <2>1. PICK x \in Paths : x # Root /\ ~Pending(x) /\ ~Under(x)
    BY <1>2 DEF Removing
  <2> QED
    BY <1>1, <1>2, <2>1 DEF Removing
<1>3. CASE ~refused
  BY <1>1, <1>3 DEF Removing
<1> QED
  BY <1>2, <1>3

LEMMA RemStep == RemInv /\ [Next]_vars => RemInv'
<1> SUFFICES ASSUME RemInv, [Next]_vars PROVE RemInv'
  OBVIOUS
<1>0. WalkInv /\ Removing /\ NothingLeft /\ WalkInv'
  BY WalkStep DEF RemInv
<1> SUFFICES Removing' /\ NothingLeft'
  BY <1>0 DEF RemInv
<1>1. CASE OpenDir
  <2>1. pc = "open" /\ pc' = "read" /\ UNCHANGED <<disk, walk, refused>>
    BY <1>1 DEF OpenDir
  <2>2. \A x \in Paths : (Pending(x)' <=> Pending(x) /\ x # path)
                        /\ (Under(x)' <=> Under(x) \/ x = path)
    BY <1>0, <1>1, StepOpenDir
  <2>3. Pending(path)
    <3>1. path \in Seq(Names)
      BY <1>0 DEF WalkInv, Typed
    <3>2. Len(path) \in 0 .. Len(path) /\ Len(path) >= Len(path)
      BY <3>1
    <3>3. SubSeq(path, 1, Len(path)) = path
      BY <3>1, <3>2, SubSeqFacts
    <3> QED
      BY <2>1, <3>2, <3>3 DEF Pending
  <2>4. \A x \in Paths : Pending(x) \/ Under(x) <=> (Pending(x) \/ Under(x))'
    BY <2>2, <2>3
  <2>5. Removing'
    <3>1. CASE walk = "remove"
      BY <1>0, <2>1, <2>4, <3>1, RemovingKept DEF Walking
    <3> QED
      BY <2>1, <3>1 DEF Removing
  <2> QED
    BY <2>1, <2>5 DEF NothingLeft
<1>2. CASE OpenDirFails
  BY <1>2 DEF OpenDirFails, Removing, NothingLeft, Walking
<1>3. ASSUME NEW e \in Paths, EnterDir(e) PROVE Removing' /\ NothingLeft'
  <2>1. pc = "read" /\ pc' = "open" /\ UNCHANGED <<disk, walk, refused>>
    BY <1>3 DEF EnterDir, Read
  <2>2. \A x \in Paths : (Pending(x)' <=> Pending(x)) /\ (Under(x)' <=> Under(x))
    BY <1>0, <1>3, <2>1, StepEnterDir
  <2>3. Removing'
    <3>1. CASE walk = "remove"
      BY <1>0, <2>1, <2>2, <3>1, RemovingKept DEF Walking
    <3> QED
      BY <2>1, <3>1 DEF Removing
  <2> QED
    BY <2>1, <2>3 DEF NothingLeft
<1>4. ASSUME NEW e \in Paths, ListFile(e) PROVE Removing' /\ NothingLeft'
  BY <1>4 DEF ListFile, Read, Removing, NothingLeft
<1>5. ASSUME NEW e \in Paths, UnlinkFile(e) PROVE Removing' /\ NothingLeft'
  <2>1. /\ pc = "read" /\ pc' = pc /\ Read(e) /\ e \in DOMAIN disk.files
        /\ walk = "remove" /\ UNCHANGED <<walk, refused>>
        /\ disk' = [disk EXCEPT !.files = [y \in DOMAIN @ \ {e} |-> @[y]]]
    BY <1>5 DEF UnlinkFile, Read
  <2>2. DirectoryTree(disk)
    BY <1>0, <2>1, TreeThere
  <2>3. disk'.dirs = disk.dirs /\ DOMAIN disk'.files = DOMAIN disk.files \ {e}
    BY <2>1, <2>2, FileUnlinked
  <2>4. Paths' = Paths \ {e}
    BY <2>1, <2>2, <2>3 DEF Paths, DirectoryTree
  <2>5. /\ Pending(e) /\ ~Under(e)
        /\ \A x \in Paths : /\ Pending(x)' <=> Pending(x) /\ x # e
                            /\ Under(x)' <=> Under(x)
    BY <1>0, <2>1, <2>3, <2>4, StepTakeFile
  <2>6. CASE refused
    <3>1. PICK x \in Paths : x # Root /\ ~Pending(x) /\ ~Under(x)
      BY <1>0, <2>1, <2>6 DEF Removing, Walking
    <3>2. x \in Paths' /\ ~Pending(x)' /\ ~Under(x)'
      BY <2>4, <2>5, <3>1
    <3> QED
      BY <2>1, <2>6, <3>1, <3>2 DEF Removing, NothingLeft
  <2>7. CASE ~refused
    <3>1. \A x \in Paths' : Pending(x)' \/ Under(x)'
      BY <1>0, <2>1, <2>4, <2>5, <2>7 DEF Removing, Walking
    <3> QED
      BY <2>1, <2>7, <3>1 DEF Removing, NothingLeft
  <2> QED
    BY <2>6, <2>7
<1>6. ASSUME NEW e \in Paths, UnlinkRefused(e) PROVE Removing' /\ NothingLeft'
  <2>1. /\ pc = "read" /\ pc' = pc /\ Read(e) /\ e \in DOMAIN disk.files
        /\ walk = "remove" /\ refused' = TRUE /\ UNCHANGED <<disk, walk>>
    BY <1>6 DEF UnlinkRefused, Read
  <2>2. Paths' = Paths /\ disk'.dirs = disk.dirs
    BY <2>1 DEF Paths
  <2>3. /\ Pending(e) /\ ~Under(e)
        /\ \A x \in Paths : /\ Pending(x)' <=> Pending(x) /\ x # e
                            /\ Under(x)' <=> Under(x)
    BY <1>0, <2>1, <2>2, StepTakeFile
  <2>4. e # Root
    BY <1>0, <2>1, TreeThere DEF DirectoryTree
  <2>5. ~Pending(e)' /\ ~Under(e)' /\ e \in Paths'
    BY <2>2, <2>3
  <2> QED
    BY <2>1, <2>4, <2>5 DEF Removing, NothingLeft
<1>7. CASE CloseDir \/ RmdirRefused
  <2> DEFINE d == Last(frames).dir
  <2>1. /\ pc = "read" /\ DirDone /\ UNCHANGED walk
        /\ pc' = IF Len(frames) > 1 THEN "read" ELSE IF walk = "list" THEN "create" ELSE "over"
    BY <1>7 DEF CloseDir, RmdirRefused, DirDone
  <2>2. \/ UNCHANGED disk
        \/ Entries(d) = {} /\ disk' = [disk EXCEPT !.dirs = @ \ {d}]
    BY <1>7 DEF CloseDir, RmdirRefused, Rmdir
  <2>3. /\ Len(frames) = 1 <=> d = Root
        /\ \A x \in Paths : /\ Pending(x)' <=> Pending(x)
                            /\ Under(x)' <=> Under(x) /\ x # d
        /\ \A x \in Paths : x \in Entries(d) => ~Pending(x) /\ ~Under(x)
        /\ Under(d) /\ ~Pending(d) /\ frames # <<>> /\ DirectoryTree(disk)
    BY <1>0, <2>1, <2>2, StepCloseDir
  <2>4. Len(frames) \in Nat \ {0} /\ d \in disk.dirs
    BY <1>0, <2>3 DEF WalkInv, Typed, FramesRight, Under
  <2> HIDE DEF d
  <2>5. walk # "list" => pc' = IF d = Root THEN "over" ELSE "read"
    <3>1. Len(frames) > 1 <=> d # Root
      <4>1. Len(frames) > 1 <=> Len(frames) # 1
        <5>1. \A n \in Nat \ {0} : n > 1 <=> n # 1
          OBVIOUS
        <5> QED
          BY <2>4, <5>1, Zenon
      <4>2. Len(frames) = 1 <=> d = Root
        BY <2>3
      <4> QED
        BY <4>1, <4>2, Zenon
    <3> QED
      BY <2>1, <3>1
  <2>6. ASSUME walk # "remove" PROVE Removing' /\ NothingLeft'
    BY <1>0, <2>1, <2>6 DEF WalkInv, Phases, Removing, NothingLeft
  <2>7. ASSUME walk = "remove", RmdirRefused PROVE Removing' /\ NothingLeft'
    <3>1. UNCHANGED disk /\ refused' = TRUE
      BY <2>7 DEF RmdirRefused
    <3>2. PICK x \in Paths : x = d
      BY <2>4 DEF Paths
    <3>3. x \in Paths' /\ ~Pending(x)' /\ ~Under(x)'
      BY <2>3, <3>1, <3>2 DEF Paths
    <3>4. x # Root \/ pc' = "over"
      BY <2>5, <2>7, <3>2
    <3> QED
      BY <3>1, <3>3, <3>4 DEF Removing, NothingLeft, Walking
  <2>8. ASSUME walk = "remove", CloseDir PROVE Removing' /\ NothingLeft'
    <3>1. /\ UNCHANGED refused
          /\ disk' = IF Entries(d) = {} THEN [disk EXCEPT !.dirs = @ \ {d}] ELSE disk
      BY <2>8 DEF CloseDir, Rmdir, d
    <3>2. CASE refused
      <4>1. PICK x \in Paths : x # Root /\ ~Pending(x) /\ ~Under(x)
        BY <1>0, <2>1, <2>8, <3>2 DEF Removing, Walking
      <4>2. x # d
        BY <2>3, <4>1
      <4>3. x \in Paths' /\ ~Pending(x)' /\ ~Under(x)'
        <5>1. x \in Paths'
          <6>1. CASE UNCHANGED disk
            BY <4>1, <6>1 DEF Paths
          <6>2. CASE Entries(d) = {} /\ disk' = [disk EXCEPT !.dirs = @ \ {d}]
            BY <2>3, <2>4, <4>1, <4>2, <6>2, DirRemoved DEF Paths
          <6> QED
            BY <2>2, <6>1, <6>2 DEF d
        <5> QED
          BY <2>3, <4>1, <5>1
      <4> QED
        BY <3>1, <3>2, <4>1, <4>3 DEF Removing, NothingLeft
    <3>3. CASE ~refused
      <4>1. \A x \in Paths : Pending(x) \/ Under(x)
        BY <1>0, <2>1, <2>8, <3>3 DEF Removing, Walking
      <4>2. Entries(d) = {}
        BY <2>3, <4>1 DEF Entries
      <4>3. /\ disk'.files = disk.files /\ disk'.dirs = disk.dirs \ {d}
            /\ d = Root => disk'.dirs = {} /\ DOMAIN disk'.files = {}
        BY <2>3, <2>4, <3>1, <4>2, DirRemoved
      <4>4. d \notin DOMAIN disk.files
        BY <2>3, <2>4 DEF DirectoryTree
      <4>5. Paths' = Paths \ {d}
        BY <4>3, <4>4 DEF Paths
      <4>6. \A x \in Paths' : Pending(x)' \/ Under(x)'
        BY <2>3, <4>1, <4>5
      <4>7. d = Root => Paths' = {}
        BY <4>3 DEF Paths
      <4> QED
        BY <2>5, <2>8, <3>1, <3>3, <4>6, <4>7 DEF Removing, NothingLeft
    <3> QED
      BY <3>2, <3>3
  <2> QED
    BY <1>0, <1>7, <2>6, <2>7, <2>8
<1>8. ASSUME ZipGoesOn \/ ZipAborts PROVE Removing' /\ NothingLeft'
  <2>1. pc' # "over" /\ walk' # "remove"
    BY <1>0, <1>8 DEF ZipGoesOn, ZipAborts, ZipPcs, WalkInv, Phases
  <2> QED
    BY <2>1 DEF Removing, NothingLeft
<1>9. ASSUME ZipReturns PROVE Removing' /\ NothingLeft'
  <2>1. /\ pc \in ZipPcs /\ pc' = "open" /\ path' = Root /\ UNCHANGED <<disk, refused>>
    BY <1>9 DEF ZipReturns, Return
  <2>2. pc # "over" /\ ~refused
    BY <1>0, <2>1 DEF WalkInv, Phases, ZipPcs
  <2>3. \A x \in Paths : Len(x) >= Len(Root) /\ SubSeq(x, 1, Len(Root)) = Root
    BY <1>0, <2>2, TreeThere DEF DirectoryTree, Entire, Paths
  <2>4. \A x \in Paths' : Pending(x)'
    BY <2>1, <2>3 DEF Pending, Paths
  <2> QED
    BY <2>1, <2>2, <2>4 DEF Removing, NothingLeft
<1>10. CASE UNCHANGED vars
  <2>1. UNCHANGED <<faults, disk, pc, walk, path, frames, refused>>
    BY <1>10 DEF vars
  <2>2. NothingLeft'
    BY <1>0, <2>1 DEF NothingLeft, Paths
  <2>3. \A x \in Paths : (Pending(x)' <=> Pending(x)) /\ (Under(x)' <=> Under(x))
    BY <2>1 DEF Pending, Under
  <2>4. Removing'
    <3>1. CASE walk = "remove" /\ Walking
      BY <1>0, <2>1, <2>3, <3>1, RemovingKept
    <3> QED
      BY <2>1, <3>1 DEF Removing, Walking
  <2> QED
    BY <2>2, <2>4
<1> QED
  BY <1>0, <1>1, <1>2, <1>3, <1>4, <1>5, <1>6, <1>7, <1>8, <1>9, <1>10, ZipKinds
  DEF Next, AtEntry, Terminated

(* The removal leaves nothing behind unless a directory cannot be opened   *)
(* or a file cannot be deleted.                                            *)
THEOREM RemovedEntirely == Spec => []NothingLeft
<1>1. Init => RemInv
  BY RemInit
<1>2. RemInv /\ [Next]_vars => RemInv'
  BY RemStep
<1>3. RemInv => NothingLeft
  BY DEF RemInv
<1> QED
  BY <1>1, <1>2, <1>3, PTL DEF Spec

-----------------------------------------------------------------------------
(* The same seen by the callers: every step is one of Packing, or none.    *)
PackInv == ZipInv /\ RemInv

Unseen == UNCHANGED <<tree, disk, ret, spoiled, refused>> /\ (ret = "ok" => UNCHANGED zip)

LEMMA UnseenStep ==
  ASSUME Unseen
  PROVE  UNCHANGED AsPacked!vars
BY DEF Unseen, AsPacked!vars

LEMMA PackStart == Init => AsPacked!Init
<1> SUFFICES ASSUME Init PROVE AsPacked!Init
  OBVIOUS
<1>1. /\ disk = tree /\ ret = "none" /\ spoiled = {} /\ refused = FALSE
      /\ WalkInv /\ pc # "over"
  BY WalkInit DEF Init
<1>2. disk.dirs # {}
  BY <1>1, TreeThere
<1> QED
  BY <1>1, <1>2 DEF AsPacked!Init

LEMMA SameOperators ==
  /\ \A S : AsPacked!Cardinality(S) = Cardinality(S)
  /\ \A f : AsPacked!Range(f) = Range(f)
<1>1. ASSUME NEW S PROVE AsPacked!Cardinality(S) = Cardinality(S)
  BY DEF AsPacked!Cardinality, Cardinality
<1>2. ASSUME NEW f PROVE AsPacked!Range(f) = Range(f)
  BY DEF AsPacked!Range, Range
<1> QED
  BY <1>1, <1>2

LEMMA PackStep == PackInv /\ [Next]_vars => [AsPacked!Next]_(AsPacked!vars)
<1> SUFFICES ASSUME PackInv, [Next]_vars PROVE [AsPacked!Next]_(AsPacked!vars)
  OBVIOUS
<1> DEFINE out == IF ret = "ok" THEN zip ELSE <<>>
<1>0. /\ WalkInv /\ Removing /\ ZipInv /\ ListInv /\ Listing
      /\ (walk = "remove" => ret \in {"ok", "noopen", "nofiles"})
      /\ (walk = "list" => ret \in {"none", "abort"} /\ ~refused)
      /\ (pc \in ZipPcs => ret = "none" /\ walk = "list")
  <2>1. WalkInv /\ Removing /\ ZipInv /\ ListInv /\ Listing
    BY DEF PackInv, RemInv, ZipInv, ListInv
  <2> QED
    BY <2>1 DEF WalkInv, Phases, ZipPcs
<1>1. ASSUME Unseen PROVE [AsPacked!Next]_(AsPacked!vars)
  BY <1>1, UnseenStep
<1>2. CASE OpenDir \/ (\E x \in Paths : EnterDir(x) \/ ListFile(x))
  BY <1>1, <1>2 DEF OpenDir, EnterDir, ListFile, zipVars, Unseen
<1>3. CASE OpenZip \/ NewFileInZip \/ OpenFile \/ ReadBlock \/ EndOfFile \/ CloseFileInZip
  <2>1. pc \in ZipPcs /\ UNCHANGED <<tree, disk, ret, spoiled, refused>>
    BY <1>3 DEF OpenZip, NewFileInZip, OpenFile, ReadBlock, EndOfFile, CloseFileInZip,
                zipVars, ZipPcs
  <2> QED
    BY <1>0, <1>1, <2>1 DEF Unseen
<1>4. CASE OpenDirFails
  <2>1. /\ pc = "open" /\ UNCHANGED <<tree, disk, zip, spoiled, refused>>
        /\ IF walk = "list" THEN ret' = "abort" ELSE ret' = ret
    BY <1>4 DEF OpenDirFails, zipVars
  <2>2. CASE walk = "list"
    <3>1. ret = "none"
      BY <1>0, <2>1, <2>2 DEF WalkInv, Phases
    <3>2. AsPacked!PackFails
      BY <2>1, <2>2, <3>1 DEF AsPacked!PackFails
    <3> QED
      BY <3>2 DEF AsPacked!Next
  <2>3. CASE walk # "list"
    BY <1>1, <2>1, <2>3 DEF Unseen
  <2> QED
    BY <2>2, <2>3
<1>5. CASE FileAborts \/ OpenZipFails
  <2>1. /\ pc \in ZipPcs /\ UNCHANGED <<tree, disk, zip, spoiled, refused>>
        /\ ret' \in {"abort", "noopen"}
    BY <1>5 DEF FileAborts, ErrorUnexpected, OpenZipFails, Return, zipVars, ZipPcs
  <2>2. AsPacked!PackFails
    BY <1>0, <2>1 DEF AsPacked!PackFails
  <2> QED
    BY <2>2 DEF AsPacked!Next
<1>6. CASE BlockFails \/ \E n \in 1 .. BufferSize : ReadPart(n)
  <2>1. /\ pc = "block" /\ UNCHANGED <<tree, disk, zip, ret, refused>>
        /\ spoiled' = spoiled \cup {Erased(path)}
    BY <1>6 DEF BlockFails, ReadPart
  <2>2. Erased(path) \in AllFiles /\ spoiled \subseteq AllFiles
    BY <1>0, <2>1, FileInHand DEF ZipInv, Zipping, Handled
  <2>3. AsPacked!Spoil
    BY <1>0, <2>1, <2>2 DEF AsPacked!Spoil, AllFiles, ZipPcs
  <2> QED
    BY <2>3 DEF AsPacked!Next
<1>7. CASE NoFiles
  <2>1. /\ pc = "create" /\ filelist = <<>> /\ ret' = "nofiles"
        /\ UNCHANGED <<tree, disk, zip, spoiled, refused>>
    BY <1>7 DEF NoFiles, Return, zipVars
  <2>2. ret = "none" /\ AllFiles = Listed /\ Range(filelist) = Listed
    BY <1>0, <2>1, AllListed DEF ZipPcs, Listing
  <2>3. AllFiles = {}
    BY <2>1, <2>2, RangeEmpty
  <2>4. AsPacked!NothingToPack
    BY <2>1, <2>2, <2>3 DEF AsPacked!NothingToPack, AllFiles
  <2> QED
    BY <2>4 DEF AsPacked!Next
<1>8. CASE CloseZip
  <2>1. /\ pc = "files" /\ filelist = <<>> /\ ret' = "ok"
        /\ UNCHANGED <<tree, disk, zip, spoiled, refused>>
    BY <1>8 DEF CloseZip, Return, zipVars
  <2>2. Range(filelist) = {} /\ Len(filelist) = 0 /\ Len(zip) \in Nat
    BY <1>0, <2>1, RangeEmpty DEF ZipInv, ZipTyped
  <2>3. /\ Zipped = AllFiles /\ Len(zip) + 0 + Len(filelist) = Cardinality(AllFiles)
        /\ \A e \in Range(zip) : e.name \notin spoiled => e.data = Relative(tree.files)[e.name]
    BY <1>0, <2>1, <2>2 DEF ZipInv, Zipping, Current, Handled
  <2>4. Len(zip) = Cardinality(AllFiles)
    BY <2>2, <2>3
  <2>5. AllFiles # {}
    BY <1>0, <2>1 DEF ZipInv, Zipping, Handled
  <2>6. AsPacked!Pack
    <3>1. ret = "none" /\ AllFiles' = AllFiles
      BY <1>0, <2>1 DEF ZipPcs, AllFiles
    <3>2. out' = zip
      BY <2>1
    <3>3. /\ UNCHANGED <<Relative(tree.files), DOMAIN Relative(disk.files), spoiled, refused,
                         disk.dirs = {}>>
          /\ ret' = "ok"
      BY <2>1
    <3>4. {e.name : e \in Range(out')} = DOMAIN Relative(tree.files)
      BY <2>3, <3>2 DEF Zipped, AllFiles
    <3>5. Len(out') = Cardinality(DOMAIN Relative(tree.files))
      BY <2>4, <3>2 DEF AllFiles
    <3>6. \A e \in Range(out') : e.name \notin spoiled => e.data = Relative(tree.files)[e.name]
      BY <2>3, <3>2
    <3>7. DOMAIN Relative(tree.files) # {}
      BY <2>5 DEF AllFiles
    <3> QED
      BY <3>1, <3>3, <3>4, <3>5, <3>6, <3>7, SameOperators DEF AsPacked!Pack
  <2> QED
    BY <2>6 DEF AsPacked!Next
<1>9. ASSUME NEW x \in Paths, UnlinkFile(x) \/ UnlinkRefused(x)
      PROVE  [AsPacked!Next]_(AsPacked!vars)
  <2>1. /\ pc = "read" /\ walk = "remove" /\ x \in DOMAIN disk.files
        /\ UNCHANGED <<tree, ret, zip, spoiled>> /\ refused' \in {refused, TRUE}
    BY <1>9 DEF UnlinkFile, UnlinkRefused, Read, zipVars
  <2>2. DirectoryTree(disk) /\ disk.dirs # {} /\ ret \in {"ok", "noopen", "nofiles"}
    BY <1>0, <2>1, TreeThere
  <2>3. disk'.dirs = disk.dirs /\ DOMAIN disk'.files \subseteq DOMAIN disk.files
    <3>1. CASE UnlinkFile(x)
      <4>1. disk' = [disk EXCEPT !.files = [y \in DOMAIN @ \ {x} |-> @[y]]]
        BY <3>1 DEF UnlinkFile
      <4>2. disk'.dirs = disk.dirs /\ DOMAIN disk'.files = DOMAIN disk.files \ {x}
        BY <2>1, <2>2, <4>1, FileUnlinked
      <4> QED
        BY <4>2
    <3>2. CASE UnlinkRefused(x)
      BY <3>2 DEF UnlinkRefused
    <3> QED
      BY <1>9, <3>1, <3>2
  <2>4. DOMAIN Relative(disk'.files) \subseteq DOMAIN Relative(disk.files)
    BY <2>3 DEF Relative
  <2>5. AsPacked!Remove
    BY <2>1, <2>2, <2>3, <2>4 DEF AsPacked!Remove
  <2> QED
    BY <2>5 DEF AsPacked!Next
<1>10. CASE RmdirRefused
  <2>1. /\ pc = "read" /\ walk = "remove" /\ refused' = TRUE
        /\ UNCHANGED <<tree, disk, ret, zip, spoiled>>
    BY <1>10 DEF RmdirRefused, DirDone, zipVars
  <2>2. disk.dirs # {} /\ ret \in {"ok", "noopen", "nofiles"}
    BY <1>0, <2>1, TreeThere
  <2>3. AsPacked!Remove
    BY <2>1, <2>2 DEF AsPacked!Remove
  <2> QED
    BY <2>3 DEF AsPacked!Next
<1>11. CASE CloseDir
  <2> DEFINE d == Last(frames).dir
  <2>1. /\ pc = "read" /\ DirDone /\ UNCHANGED <<tree, ret, zip, spoiled, refused>>
        /\ \/ UNCHANGED disk
           \/ walk = "remove" /\ Entries(d) = {} /\ disk' = [disk EXCEPT !.dirs = @ \ {d}]
    BY <1>11 DEF CloseDir, DirDone, zipVars, Rmdir
  <2>2. CASE UNCHANGED disk
    BY <1>1, <2>1, <2>2 DEF Unseen
  <2>3. CASE walk = "remove" /\ Entries(d) = {} /\ disk' = [disk EXCEPT !.dirs = @ \ {d}]
    <3>1. /\ DirectoryTree(disk) /\ Under(d) /\ disk.dirs # {}
          /\ ret \in {"ok", "noopen", "nofiles"}
      BY <1>0, <2>1, <2>3, StepCloseDir, TreeThere
    <3>2. d \in disk.dirs
      BY <1>0, <3>1 DEF Under, WalkInv, FramesRight
    <3> HIDE DEF d
    <3>3. /\ disk'.files = disk.files
          /\ d = Root => Paths = {Root} /\ disk'.dirs = {} /\ DOMAIN disk'.files = {}
          /\ d # Root => DirectoryTree(disk')
      BY <2>3, <3>1, <3>2, DirRemoved DEF d
    <3>4. CASE d = Root
      <4>1. ~refused
        <5>1. \A x \in Paths : x = Root
          BY <3>3, <3>4
        <5> QED
          BY <1>0, <2>1, <2>3, <5>1 DEF Removing, Walking
      <4>2. DOMAIN Relative(disk.files) = {} /\ DOMAIN Relative(disk'.files) = {}
        BY <3>3, <3>4 DEF Relative
      <4>3. AsPacked!Release
        BY <2>1, <3>1, <3>3, <3>4, <4>1, <4>2 DEF AsPacked!Release
      <4> QED
        BY <4>3 DEF AsPacked!Next
    <3>5. CASE d # Root
      <4>1. disk'.dirs # {} /\ disk'.files = disk.files
        BY <3>3, <3>5 DEF DirectoryTree
      <4>2. UNCHANGED AsPacked!vars
        BY <2>1, <3>1, <4>1 DEF AsPacked!vars
      <4> QED
        BY <4>2
    <3> QED
      BY <3>4, <3>5
  <2> QED
    BY <2>1, <2>2, <2>3
<1>12. CASE UNCHANGED vars
  BY <1>1, <1>12 DEF vars, Unseen
<1> QED
  BY <1>2, <1>3, <1>4, <1>5, <1>6, <1>7, <1>8, <1>9, <1>10, <1>11, <1>12
  DEF Next, AtEntry, Terminated

(* Archiver implements Packing: what Conversion takes for granted of       *)
(* minizip_create() and directory_remove().                                *)
THEOREM ArchiverImplementsPacking == Spec => ImplementsPacking
<1>1. Init => PackInv /\ AsPacked!Init
  BY ZipInit, RemInit, PackStart DEF PackInv
<1>2. PackInv /\ [Next]_vars => PackInv'
  BY ZipStep, RemStep DEF PackInv
<1>3. PackInv /\ [Next]_vars => [AsPacked!Next]_(AsPacked!vars)
  BY PackStep
<1> QED
  BY <1>1, <1>2, <1>3, PTL DEF Spec, ImplementsPacking, AsPacked!Spec
=============================================================================
