----------------------------- MODULE MCOleFile ------------------------------
(***************************************************************************)
(* OLE2 files for OleFile: every shape of the directory's trees, streams   *)
(* on both sides of the cutoff, blocks laid down in order, backwards or    *)
(* rotated, depots that outgrow the header's list, files whose last block  *)
(* is not padded or that are cut off, and files that cannot be mounted.    *)
(***************************************************************************)
EXTENDS OleFile, FiniteSets, TLC

PerDepot == 4 \* numbers in a block
PerBlock == 2 \* directory entries in a block
PAD == 99

Ceil(a, b) == (a + b - 1) \div b
SumOf(seq) == FoldLeft(+, 0, seq)
Pad(seq, n, x) == seq \o [k \in 1 .. n - Len(seq) |-> x]
Pieces(seq, n) ==
  [k \in 1 .. Ceil(Len(seq), n) |-> SubSeq(seq, (k - 1) * n + 1, Least(k * n, Len(seq)))]

(* The binary trees of a set of entries.                                   *)
Trees[S \in SUBSET (1 .. 5)] ==
  IF S = {} THEN {[top |-> FREE, link |-> <<>>]}
  ELSE UNION {{[top |-> p[1],
                link |-> (p[1] :> [previous |-> l.top, next |-> n.top]) @@ l.link @@ n.link] :
                 l \in Trees[p[2]], n \in Trees[S \ ({p[1]} \cup p[2])]} :
               p \in {q \in S \X SUBSET S : q[1] \notin q[2]}}

(* An entry to be written: its name, type, content, links and children.    *)
Item(name, type, content) == [name |-> name, type |-> type, content |-> content]
Content(base, size) == [k \in 1 .. size |-> base + k]
BookOf(name, size)  == Item(name, 2, Content(IF name = "Book" THEN 200 ELSE 100, size))
Summary  == Item("Summary", 2, Content(300, 3))
Storage(name) == Item(name, 1, <<>>)

(* Where the n-th of count blocks comes.                                   *)
Place(kind, n, count) ==
  CASE kind = "forward"  -> n - 1
    [] kind = "backward" -> count - n
    [] kind = "rotated"  -> (n + 1) % count

(* A value that is used more than once.                                    *)
With(value, F(_)) == CHOOSE y \in {F(x) : x \in {value}} : TRUE

IsSmall(item) == item.type = 2 /\ Len(item.content) \in 1 .. Cutoff - 1
IsLarge(item) == item.type = 2 /\ Len(item.content) >= Cutoff
Bigs(items)   == SelectSeq([n \in DOMAIN items |-> n], LAMBDA n : IsLarge(items[n]))
Smalls(items) ==
  FlattenSeq([n \in DOMAIN items |->
    IF ~IsSmall(items[n]) THEN <<>>
    ELSE LET pieces == Pieces(items[n].content, SmallBlock)
         IN  [k \in DOMAIN pieces |-> [of |-> n, first |-> k = 1, last |-> k = Len(pieces),
                                       atoms |-> Pad(pieces[k], SmallBlock, PAD)]]])

(* The lengths of the chains: depot, its lists, directory, small depot,    *)
(* small blocks, large streams.                                            *)
Lists(depots) == IF depots > HeaderList THEN Ceil(depots - HeaderList, PerDepot - 1) ELSE 0
Counts(items, smalls, bigs) ==
  With(<<Ceil(Len(items) + 1, PerBlock), Ceil(Len(smalls), PerDepot),
         Ceil(Len(smalls) * SmallBlock, BigBlock)>>
       \o [k \in DOMAIN bigs |-> Ceil(Len(items[bigs[k]].content), BigBlock)],
       LAMBDA rest :
         With(CHOOSE f \in 1 .. 8 :
                /\ PerDepot * f >= f + Lists(f) + SumOf(rest)
                /\ \A g \in 1 .. f - 1 : PerDepot * g < g + Lists(g) + SumOf(rest),
              LAMBDA f : <<f, Lists(f)>> \o rest))

(* The number of each block of each chain, and whose block a number is.    *)
Numbers(count, kind) ==
  [c \in DOMAIN count |->
     [k \in 1 .. count[c] |-> Place(kind, SumOf(SubSeq(count, 1, c - 1)) + k, SumOf(count))]]
Owners(at) ==
  [b \in 0 .. SumOf([c \in DOMAIN at |-> Len(at[c])]) - 1 |->
     CHOOSE p \in UNION {{c} \X DOMAIN at[c] : c \in DOMAIN at} : at[p[1]][p[2]] = b]
FirstOf(chain2) == IF chain2 = <<>> THEN END ELSE chain2[1]
NextOf(chain2, k) == IF k = Len(chain2) THEN END ELSE chain2[k + 1]

Allocation(at, owners) ==
  [n \in 1 .. PerDepot * Len(at[1]) |->
     IF n - 1 \notin DOMAIN owners THEN FREE
     ELSE LET p == owners[n - 1]
          IN  CASE p[1] = 1 -> FAT
                [] p[1] = 2 -> -4
                [] OTHER    -> NextOf(at[p[1]], p[2])]

(* The small blocks in their order, and their table.                       *)
SmallAt(smalls, kind) == [k \in DOMAIN smalls |-> Place(kind, k, Len(smalls))]
SmallWith(smalls, kind, a) == CHOOSE k \in DOMAIN smalls : Place(kind, k, Len(smalls)) = a - 1
SmallTable(smalls, kind) ==
  [a \in DOMAIN smalls |->
     LET k == SmallWith(smalls, kind, a)
     IN  IF smalls[k].last THEN END ELSE Place(kind, k + 1, Len(smalls))]
SmallFile(smalls, kind) ==
  FlattenSeq([a \in DOMAIN smalls |-> smalls[SmallWith(smalls, kind, a)].atoms])

Unused == [name |-> "", type |-> 0, previous |-> FREE, next |-> FREE, dir |-> FREE,
           start |-> 0, size |-> 0]
Start(items, n, smalls, bigs, at, kind) ==
  IF IsLarge(items[n]) THEN FirstOf(at[5 + CHOOSE k \in DOMAIN bigs : bigs[k] = n])
  ELSE IF IsSmall(items[n])
  THEN Place(kind, CHOOSE k \in DOMAIN smalls : smalls[k].of = n /\ smalls[k].first, Len(smalls))
  ELSE END

ChainOf(items, n, smalls, bigs, at, kind) ==
  IF IsLarge(items[n]) THEN at[5 + CHOOSE k \in DOMAIN bigs : bigs[k] = n]
  ELSE LET ks == SelectSeq([k \in DOMAIN smalls |-> k], LAMBDA k : smalls[k].of = n)
       IN  [j \in DOMAIN ks |-> Place(kind, ks[j], Len(smalls))]

(* The image of a directory: items[n] is entry n, those above inRoot are   *)
(* in the storage with number owner; t and u are the trees.                *)
Directory(items, owner, t, u, smalls, bigs, at, kind) ==
  Pad(<<[Unused EXCEPT !.name = "R", !.type = 5, !.dir = t.top, !.start = FirstOf(at[5]),
                       !.size = Len(smalls) * SmallBlock]>>
      \o [n \in DOMAIN items |->
            LET link == (t.link @@ u.link)[n]
            IN  [name |-> items[n].name, type |-> items[n].type,
                 previous |-> link.previous, next |-> link.next,
                 dir |-> IF n = owner THEN u.top ELSE FREE,
                 start |-> Start(items, n, smalls, bigs, at, kind),
                 size |-> Len(items[n].content)]],
      Len(at[3]) * PerBlock, Unused)

ListPart(depotAt, k) ==
  SubSeq(depotAt, HeaderList + (k - 1) * (PerDepot - 1) + 1,
         Least(HeaderList + k * (PerDepot - 1), Len(depotAt)))
Listing(depotAt, k) == Pad(ListPart(depotAt, k), PerDepot - 1, FREE)

Block(p, at, table, directory, smalls, contents, kind) ==
  LET piece(seq, n) == SubSeq(seq, (p[2] - 1) * n + 1, Least(p[2] * n, Len(seq))) IN
  CASE p[1] = 1 -> piece(table, PerDepot)
    [] p[1] = 2 -> Append(Listing(at[1], p[2]), NextOf(at[2], p[2]))
    [] p[1] = 3 -> piece(directory, PerBlock)
    [] p[1] = 4 -> Pad(piece(SmallTable(smalls, kind), PerDepot), PerDepot, FREE)
    [] p[1] = 5 -> Pad(piece(SmallFile(smalls, kind), BigBlock), BigBlock, PAD)
    [] OTHER    -> Pad(piece(contents[p[1] - 5], BigBlock), BigBlock, PAD)

(* The order of the entries below entry n, and its rank in it and size.     *)
RECURSIVE Preorder(_, _)
Preorder(directory, n) ==
  IF n = FREE THEN <<>>
  ELSE LET e == At(directory, n)
       IN  <<n>> \o Preorder(directory, e.dir) \o Preorder(directory, e.next)
                \o Preorder(directory, e.previous)
OrderOf(directory) ==
  With(Preorder(directory, 0), LAMBDA order :
    [n \in Range(order) |-> [rank |-> CHOOSE k \in DOMAIN order : order[k] = n,
                             size |-> Len(Preorder(directory, n))]])

Looked(items, inRoot) ==
  LET named(x) == {n \in 1 .. inRoot : items[n].name = x}
  IN  IF named("Workbook") # {} THEN named("Workbook") ELSE named("Book")

Laid(items, inRoot, owner, t, u, kind, smalls, bigs, at, owners, table, directory) ==
  With({n \in Looked(items, inRoot) : items[n].type = 2}, LAMBDA wanted :
  With(IF wanted = {} THEN <<>> ELSE items[CHOOSE n \in wanted : TRUE].content, LAMBDA content :
  [ole     |-> TRUE,
   header  |-> [num_bbd_blocks |-> Len(at[1]),
                bbd |-> SubSeq(at[1], 1, Least(HeaderList, Len(at[1]))),
                xbbd |-> FirstOf(at[2]), num_xbbd_blocks |-> Len(at[2]),
                sbd |-> FirstOf(at[4]), root |-> FirstOf(at[3])],
   blocks  |-> [n \in 1 .. Cardinality(DOMAIN owners) |->
                  Block(owners[n - 1], at, table, directory, smalls,
                        [k \in DOMAIN bigs |-> items[bigs[k]].content], kind)],
   table   |-> table,
   listAt  |-> at[2],
   lists   |-> [k \in DOMAIN at[2] |-> ListPart(at[1], k)],
   chains  |-> [sbd |-> Append(at[4], END), root |-> Append(at[3], END), small |-> at[5],
                stream |-> IF wanted = {} THEN <<>>
                           ELSE ChainOf(items, CHOOSE n \in wanted : TRUE, smalls, bigs, at, kind)],
   small   |-> SmallFile(smalls, kind),
   directory |-> directory,
   order   |-> OrderOf(directory),
   children |-> (0 :> 1 .. inRoot)
                @@ (IF owner = 0 THEN <<>> ELSE owner :> inRoot + 1 .. Len(items)),
   whole   |-> TRUE, present |-> DOMAIN content,
   stream  |-> IF wanted = {} THEN "none" ELSE items[CHOOSE n \in wanted : TRUE].name,
   content |-> content]))

Image(items, inRoot, owner, t, u, kind) ==
  With(Smalls(items), LAMBDA smalls :
  With(Bigs(items), LAMBDA bigs :
  With(Numbers(Counts(items, smalls, bigs), kind), LAMBDA at :
  With(Owners(at), LAMBDA owners :
  With(Allocation(at, owners), LAMBDA table :
  With(Directory(items, owner, t, u, smalls, bigs, at, kind), LAMBDA directory :
    Laid(items, inRoot, owner, t, u, kind, smalls, bigs, at, owners, table, directory)))))))

-----------------------------------------------------------------------------
Kinds == {"forward", "backward", "rotated"}

Flat(items, t, kind) == Image(items, Len(items), 0, t, [top |-> FREE, link |-> <<>>], kind)
Deep(items, inRoot, owner, t, u, kind) == Image(items, inRoot, owner, t, u, kind)
AnyTree(S) == CHOOSE t \in Trees[S] : \A n \in S : t.link[n].previous = FREE

(* Shapes: all trees of three entries in the root, two in a storage.       *)
Three == {<<Summary, BookOf("Book", 3), BookOf("Workbook", 5)>>,
          <<Summary, BookOf("Book", 7), Item("Other", 2, <<>>)>>,
          <<Summary, Storage("Book"), BookOf("Workbook", 6)>>,
          <<Summary, Storage("Object"), Item("Other", 2, <<>>)>>}
ShapeImages ==
  {Flat(items, t, "forward") : items \in Three, t \in Trees[1 .. 3]}
  \cup {Deep(<<Storage("Object"), BookOf("Book", 4), Summary, BookOf("Workbook", 4), Summary>>,
             3, 1, t, u, "forward") : t \in Trees[1 .. 3], u \in Trees[4 .. 5]}
  \cup {Deep(<<BookOf("Book", 4), Storage("Workbook"), BookOf("Book", 7)>>, 2, 2, t, u, "forward") :
          t \in Trees[1 .. 2], u \in Trees[{3}]}

(* Sizes: around the block sizes and the cutoff, and so large that the     *)
(* depot has one or two blocks that list its blocks.                       *)
Sizes == {0, 1, 2, 3, 4, 5, 6, 7, 8, 9, 16, 25, 41}
SizeImages ==
  {Flat(<<Summary, BookOf("Workbook", n)>>, AnyTree(1 .. 2), kind) : n \in Sizes, kind \in Kinds}
  \cup {Flat(<<BookOf("Book", n)>>, AnyTree({1}), kind) : n \in Sizes, kind \in Kinds}
  \cup {Flat(<<>>, AnyTree({}), kind) : kind \in Kinds}

(* A file whose last block is only as long as its stream needs, and the    *)
(* same cut off in the stream's blocks, down to the first.                 *)
LargeSize == 11
Large == Flat(<<Summary, BookOf("Workbook", LargeSize)>>, AnyTree(1 .. 2), "forward")
First == Len(Large.blocks) - Ceil(LargeSize, BigBlock) + 1
CutImage(n) ==
  LET full == n \div BigBlock
      part == SubSeq(Content(100, LargeSize), full * BigBlock + 1, n)
      kept == SubSeq(Large.blocks, 1, First - 1 + full)
  IN  [Large EXCEPT !.blocks = IF part = <<>> THEN kept ELSE Append(kept, part),
                    !.whole = (n = LargeSize), !.present = 1 .. n]
CutImages == {CutImage(n) : n \in 0 .. LargeSize}

(* Files that are read as they are: no OLE2 file, a free block in a chain, *)
(* a link to an entry without a name.                                      *)
Broken(image2) == [image2 EXCEPT !.whole = FALSE, !.children = <<>>]
Entry(n) == <<Large.header.root + 1 + (n \div PerBlock), (n % PerBlock) + 1>>
Linked(link, value, n) ==
  Broken([Large EXCEPT !.blocks[Entry(n)[1]][Entry(n)[2]][link] = value,
                       !.directory[n + 1][link] = value])
Chained(name, value) ==
  With(Large.header[name], LAMBDA block :
  Broken([Large EXCEPT
            !.blocks[At(Large.header.bbd, block \div PerDepot) + 1][(block % PerDepot) + 1] = value,
            !.table[block + 1] = value,
            !.chains[name] = <<block, value>>]))
OddImages ==
  {Broken([Large EXCEPT !.ole = FALSE])}
  \cup {Linked(link, value, n) : link \in {"previous", "next", "dir"}, value \in {3, 5}, n \in 1 .. 2}
  \cup {Chained(name, value) : name \in {"root", "sbd"}, value \in {FREE, FAT}}

MCImages == ShapeImages \cup SizeImages \cup CutImages \cup OddImages
MCFills  == {0}
=============================================================================
