------------------------------ MODULE OleFile -------------------------------
(***************************************************************************)
(* The OLE2 file system: __OLEdecode() of oledecod.c as cole_mount() uses  *)
(* it, the search for a name and the opening of a stream of cole.c and     *)
(* internal.c, and cexcel/file.c, which mounts a workbook and looks for    *)
(* its stream.                                                             *)
(*                                                                         *)
(* An image is a header and a sequence of big blocks, the first of which   *)
(* has number 0.  A block is a sequence: of block numbers in the depots    *)
(* and in their lists, of entries in the directory, of atoms (parts of a   *)
(* small block) in streams.                                                *)
(*                                                                         *)
(* Left out are the calls that fail for want of memory, a temporary file   *)
(* or a readable device, each of which gives up the mount or the stream    *)
(* (test_exitf() of oledecod.c, the returns 1 to 6 of internal.c), and the *)
(* assertion that the depot's blocks are not more than their lists can     *)
(* name, which ends the process.                                           *)
(***************************************************************************)
EXTENDS Integers, Sequences, SequencesExt

CONSTANTS
  Images,      \* [ole, header, blocks, ...], and how they were written
  Fills,       \* atoms that may be found in memory nobody has written to
  BigBlock,    \* atoms of a big block; 0x200 bytes
  SmallBlock,  \* atoms of a small block; 0x40 bytes
  Cutoff,      \* streams from this size on are in big blocks; 0x1000 bytes
  HeaderList   \* places for depot blocks in the header; 109

ASSUME BlocksAssumption ==
  /\ BigBlock \in Nat \ {0} /\ SmallBlock \in 1 .. BigBlock
  /\ Cutoff \in Nat /\ HeaderList \in Nat

FREE == -1   \* 0xffffffff, also "no entry" in the links of the directory
END  == -2   \* 0xfffffffe
FAT  == -3   \* 0xfffffffd

Least(a, b)     == IF a < b THEN a ELSE b
At(seq, n)      == seq[n + 1]
BlockIn(i, n)   == IF n < Len(i.blocks) THEN At(i.blocks, n) ELSE <<>>
BlocksIn(i, ns) == FlattenSeq([k \in DOMAIN ns |-> BlockIn(i, ns[k])])
SmallIn(file, n) ==
  SubSeq(file, n * SmallBlock + 1, Least((n + 1) * SmallBlock, Len(file)))
InHeader(i)     == SubSeq(i.header.bbd, 1, Least(i.header.num_bbd_blocks, HeaderList))

-----------------------------------------------------------------------------
(* How an image was written.  Its table is that of the depot's blocks: the *)
(* ones in the header and those of lists, each of which is in a block of   *)
(* its own, filled up and with the number of the next list at its end.     *)
DepotWritten(i) ==
  /\ Len(i.blocks) \in Nat /\ i.blocks = [n \in 1 .. Len(i.blocks) |-> i.blocks[n]]
  /\ \A n \in DOMAIN i.blocks : i.blocks[n] \in Seq(Range(i.blocks[n]))
  /\ i.header.bbd \in Seq(Nat) /\ i.header.num_bbd_blocks \in Nat
  /\ Least(i.header.num_bbd_blocks, HeaderList) <= Len(i.header.bbd)
  /\ i.lists \in Seq(Seq(Nat)) /\ i.listAt \in Seq(Nat)
  /\ Len(i.lists) = i.header.num_xbbd_blocks /\ Len(i.listAt) = Len(i.lists)
  /\ i.lists # <<>> => i.header.xbbd = i.listAt[1]
  /\ \A k \in DOMAIN i.lists :
       LET block == BlockIn(i, i.listAt[k]) IN
       /\ Len(block) > Len(i.lists[k])
       /\ \A m \in 1 .. Len(block) - 1 :
            block[m] = IF m <= Len(i.lists[k]) THEN i.lists[k][m] ELSE FREE
       /\ k < Len(i.lists) => Last(block) = i.listAt[k + 1]
  /\ i.table = BlocksIn(i, InHeader(i)) \o BlocksIn(i, FlattenSeq(i.lists))

(* The chain that begins with a number: it ends, if not as it should, with *)
(* the mark of a block that is in no chain.                                *)
ChainWritten(i, first, ns) ==
  /\ ns \in Seq(Int) /\ ns # <<>> /\ ns[1] = first
  /\ \A k \in 1 .. Len(ns) - 1 :
       ns[k] \in 0 .. Len(i.table) - 1 /\ ns[k + 1] = At(i.table, ns[k])
  /\ Last(ns) \in {END, FREE, FAT} /\ (Len(ns) = 1 => Last(ns) = END)

(* The directory: its entries have links.                                  *)
IsEntry(e) ==
  /\ {"dir", "next", "previous"} \subseteq DOMAIN e
  /\ {e.dir, e.next, e.previous} \subseteq Nat \cup {FREE}
EntriesWritten(i) ==
  /\ ChainWritten(i, i.header.sbd, i.chains.sbd)
  /\ ChainWritten(i, i.header.root, i.chains.root)
  /\ Last(i.chains.root) = END => BlocksIn(i, Front(i.chains.root)) = i.directory
  /\ i.directory \in Seq(Range(i.directory)) /\ i.directory # <<>>
  /\ \A e \in Range(i.directory) : IsEntry(e)

(* In a sound one, the children of an entry are a binary tree by their     *)
(* next and previous links: the entries have an order in which each comes  *)
(* before those below it, first below its dir, then next, then previous.   *)
Entries(i)   == {0} \cup UNION {i.children[d] : d \in DOMAIN i.children}
Below(i, n)  == IF n = FREE THEN 0 ELSE i.order[n].size
SoundTrees(i) ==
  /\ Entries(i) \subseteq 0 .. Len(i.directory) - 1 /\ DOMAIN i.children \subseteq Entries(i)
  /\ \A c, d \in DOMAIN i.children : c # d => i.children[c] \cap i.children[d] = {}
  /\ \A d \in DOMAIN i.children :
       /\ 0 \notin i.children[d]
       /\ At(i.directory, d).dir = FREE => i.children[d] = {}
       /\ \A n \in i.children[d] :
            {At(i.directory, n).next, At(i.directory, n).previous} \subseteq i.children[d] \cup {FREE}
  /\ At(i.directory, 0).next = FREE /\ At(i.directory, 0).previous = FREE
  /\ i.order[0].rank = 1
  /\ \A n, m \in Entries(i) : i.order[n].rank = i.order[m].rank => n = m
  /\ \A n \in Entries(i) :
       LET e    == At(i.directory, n)
           rank == i.order[n].rank
       IN  /\ rank \in 1 .. i.order[0].size /\ i.order[n].size \in Nat
           /\ i.order[n].size = 1 + Below(i, e.dir) + Below(i, e.next) + Below(i, e.previous)
           /\ e.dir # FREE =>
                n \in DOMAIN i.children /\ e.dir \in i.children[n] /\ i.order[e.dir].rank = rank + 1
           /\ e.next # FREE => i.order[e.next].rank = rank + 1 + Below(i, e.dir)
           /\ e.previous # FREE =>
                i.order[e.previous].rank = rank + 1 + Below(i, e.dir) + Below(i, e.next)

(* Atoms in the blocks of a chain of a table, size to a block and not more *)
(* blocks than they need, as far as they are there.                        *)
StreamWritten(first, ns, blocks, table, size, atoms, there) ==
  /\ ns \in Seq(Nat) /\ atoms \in Seq(Range(atoms)) /\ there \subseteq DOMAIN atoms
  /\ first = IF ns = <<>> THEN END ELSE ns[1]
  /\ \A k \in 1 .. Len(ns) - 1 : ns[k + 1] = At(table, ns[k])
  /\ (Len(ns) - 1) * size < Len(atoms) /\ Len(atoms) <= Len(ns) * size
  /\ \A k \in 1 .. Len(ns) :
       /\ blocks[k] \in Seq(Range(blocks[k]))
       /\ \A a \in 1 .. size : (k - 1) * size + a \in there =>
            a <= Len(blocks[k]) /\ blocks[k][a] = atoms[(k - 1) * size + a]

(* Where a directory is sound, so are the chains, the file of small blocks *)
(* and the stream that is looked for, be it in big blocks or small ones;   *)
(* but its blocks may be cut off.                                          *)
SmallDepot(i) == BlocksIn(i, Front(i.chains.sbd))
InBig(i, first, ns, atoms, there) ==
  StreamWritten(first, ns, [k \in DOMAIN ns |-> BlockIn(i, ns[k])], i.table, BigBlock, atoms, there)
InSmall(i, first, ns, atoms, there) ==
  StreamWritten(first, ns, [k \in DOMAIN ns |-> SmallIn(i.small, ns[k])], SmallDepot(i),
                SmallBlock, atoms, there)
Wanted(i) ==
  LET named(x) == {n \in i.children[0] : At(i.directory, n).name = x}
  IN  IF named("Workbook") # {} THEN named("Workbook") ELSE named("Book")
WorkbookWritten(i) ==
  /\ Last(i.chains.sbd) = END /\ Last(i.chains.root) = END /\ 0 \in DOMAIN i.children
  /\ \A n \in Entries(i) : At(i.directory, n).name # ""
  /\ \A n, m \in i.children[0] : At(i.directory, n).name = At(i.directory, m).name => n = m
  /\ IF SmallDepot(i) = <<>> THEN i.small = <<>>
     ELSE InBig(i, At(i.directory, 0).start, i.chains.small, i.small, DOMAIN i.small)
  /\ At(i.directory, 0).size = Len(i.small)
  /\ \A n \in Wanted(i) :
       LET e == At(i.directory, n) IN
       IF e.type # 2 THEN i.stream = "none"
       ELSE /\ i.stream = e.name /\ e.size = Len(i.content)
            /\ IF e.size >= Cutoff THEN InBig(i, e.start, i.chains.stream, i.content, i.present)
               ELSE InSmall(i, e.start, i.chains.stream, i.content, i.present)
  /\ Wanted(i) = {} => i.stream = "none"

(* What mounting reads is in the file: the blocks of both depots, of their *)
(* lists and of the directory.  (Of one that is missing oledecod.c leaves  *)
(* a hole of 512 unwritten bytes in the table; of a stream's blocks and of *)
(* the small blocks any may be missing.)                                   *)
MountBlocks(i) ==
  Range(InHeader(i)) \cup Range(i.listAt) \cup Range(FlattenSeq(i.lists))
  \cup Range(Front(i.chains.sbd)) \cup Range(Front(i.chains.root))

ASSUME ImagesAssumption ==
  \A i \in Images : i.ole =>
    /\ DepotWritten(i) /\ EntriesWritten(i)
    /\ MountBlocks(i) \subseteq 0 .. Len(i.blocks) - 1
    /\ DOMAIN i.children # {} => SoundTrees(i) /\ WorkbookWritten(i)
    /\ i.whole => DOMAIN i.children # {} /\ i.present = DOMAIN i.content

-----------------------------------------------------------------------------
VARIABLES
  image,
  fill,
  stage,
  ret,         \* what cexcel_file_parse() has to say of the stream
  BDepot, SDepot,
  chain,       \* sbd_list, then root_list
  xbbd,        \* [next, left]: the blocks listing further depot blocks
  tree,        \* pps_list: the directory, entry n at n + 1
  calls,       \* reorder_pps_tree(): <<[node, part]>> of the calls under way
  last,        \* entry whose next link is last_next_link_visited
  sbfile,      \* the small blocks
  copy,        \* the chain that is copied: [next, left, buffer, out]
  entry,       \* visited entry of the root directory
  filename     \* name that is looked for

mountVars == <<BDepot, SDepot, chain, xbbd, tree, calls, last, sbfile>>
oleVars == <<image, fill, stage, ret, mountVars, copy, entry, filename>>

NoCopy == [next |-> END, left |-> 0, buffer |-> <<>>, out |-> <<>>]

OleInit ==
  /\ image \in Images /\ fill \in Fills
  /\ stage = "header" /\ ret = "NONE"
  /\ BDepot = <<>> /\ SDepot = <<>> /\ chain = <<>>
  /\ xbbd = [next |-> END, left |-> 0]
  /\ tree = <<>> /\ calls = <<>> /\ last = FREE
  /\ sbfile = <<>> /\ copy = NoCopy
  /\ entry = FREE /\ filename = "none"

-----------------------------------------------------------------------------
BlockAt(n)    == BlockIn(image, n)
BlocksAt(ns)  == BlocksIn(image, ns)
Header        == image.header

(* A file that cannot be mounted is read as it is.                         *)
Mount(next)   == stage' = next
MountFails    == stage' = "plain"

(* Only the first byte is looked at: the test of the signature that        *)
(* follows compares the bytes in the wrong order and always succeeds.      *)
OpenImage ==
  /\ stage = "header"
  /\ IF image.ole THEN Mount("bbd") ELSE MountFails
  /\ UNCHANGED <<image, fill, ret, mountVars, copy, entry, filename>>

(* The big block depot: blocks listed in the header, then blocks listed in *)
(* blocks of their own, each of which ends with the number of the next.    *)
ReadDepot ==
  /\ stage = "bbd"
  /\ BDepot' = BlocksAt(InHeader(image))
  /\ xbbd' = [next |-> Header.xbbd, left |-> Header.num_xbbd_blocks]
  /\ stage' = "xbbd"
  /\ UNCHANGED <<image, fill, ret, SDepot, chain, tree, calls, last, sbfile, copy, entry, filename>>

Listed(block) == SelectInSeq(block, LAMBDA b : b \in {FREE, END, FAT})
DepotBlocks(block) ==
  LET n == Listed(Front(block)) IN
  IF n = 0 THEN Front(block) ELSE SubSeq(block, 1, n - 1)

\* Mutant: the link to the next list is not followed.
SameDepotList == xbbd.next
NextDepotList == Last(BlockAt(xbbd.next))

ReadDepotList ==
  /\ stage = "xbbd" /\ xbbd.left > 0
  /\ BDepot' = BDepot \o BlocksAt(DepotBlocks(BlockAt(xbbd.next)))
  /\ xbbd' = [next |-> NextDepotList, left |-> xbbd.left - 1]
  /\ UNCHANGED <<image, fill, stage, ret, SDepot, chain, tree, calls, last, sbfile, copy, entry, filename>>

DepotRead ==
  /\ stage = "xbbd" /\ xbbd.left = 0
  /\ chain' = <<Header.sbd>> /\ stage' = "sbd"
  /\ UNCHANGED <<image, fill, ret, BDepot, SDepot, xbbd, tree, calls, last, sbfile, copy, entry, filename>>

(* The chains of the small block depot and of the root directory.          *)
NextInChain == At(BDepot, Last(chain))

FollowChain ==
  /\ stage \in {"sbd", "root"} /\ Last(chain) # END
  /\ IF NextInChain \in {FREE, FAT} THEN MountFails ELSE Mount(stage)
  /\ chain' = Append(chain, NextInChain)
  /\ UNCHANGED <<image, fill, ret, BDepot, SDepot, xbbd, tree, calls, last, sbfile, copy, entry, filename>>

ReadSmallDepot ==
  /\ stage = "sbd" /\ Last(chain) = END
  /\ SDepot' = BlocksAt(Front(chain))
  /\ chain' = <<Header.root>> /\ stage' = "root"
  /\ UNCHANGED <<image, fill, ret, BDepot, xbbd, tree, calls, last, sbfile, copy, entry, filename>>

ReadDirectory ==
  /\ stage = "root" /\ Last(chain) = END
  /\ tree' = BlocksAt(Front(chain))
  /\ calls' = <<[node |-> 0, part |-> "dir"]>>
  /\ stage' = "reorder"
  /\ UNCHANGED <<image, fill, ret, BDepot, SDepot, chain, xbbd, last, sbfile, copy, entry, filename>>

-----------------------------------------------------------------------------
(* reorder_pps_tree(): the binary tree of a directory's entries becomes a  *)
(* list by its next links.  A call goes down, goes on, and at last hangs   *)
(* the previous entries behind the last one that was visited.              *)
Frame      == Last(calls)
Node      == At(tree, Frame.node)
CallOf(n) == [node |-> n, part |-> "dir"]
Going(p)  == Append(Front(calls), [Frame EXCEPT !.part = p])
Reordering(p) == stage = "reorder" /\ calls # <<>> /\ Frame.part = p

(* A link may lead to the entry behind the last one; what is there is not  *)
(* modelled.                                                               *)
Nameless(n) == n >= Len(tree) \/ At(tree, n).name = ""

ReorderDir ==
  /\ Reordering("dir")
  /\ IF Node.dir = FREE THEN calls' = Going("next") /\ Mount(stage)
     ELSE IF Nameless(Node.dir) THEN calls' = calls /\ MountFails
     ELSE calls' = Append(Going("next"), CallOf(Node.dir)) /\ Mount(stage)
  /\ UNCHANGED <<image, fill, ret, BDepot, SDepot, chain, xbbd, tree, last, sbfile, copy, entry, filename>>

ReorderNext ==
  /\ Reordering("next")
  /\ IF Node.next = FREE THEN calls' = Going("previous") /\ last' = Frame.node /\ Mount(stage)
     ELSE IF Nameless(Node.next) THEN UNCHANGED <<calls, last>> /\ MountFails
     ELSE calls' = Append(Going("previous"), CallOf(Node.next)) /\ last' = last /\ Mount(stage)
  /\ UNCHANGED <<image, fill, ret, BDepot, SDepot, chain, xbbd, tree, sbfile, copy, entry, filename>>

\* Mutant: the previous entries are hung behind the node itself.
BehindNode == Frame.node
Behind     == last

ReorderPrevious ==
  /\ Reordering("previous")
  /\ IF Node.previous = FREE THEN calls' = Front(calls) /\ tree' = tree /\ Mount(stage)
     ELSE IF Nameless(Node.previous) THEN UNCHANGED <<calls, tree>> /\ MountFails
     ELSE /\ tree' = [tree EXCEPT ![Behind + 1].next = Node.previous,
                                  ![Frame.node + 1].previous = FREE]
          /\ calls' = Append(Front(calls), CallOf(Node.previous)) /\ Mount(stage)
  /\ UNCHANGED <<image, fill, ret, BDepot, SDepot, chain, xbbd, last, sbfile, copy, entry, filename>>

-----------------------------------------------------------------------------
(* Blocks are copied until the chain or the size ends.  A block that is    *)
(* not, or not wholly, in the file leaves the buffer's rest as it was.     *)
Overwrite(old, new) == new \o SubSeq(old, Len(new) + 1, Len(old))
Copying(first, size) ==
  [next |-> first, left |-> size, buffer |-> [k \in 1 .. BigBlock |-> fill], out |-> <<>>]

\* Mutant: only what could be read is written.
CopiedRead(from, size, depot) ==
  LET n      == Least(size, copy.left)
      buffer == SubSeq(from, 1, Least(n, Len(from)))
  IN  [next |-> IF copy.left = n THEN END ELSE At(depot, copy.next),
       left |-> copy.left - n, buffer |-> copy.buffer, out |-> copy.out \o buffer]
Copied(from, size, depot) ==
  LET n      == Least(size, copy.left)
      buffer == Overwrite(copy.buffer, SubSeq(from, 1, Least(n, Len(from))))
  IN  [next |-> IF copy.left = n THEN END ELSE At(depot, copy.next),
       left |-> copy.left - n, buffer |-> buffer,
       out |-> copy.out \o SubSeq(buffer, 1, n)]

Root == At(tree, 0)

BeginSmallFile ==
  /\ stage = "reorder" /\ calls = <<>>
  /\ copy' = IF SDepot = <<>> THEN NoCopy ELSE Copying(Root.start, Root.size)
  /\ stage' = "sbfile"
  /\ UNCHANGED <<image, fill, ret, mountVars, entry, filename>>

CopySmallFile ==
  /\ stage = "sbfile" /\ copy.next # END
  /\ copy' = Copied(BlockAt(copy.next), BigBlock, BDepot)
  /\ UNCHANGED <<image, fill, stage, ret, mountVars, entry, filename>>

Mounted ==
  /\ stage = "sbfile" /\ copy.next = END
  /\ sbfile' = copy.out /\ copy' = NoCopy
  /\ filename' = "Workbook" /\ entry' = Root.dir /\ stage' = "locate"
  /\ UNCHANGED <<image, fill, ret, BDepot, SDepot, chain, xbbd, tree, calls, last>>

-----------------------------------------------------------------------------
(* cole_locate_filename() with a name of one part: the entries of the root *)
(* in the order of their list; a substorage is opened but not gone into.   *)
Visited == At(tree, entry)

OtherEntry ==
  /\ stage = "locate" /\ entry # FREE /\ Visited.name # filename
  /\ entry' = Visited.next
  /\ UNCHANGED <<image, fill, stage, ret, mountVars, copy, filename>>

TryBook ==
  /\ stage = "locate" /\ entry = FREE /\ filename = "Workbook"
  /\ filename' = "Book" /\ entry' = Root.dir
  /\ UNCHANGED <<image, fill, stage, ret, mountVars, copy>>

NoBook ==
  /\ stage = "locate" /\ entry = FREE /\ filename = "Book"
  /\ ret' = "BADFILE" /\ stage' = "done"
  /\ UNCHANGED <<image, fill, mountVars, copy, entry, filename>>

(* cole_fopen_direntry(): a storage of that name ends the search, too.     *)
IsStorage ==
  /\ stage = "locate" /\ entry # FREE /\ Visited.name = filename /\ Visited.type # 2
  /\ ret' = "BADFILE" /\ stage' = "done"
  /\ UNCHANGED <<image, fill, mountVars, copy, entry, filename>>

OpenStream ==
  /\ stage = "locate" /\ entry # FREE /\ Visited.name = filename /\ Visited.type = 2
  /\ copy' = Copying(Visited.start, Visited.size)
  /\ stage' = "extract"
  /\ UNCHANGED <<image, fill, ret, mountVars, entry, filename>>

(* __cole_extract_file(): the size tells where a stream is.                *)
IsBig(size) == size >= Cutoff

\* Mutant: the header's place is left free in the small blocks, too.
SmallBlockBehind(n) ==
  SubSeq(sbfile, (n + 1) * SmallBlock + 1, Least((n + 2) * SmallBlock, Len(sbfile)))
SmallBlockAt(n) == SmallIn(sbfile, n)

CopyBlock ==
  /\ stage = "extract" /\ copy.next # END
  /\ copy' = IF IsBig(Visited.size) THEN Copied(BlockAt(copy.next), BigBlock, BDepot)
             ELSE Copied(SmallBlockAt(copy.next), SmallBlock, SDepot)
  /\ UNCHANGED <<image, fill, stage, ret, mountVars, entry, filename>>

StreamOpen ==
  /\ stage = "extract" /\ copy.next = END
  /\ ret' = "OPEN" /\ stage' = "done"
  /\ UNCHANGED <<image, fill, mountVars, copy, entry, filename>>

ReadPlain ==
  /\ stage = "plain"
  /\ ret' = "PLAIN" /\ stage' = "done"
  /\ UNCHANGED <<image, fill, mountVars, copy, entry, filename>>

Closed == stage = "done" /\ UNCHANGED oleVars

OleNext ==
  \/ OpenImage \/ ReadDepot \/ ReadDepotList \/ DepotRead
  \/ FollowChain \/ ReadSmallDepot \/ ReadDirectory
  \/ ReorderDir \/ ReorderNext \/ ReorderPrevious
  \/ BeginSmallFile \/ CopySmallFile \/ Mounted
  \/ OtherEntry \/ TryBook \/ NoBook \/ IsStorage \/ OpenStream
  \/ CopyBlock \/ StreamOpen \/ ReadPlain
  \/ Closed

OleSpec == OleInit /\ [][OleNext]_oleVars

-----------------------------------------------------------------------------
(* The depot that is put together is the allocation table of the file,     *)
(* whether its blocks are listed in the header only or in further blocks,  *)
(* and a chain that is followed in it never leads out of it.               *)
DepotIsTable ==
  /\ image.ole /\ stage \notin {"header", "bbd", "xbbd", "plain"} =>
       SubSeq(BDepot, 1, Len(image.table)) = image.table
  /\ stage \in {"sbd", "root"} => Last(chain) \in {END} \cup 0 .. Len(BDepot) - 1

(* No link leads out of the directory while it is put in order; after it,  *)
(* going along the next links visits each of its entries once, no other.   *)
Along(first) ==
  LET step[k \in 1 .. Len(tree)] ==
        IF k = 1 THEN first
        ELSE IF step[k - 1] = FREE THEN FREE ELSE At(tree, step[k - 1]).next
  IN  step
EachEntryOnce ==
  /\ \A k \in DOMAIN calls : calls[k].node \in 0 .. Len(tree) - 1
  /\ stage \in {"sbfile", "locate", "extract"} \/ ret \in {"OPEN", "BADFILE"} =>
       \A d \in DOMAIN image.children :
         LET walk == Along(At(tree, d).dir) IN
         /\ {walk[k] : k \in DOMAIN walk} \ {FREE} = image.children[d]
         /\ \A j, k \in DOMAIN walk : walk[j] = walk[k] /\ walk[j] # FREE => j = k

(* The stream that is opened is the one called Workbook in the root, else  *)
(* the one called Book; it has the size and the atoms it was written with, *)
(* on either side of the cutoff; and there is no other outcome for a file  *)
(* that has one of them.                                                   *)
WorkbookRead ==
  stage = "done" /\ image.ole /\ image.whole =>
    \/ image.stream = "none" /\ ret = "BADFILE"
    \/ ret = "OPEN" /\ filename = image.stream /\ copy.out = image.content

(* Of a file that is cut off in the stream's blocks, what is there is in   *)
(* its place.                                                              *)
RestInPlace ==
  ret = "OPEN" /\ DOMAIN image.children # {} =>
    /\ Len(copy.out) = Len(image.content)
    /\ \A k \in image.present : copy.out[k] = image.content[k]
=============================================================================
