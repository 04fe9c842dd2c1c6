# Specifications of excel2xoonips

`excel2xoonips [-c|--compat34] [-i|--index] Excel.xls XooNIpsImport.zip` reads an
Excel workbook and writes an import file for XooNIps. Every worksheet is named
after an item type, which selects an INI file (what the columns mean) and an XML
template. Every row below the labels becomes an item: a file `<item_id>.zip` with
its XML and its attached files for XooNIps 4, or `<item_id>.xml` beside
`files/<sheet>_<address>` with `-c`. With `-i`, the rows of an index list become
one `index.xml`.

The program is one single-threaded process. What is hard about it is not
concurrency but *long sequences of steps that must keep their bookkeeping
right*: counters that run across sheets and rows, error codes that one step sets
and another overwrites, files of one phase that another phase packs, records
whose meaning depends on those before them, and loops that change what they
range over. The environment takes part by failing: any directory, file or
archive may fail to be made.

## 1. Components

| component | source | state | operations |
|---|---|---|---|
| Conversion control | `excel2xoonips/main.c` | `item_id`, `files_count` (global), `err`, loop counters | `main`, `proc_main`, `proc_sheet` |
| Row conversion | `template.c`, `tmpl_file.c` | `rep_hash`, `dataset_hash`, the text | `template_new`, `template_assign`, `template_merge_rowset`, `tmpl_file_get` |
| Cell types, INI files | `tmpl_*.c`, `inifile.c`, `strarray.c` | columns of a sheet | `tmpl_<type>_get`, `inifile_new` |
| Text replacement | `onig.c`, `utility.c` | none | `myonig_match`, `myonig_replace`, escapes |
| Temporary directory | `tempdir.c`, `directory.c`, `recursive.c` | a directory tree on disk | new, mkdir, fopen, copyfile, delete |
| Archive writer | `minizip.c` | an open archive | `minizip_create` |
| Internal errors | `error.c` | none | message, `exit(1)` |
| BIFF record loop | `cexcel/cexcel.c`, `biff_*.c`, `context.c`, `ctx_*.c`, `book.c` | context (BIFF types, current worksheet, offsets of sheets, shared strings), book | one handler per record |
| Worksheet grid | `cexcel/sheet.c`, `cell.c` | `rows`, `cols`, table of cells | set, get, trim |
| Record reader | `cexcel/record.c`, `stream.c` | current record and offset | read, goto_eof, data_*, CONTINUE |
| Character conversion | `cexcel/iconv.c` | output buffer | code page or UTF-16 to UTF-8 |
| Numbers | `biff_xf.c`, `biff_format.c`, `ctx_xf.c`, `ctx_format.c`, `format.c`, `cell.c` | XF and FORMAT tables | format of a cell, text of a number, address |
| OLE2 file system | `cole/*.c`, `cexcel/file.c` | block allocation tables, directory, open stream | mount, search, open, read, seek |
| Containers | `libsl4/{list,hash,array,string}.c` | linked lists, hash tables, arrays, texts | insert, remove, iterate, resize |
| OS wrappers | `libsl4/{file,env,user,time,mutex,error}.c` | file handles | thin wrappers |
| Vendored | `zlib`, `oniguruma`, `excel2xoonips/minizip`, `bsd_mktemp.c`, `win32_dirent.c` | | third party |

How they interact: `main` reads the whole book first (OLE2 stream -> record
reader -> record loop -> grid), each grid is trimmed, and the temporary directory
is made. For every sheet `proc_sheet` loads INI file and template; for every row
`template_assign` reads the cells through the grid, asks the cell type to accept
each text, binds the results in a hash table, expands the template by regular
expressions and writes the XML into the temporary directory; `tmpl_file_get`
copies attached files there. `proc_sheet` packs the row, `proc_main` packs
everything, the directory is removed. All calls are synchronous; the state they
share is the two counters, `err`, the directory tree and, inside the BIFF reader,
the context.

What makes each part correct:

* **Conversion control**: items are numbered serially over all sheets; file
  numbers are unique; an archive holds exactly its row's files; the import file
  holds exactly the items that were not reported; exit status and import file
  agree; the temporary directory goes; every run ends.
* **Row conversion**: the XML file is the template with the values in place,
  whatever order a hash table delivers them in; the replacement loop ends.
* **Cell types, INI files**: a column of the sheet is the line of the INI file
  that was written for it; a cell is accepted or refused as the manual says of its
  type; its text reaches the template escaped exactly once; dates become their
  time stamps; the columns of a dataset are in step.
* **Archive writer and directory walk**: every file of a directory is in the
  archive once, under its path and whole; nothing is removed before; then nothing
  is left. The walks end.
* **Record loop**: a cell reaches the sheet whose substream holds it, with the
  text its shared-string index meant; a loop that ends without an error has lost
  nothing; it always ends.
* **Record reader**: a string arrives as it was written, however it is cut into
  CONTINUE records; the loop starts each turn on the boundary of a record; a chart
  is skipped to behind its EOF; every file is read to an end.
* **Character conversion**: the text is converted whole, in buffers of any size.
* **OLE2 file**: the depot is the allocation table that was written; the list of
  a directory visits each entry once; the workbook's stream is the one that is
  found, with its contents; what a truncated file still has is in its place.
* **Numbers**: the text of a cell is the number, whichever way it is stored; a
  format of the file comes before a built-in one; addresses of cells are distinct.
* **Grid**: entries lie within `rows` x `cols`; the trim removes neither too
  little nor too much; reading, which may enlarge the sheet, loses and invents
  nothing and never meets a missing cell.
* **Hash table**: it is a map; an entry is in the chain it will be looked for in,
  once; a resize, half way through or given up, is not noticed.

## 2. Modules

| module | models | depends on |
|---|---|---|
| `ImportContract` | what a run promises to its user, without rows or archives | |
| `Conversion` | one run: `main`, `proc_main`, `proc_sheet` with the control of `template_assign`, `tmpl_file_get`, `tempdir_*`, and the results of `minizip_create` | instantiates `ImportContract` |
| `Packing` | what becomes of a directory that is packed and removed | |
| `Archiver` | `recursive.c`, `directory.c`, `minizip.c`: walks, loops over files and blocks, removal | instantiates `Packing` |
| `CellTypes` | `inifile.c`, the `tmpl_*_get` readers and the loop over the columns in `template_assign` | |
| `RowText` | the rest of `template_assign` as a text transformation, with `onig.c` | |
| `OleFile` | `cole/`: mounting, directory, search for the workbook, opening of a stream | |
| `RecordReader` | `stream.c`, `record.c`, `iconv.c`, reads and seeks of `cole.c` | |
| `BiffReader` | the record loop, its handlers and the context | |
| `NumberText` | XF and FORMAT records, the text of a number, the address of a cell | |
| `Sheet` | `sheet.c` as its callers use it: fill, trim, read | |
| `KeyMap` | what a hash table promises to its callers | |
| `HashTable` | `libsl4/hash.c`: chains, calls, the resize | instantiates `KeyMap` |
| `ConversionInv` | the inductive invariants of `Conversion` | `Conversion` |
| `ConversionProofs` | safety of a run; numbers and contents of archives; the refinement of `ImportContract` | `ConversionInv` |
| `Recursion` | lemmas: induction over the natural numbers, recursive functions, `FlattenSeq`, counting along a sequence | |
| `BiffReaderProofs`, `RecordReaderProofs` | theorems of one module each | `BiffReader`, `RecordReader`, `Recursion` |
| `FileAndTextProofs` | the two ends of a conversion: the OLE2 file, the text of an item | `OleFile`, `RowText`, `Recursion` |
| `CellProofs` | what becomes of cells, before and after the sheet | `NumberText`, `CellTypes`, `Recursion` |
| `StoreProofs` | the two data structures | `Sheet`, `HashTable` |
| `ArchiverProofs` | the archive writer and the walks | `Archiver` |
| `MCConversion`, `MCArchiver`, `MCCellTypes`, `MCRowText`, `MCOleFile`, `MCRecordReader`, `MCBiffReader`, `MCNumberText`, `MCHashTable` | small workbooks, directories, rows, images, files, streams and hash functions for TLC | |

The modules meet at values. On the way in, `OleFile` finds the stream whose bytes
`RecordReader` cuts into records and texts; a record of `BiffReader` carries the
text `RecordReader` (strings) or `NumberText` (numbers) yields for it, and the book
it fills consists of grids as in `Sheet`. On the way out, a row of `Conversion` is
a sequence of cells whose acceptance is the verdict of `CellTypes` on the texts of
a grid row; what `CellTypes` binds to field names is what `RowText` puts into the
template between `AcceptCell` and `WriteXml`. `Packing` is what `Conversion` takes
for granted in `ZipRow`, `Pack`, `EndRow` and `Cleanup`, and `Archiver` implements
it. The cells of `Sheet`, the context and book of `BiffReader`, the XF and FORMAT
tables of `NumberText` and the bindings of `CellTypes` and `RowText` are functions
and sets there, hash tables in the code: `HashTable` shows that the one is as good
as the other.

### Conversion

Variables carry the names of the code (`item_id`, `files_count`, `err`, `count`);
`s, r, c, p` are its nested loop counters (sheet, row, cell, line of a file
cell), `pc` the place in them. `tmp` is the contents of the temporary directory:
row archives, XML files, attached files, `index.xml`, and row directories that
could not be removed (`left`). `rowdir` is the current row's directory. `out` is
the import file on disk. `reported` is history: items an error line named.

Each action is one step between two calls that can fail, and the failing
alternatives are actions of their own: `BeginRow`/`BeginRowFails` is
`tempdir_mkdir`, `ZipRow`/`ZipRowFails`/`ZipRowAborts` the three ways a row
archive can end, and so on. An action ending in `Fails` leads to
`error_internal()`, that is to `exit(1)` with the directory as it is. Some have a
cause *inside* the program besides a fault: a directory that exists already
(`FileDirTaken`, `RowDirTaken`), an XML file a rowset merge does not find
(`EndSheetFails`). Another is a path of the workbook. `sl4_file_is_readable()`
(`tmpl_file.c:166`) is `lstat()` and a permission bit of the owner, so a directory,
a dangling link or a file of somebody else passes for a file, and the copy that
cannot open it ends the program; so does a path whose characters the coding of file
names lacks (`tmpl_file.c:111`, `PathUnconvertible`). `NoSpuriousAbort` says that
without a fault this is the only way into `error_internal()`: directories never
exist already and XML files are never missed.

A workbook is a sequence of sheets; a cell is what its reader makes of it,
rejected or accepted with a list of paths. A path is one of six kinds: `local`, a
file; `remote`, a URL; `missing`, which the check refuses; `unopenable`, which it
takes and `fopen()` does not; `unreadable`, a link to a directory, which `fopen()`
takes and `fread()` does not, so that the copy, which asks for the end of the file
only, never ends (`tempdir.c:156`, `CopyNeverEnds`); `unconvertible`.
`faults` is what the environment may do in the run, chosen at its start: nothing,
or any of a set of failures at any time. `"list"` stands for a directory that
cannot be listed to pack it, or not emptied to remove it.

### Archiver and Packing

A path is a sequence of names, the data of a file a sequence of bytes. `frames`
are the calls of `recursive_proc()` under way with the names each has still to be
given by `readdir()`, in any order. The walk is made twice, to collect `filelist`
and to remove; between them is `minizip_create()`, with `NewFileInZip`,
`ReadBlock`, `EndOfFile` and `CloseFileInZip` for its two loops and one action for
each error and what the code makes of it: `FileAborts` is `error_internal()`;
`BlockFails` and `ReadPart` are forgotten, the result of closing the entry taking
the place of theirs, and `spoiled` remembers the file for the properties.
`Packing` is the same for the callers: entries appear all at once.

### CellTypes

`AtLine` actions load the INI file line by line; each `Read...` action is one turn
of the loop over the columns with one type's reader in it. A text is a sequence of
tokens as far as readers tell texts apart; `Escaped` turns the characters XML
reserves into entities, so that a text escaped twice, or not, is another text.
`strtotime()` is six tries of `sscanf()`, each a step, since what an earlier one
left in the variables is what a later one finds; `fill` is what they held before
anything was written to them. `ConvertFormat` is what `sl4_string_convert_format()`
makes of the escapes in a separator. The per cent sign it doubles it finds again in
what it has just written: a line with one is never left (`ConvertsForEver`). A
column declared `int` is one of type string, as in the code.

### RowText

A text is a sequence of pieces: literals, backslashes, digits, fields and regions;
which pieces a template or a value may have is said by `Marks`, `Fields`,
`Elements`, `Datasets` and `Rowsets`. `BindColumn` and `BindDataset` fill `rep_hash`
and `dataset`, first binding of a name winning as in `sl4_hash_table_insert()`;
`TakeRowset`, `ExpandDataset` and `RegionsDone` are the two preprocessing passes;
`NextKey`, `ReplaceFirst` and `KeyDone` the loop over the buckets with the loop of
`myonig_replace()` inside. The bucket order depends on a hash function and a table
size: `NextKey` takes any key. Values are used as replacement *patterns*, which
`Replacement` does; a value with `\0`, or with its own field in it, puts the field
back that is being replaced, and the loop does not leave it (`PutsBack`). A field's
name is matched as a name; that a dot in it is a wildcard of the regular expression
is left out.

### OleFile

An image is a header and big blocks; a block is a sequence of block numbers, of
directory entries or of atoms of data. `ReadDepot` to `DepotRead` assemble the
block allocation table, `FollowChain` follows the chains of the small-block depot
and the directory, `ReadDirectory` makes the list of entries, `ReorderDir`,
`ReorderNext` and `ReorderPrevious` are the recursion of `reorder_pps_tree()`
(`calls` its stack) that turns the trees into lists in place, `CopySmallFile` makes
the file of small blocks. Then `TryBook` and `OtherEntry` look for the workbook and
`CopyBlock` copies its stream block by block. Whatever cannot be mounted is read as
a plain file. What mounting reads is in the file (`MountBlocks`); blocks of streams
may be missing.

### RecordReader

A file is a sequence of bytes; every call that reads some is a step, so that files
may end, or be wrong, between any two. `stream` keeps apart the position that is
told and the place the next read is made at, which `cole_fseek()` does not move.
`caller` says whether the record that is read belongs to the loop, to a string that
goes on in a CONTINUE record, or to the skip of a chart. `field` are the bytes a
handler waits for; `FlagsRead`, `CharRead`, `StringSizes` and `StringTail` go
through a string. Its phonetic data is counted in a WORD and announced in a DWORD:
from 64 KiB on the loop never ends, which is `TailNeverEnds` and `pc` "adrift".
`conv` is the loop around `iconv(3)` with its output buffer.

### Sheet

`cells` maps every position to a text, to `Blank` (an entry with the empty text)
or to `Absent` (no entry): the difference matters because `get_cell` creates the
entry it does not find, and grows the sheet by it. `RemoveLastRow` and
`RemoveLastCol` are one turn of the two trim loops, `ReadCell` one call by
`template_assign`. The addresses and colours of cells are left out.

### BiffReader

A stream is a sequence of records and `at` its read position. There is an action
for every record handler, with its checks and result; the loop goes on after
SUCCESS only (`Return`). `sheet` and `sst` are the two parts of the context,
`sheet` relating stream offsets to sheets of the `book`. Records carry the text
they yield. A stream that ends, is cut off or holds a record that cannot be read
is the same to the loop, so every stream is also run cut off at any record. A text
that cannot be converted (`NoText`) makes its handler give up (`Converted`). MULRK
and MULBLANK count columns in a WORD up to the last one: `ColumnsEnd` says whether
that counter can pass it, and with a last column of 0xffff it cannot, the loop sets
the cells of the row over and over, and `pc` stays "adrift" (`ColumnsNeverEnd`).

### NumberText

`xf` and `format` are the tables of the context, filled by `XfRecord`,
`FormatRecord` and, where a worksheet begins, with the built-in formats.
`NumberCell`, `RkCell` and `IntegerCell` are the three ways to store a number; they
ask `FormatIndex` for the format and make the text with `General`: `%.9f`, and the
zeros taken off. A double is a fraction whose numerator has `Bits` significant bits
and whose denominator is a power of two, with a sign of its own, so that there is a
negative zero. `%.9f` prints the nearest decimal (`Nearest`), and the `*= 0.01` of an
RK value is a product of two such fractions, rounded to one (`Hundredth`; the
constant is not 1/100). RK values keep their bits, so that the shift that loses a
sign is there.

### HashTable

`buckets` are the chains, each the set of its entries. `Insert`, `Lookup`,
`Remove` and `Erase` are the calls, looking for a key in the chain of its slot
only, as the code does. `insert`, `remove` and `erase` end in a resize, which is
its loop here: `BeginMove`, one `MoveEntry` for each entry, `NextChain`,
`EndMove`, with old and new buckets side by side; `KeepSize` is each early return,
a failed `malloc` included. `Primes` is the table of sizes.

## 3. Runs

| run | states | what it shows |
|---|---|---|
| `conv` | 253,000 | every mode, without and with faults: `ItemsSerial`, `FileIdsUnique`, `FilesComplete`, `NoSpuriousAbort`, `PublishedAccounts`, `Termination`, and `Conversion` implements `ImportContract` |
| `archiver` | 474,000 | `NothingLeft`, `Termination`, and `Archiver` implements `Packing` |
| `celltypes` | 24,000 | `ColumnsAsWritten`, `VerdictRight`, `TextsArrive`, `DatesConverted`, `DatasetsAligned` |
| `rowtext` | 197,000 | `ValuesInPlace`, `Termination`, in every order of the hash table |
| `ole` | 12,000 | `DepotIsTable`, `EachEntryOnce`, `WorkbookRead`, `RestInPlace` |
| `records` | 157,000 | `StringsKept`, `OnRecordBoundary`, `AllTextsRead`, `SkipInPlainFile`, `Termination` |
| `biff` | 5,000 | `WorksheetInSheet`, `CellsOfOwnSubstream`, `SuccessMeansLoaded`, `WellFormedLoads` |
| `numbers` | 16,000 | `NumbersKept`, `FormatInForce`, `AddressesApart` |
| `sheet` | 81,000 | `ContentKept`, `TrimmedTight`, `NoCellMissing`, `UseEnds` for every way to fill a 3x3 grid |
| `hash` | 32,000 | `ChainsSound`, `CallsReturn`, and `HashTable` implements `KeyMap` |
| `conv_lost_item`, `numbers_sign` | | a sentence of the code that it does not keep (section 5) |

What the type invariants, `StatusTellsOutput`, `OnlyArchivesPublished`,
`TempReleased` and `InBounds` say is proved (section 4) and no longer run.

**Bounds.**

* `MCConversion`: up to two rows in a sheet, and two sheets (or three, the first
  one without rows), cells that are values, rejected, or list one or two paths
  of every kind. Every counter that is shared, `item_id`, `files_count`, `err`, then
  crosses a cell, a row and a sheet boundary, in every combination of what came
  before and what follows; a third row or sheet starts from a state of the same
  shape. Faults: none, any but `"list"`, any. The contract has no items in
  `-c -i` runs (`ContractItems`), whose `index.xml` keeps the last sheet only.
* `MCArchiver`: directories that are empty, hold empty ones, the same name in two
  of them, or one in another; files of 0 to 5 bytes with blocks of two, so that
  sizes are zero, below, at, and between multiples of a block. Faults: none, all,
  reads and writes only, removals only.
* `MCCellTypes`: one column of each type, with texts it takes, refuses and is not
  asked about, required or not, in both modes; pairs of columns in one dataset or
  two; a name claimed twice; rows with too few cells; malformed INI lines. What the
  stack may hold is two values of a number and two of a buffer, one of them the
  name of a month. Nine separators with escapes: known ones, unknown ones, an escaped
  backslash, one in front of an `n`, two of a kind, a per cent sign.
* `MCRowText`: two fields and `system.item_id`, a field used twice, a rowset, one
  dataset used in two regions, columns in and out of step; a text of up to two
  pieces and the empty one; and values with escapes, and with the field they are put
  for, the other field or the item number in them. A value that puts its field back
  does so with nothing beside it, since the text would otherwise grow without bound.
* `MCOleFile`: big blocks of four atoms and small ones of two, four numbers in a
  block of a depot and two places in the header, so that files of a few dozen
  blocks need a list of depot blocks outside it. All binary trees of three entries
  in the root and two in a storage; streams of every interesting size around the
  cutoff and beyond a block; blocks laid down forwards, backwards and rotated;
  images cut off at every atom of their stream, and ones with a free block in a
  chain or a link to an entry without a name. No file lacks a block of a depot or of
  the directory.
* `MCRecordReader`: tables of strings with one- and two-byte characters, runs and
  phonetic data, cut into up to three records at any two places where no character
  is torn apart, each part in either width; tables that lack a CONTINUE; files cut
  off at every byte from the first string on, with the strings in front of the cut
  still to be kept (`intact`); strings with 64 KiB of phonetic data and more, alone and
  behind one that is whole; labels in code pages 367, 932, 1200 and an unknown one whose
  text fits the buffer, just does not, or is illegible; charts whole, cut off and
  too long. 64 and 60 bytes stand for 8224 and 8220, and a slack of 2 bytes in
  `iconv.c` for 32. Each file in an OLE2 stream and as a plain file.
* `MCBiffReader`: two substreams each of two records, every pair of six bodies
  that between them use every cell record, with sheets that are listed, hidden or
  charts, every prefix of the complete books, and files of BIFF2 to BIFF4. A text that
  cannot be converted in every record that can have one. 3 stands for 0xffff as the
  last column of a WORD; one body reaches 2, the last that ends, another 3.
* `MCNumberText`: every BIFF version; each way to store a number. Doubles are
  decimals of up to six digits, exactly a double or not, on both sides of the number
  of digits that always arrives and of the last bit; halves of the last decimal,
  which are rounded to even, and less; zero of either sign; some of these below
  zero; and, as RK values, each of them also times 0.01, as far as they are short. XFs with a format that is
  built in, of the file, of the file in the place of a built-in one, or of a
  parent, before or after the FORMAT records; a book with 256 columns. Three digits
  behind the point stand for nine, ten significant bits for 53 and seven bits of an
  integer for 30.
* `Sheet`: 3x3 with one text is the smallest grid with a row and a column that are
  neither first nor last, and one text suffices because nothing compares texts.
* `MCHashTable`: four keys of which two share their hash value, sizes 1, 2 and 3,
  so that the table grows and shrinks, entries of one chain are parted by a resize
  and others stay together.

**Deadlock** is checked everywhere: a finished run stutters by an action of its
own (`Terminated`, `Finished`), so any other state without a successor is an
error.

**Fairness.** `WF_vars(Next)`: a single-threaded program that can take a step
takes one. No choice among steps is assumed to be fair; an environment fault that
is possible may happen always or never. In `Sheet` the filling is the
workbook's doing and unbounded, so weak fairness starts when the book is loaded;
in `HashTable` nobody has to make another call, and only the steps inside a call
are fair. `OleFile`, `CellTypes` and `NumberText` state no liveness.

**Loops that never end** are in the models, so that liveness is not had by leaving
them out, and the properties name them: `Termination` of `Conversion` exempts a run
that copies a link to a directory, that of `RowText` a field whose value puts it back,
that of `RecordReader` a string with 64 KiB of phonetic data. What they say is that
there is no other: a loop is only ever left standing for the reason named. That the
record loop of `BiffReader` reads on says little, so its property is what it comes
to: a well-formed book (`WellFormed`) is read to its end, with all its sheets in
order and every cell.

Properties that rest on a fault not happening say so: `"list"` breaks both packing
and removal in the code, which ignores the result of `directory_remove()`;
`NothingLeft` excludes refusals of the system.

## 4. Proofs

Proved by TLAPS for every value of the constants, from the assumptions the
modules name. They give the constants their types and say no more than this:

* `WorkbooksAssumption`, `ModesAssumption`, `FaultSetsAssumption` (`Conversion`),
  `StreamsAssumption` (`BiffReader`), `TextsAssumption` (`RowText`): types of what
  comes in, sequences of any length. `StreamsAssumption` knows nothing of how
  records follow each other.
* `ArchiverAssumption`: what is archived is a directory tree (`DirectoryTree`):
  finitely many files, and what is in it is reached through directories of it.
* `LengthsAssumption`, `FillsAssumption`, `FilesAssumption` (`RecordReader`):
  a file is any sequence of bytes; its component `starts` is *defined*, as the
  places where a chain of complete records that begins at 0 has a record.
* `BoundsAssumption`, `TextsAssumption` (`Sheet`): `Blank`, `Absent` and the texts
  are distinct; the INI file lists no more columns than positions exist.
* `ImagesAssumption` (`OleFile`) says how an image was written, for files of any
  size: `DepotWritten`, that its table is in the blocks named by the header and by
  lists which lead to each other; `EntriesWritten`, that the chains of the small
  depot and of the directory run in the table to a mark, not necessarily the right
  one; `SoundTrees`, for those with sound directories, that the `next` and
  `previous` links of a storage make a binary tree, of any shape. The last says it
  by an order: each entry has a rank, and a size with all that hangs on its links,
  which in ranks come one after another. `WorkbookWritten`, for the same files, says
  of the small blocks and of the stream called Workbook, or else Book, what
  `StreamWritten` says: which block of a chain holds which atoms, as far as the
  blocks are in the file. Files whose streams end early, or have links to nothing,
  are among the images; the blocks that are read to mount the file are there
  (`MountBlocks`). A small block is not larger than a big one (`BlocksAssumption`).
* `SizesAssumption` (`NumberText`): texts have two decimals or more, doubles six
  significant bits or more, and an integer of an RK value fits a double.
  `BooksAssumption`, `ValuesAssumption`: the fields of records are unsigned numbers,
  flags and doubles (`IsDouble`). Nothing is said of which number a record was made
  for.
  `InputsAssumption` (`CellTypes`): INI lines, cells and the names in them
  are sequences of any length.
* `HashAssumption`, `PrimesAssumption`, `DataAssumption`, `MayFailAssumption`
  (`HashTable`): NULL is none of the data. The table of primes need not even be
  ascending: which size is chosen matters to no property proved.

**Conversion** (`ConversionProofs`): `TypeCorrect`, `FileNumbersUnique`,
`StatusHonest`, `TempdirRemoved`, `NoInternalError` and `ImportFileClean`. None of
them is inductive by itself. `IInv` (`ConversionInv`) adds what holds between the
states they look at:

* `ItemIdsBelow`, `FileIdsBelow`: numbers in archives and in the current row's
  directory are less than the counters (with the exception of the moment between
  packing a row and counting it). So a new number cannot be an old one:
  `FileIdsUnique`, and `FileDirTaken` is never true.
* `RowdirApart`: files of the row in work are in no archive yet.
* `ModeFits`: `-i` is worked on only together with `-c`, and row archives are not.
* `RowXmlsWritten`: with `-c`, every row of the sheet already passed has left its
  XML file, for the rowset merge to find, also when a later row was rejected.
* `OutputInPhase`: where import file, `err` and exit status stand in each phase.
* `OnlyArchivesMade`: without `-c` nothing but archives and row directories is
  made; a row directory stays only if it cannot be listed. Hence `RowDirTaken`
  is never true without a fault.

`NoInternalError` needs one thing more, which it is itself: a run that has ended at a
path stays there (`AbortStill`). `SoundAbortStep` goes through the actions that end
in `error_internal()`: the invariants above make those false that need a directory or
a file of the program's own, and what is left is a fault, or a path that is
`unopenable` or `unconvertible` at the place of the loops (`AtBadPath`).

`TypeStep` and `InvStep` have one case for each action and, under it, one step for
each conjunct the action can disturb; `Invariance` is `Spec => []IInv`, from which
every theorem above takes its conjunct.

**Numbers and contents of archives** (same module): `NumberedSerially` and
`ArchivesComplete`. `Number` counts the rows before a row, as the cardinality of a
set: `OneSheetOn` says how it grows from one sheet to the next, so that no
recursion over the sheets is needed. `NumberedSoFar` says where `item_id` stands in
every phase, also that a sheet left in its middle leaves an error behind;
`CopiedSoFar` says that the row's directory has one number for each local file of
the cells and lines already passed.

**The contract** (same module): `RunKeepsContract`, the refinement
`Spec => Contract!Spec`, for all modes and faults. `AccountedSoFar` is what it
takes: items dealt with are in the temporary directory or reported, none of them
twice, and a run that packs after no error has dealt with every row.
`EveryItemPublished` is `PublishedAccounts`, which compares the numbers of items
and of files with those of the workbook's rows. It needs `AttachedSoFar`, the
attached files are those of the rows passed, one name for each pair of a row and
a cell, and `MergedSoFar`, the merged XML files have the numbers up to `item_id`;
both name the finite sets they compare, so that cardinalities add up.

**Archiver** (`ArchiverProofs`): `RemovedEntirely` and `ArchiverImplementsPacking`,
for every tree, depth of recursion, order of `readdir()`, size of buffer and set of
faults. `WalkInv` says that the disk stays a directory tree, and that the calls
under way are the directories on one path of it, each with a part of its entries
left. A path is `Pending` when the walk still has it or a path above it before it;
then `Listing` (the list is what is no longer pending, each file once), `Zipping`
(every file is in the archive, in hand or in the list) and `Removing` (what is there
is pending or on the way to it, unless something was refused, and then it is there
for good) carry the three phases. In
the refinement the listing and the loops of `minizip_create()` are stutters, or a
`Spoil` where a part of a file is lost; closing the archive is `Pack`, by which all
entries appear at once; deleting a file is `Remove`, deleting the directory itself
`Release`.

**BiffReader** (`BiffReaderProofs`): `CellsHaveSheet`, `SheetsHoldTheirCells` and
`NothingLost`, for every stream. `IInv` joins the types of book and context
(`BookTyped`, `ContextTyped`), that every offset belongs to one sheet of the book
(`OffsetsApart`), and that the current worksheet is the one of the current substream
(`CurrentSheet`). `CInv` says what has become of the records that were read:
`StringsSoFar` (the shared strings are those of the tables passed), `BofsKnown`
and `OpenSubstream` (a worksheet is current exactly within its substream, and none
was passed that is listed afterwards), `CellsPlaced` and `LoadedSoFar`. The last two
need each other: the cell of a position is the first record to describe it because
those before it are all in the sheet.

**RecordReader** (`RecordReaderProofs`): `LoopOnBoundaries`, for every file, cut off
anywhere, in a stream or as a plain file, whatever strings consume and whatever is
found in memory not written to. `AtRecord` follows the position through the header
of a record and behind its data; `Positions` says that the place reads are made from
is the position that is told until a chart is skipped; `Buffered` bounds the record.
The boundary is promised for files none of whose records is longer than the buffer
(`RecordsFit`): the loop refuses a longer one, a string does not look at the result
and would take its data for records.

`ChartSkipped`, for plain files: a chart that is skipped ends behind the first EOF
record after its BOF. `RecordHeld` says that what the loop has read is a record of the
file, byte for byte (the buffer keeps older bytes behind it), and that a BOF handler
has taken its four bytes from there; `Skipping`, that the skip has passed whole
records from the chart's BOF on and none of them was EOF. That no record begins
inside another one (`StartsApart`) makes the one it ends at the *first* EOF. It needs
`RecordsFit`, so that the BOF is a record of the file at all, and `BofsWhole`: a BOF
record of less than four bytes is read on in the next record, which may be the EOF
looked for. In an OLE2 stream the property is false, as `cole_fseek()` leaves the
place of the next read where it is.

**OleFile** (`FileAndTextProofs`): `DepotAssembled`, `DirectoryListed`,
`WorkbookFound` and `CutOffInPlace`, every invariant of the module, for files of any
size. `DepotInv` says that what has been put together
is the table as far as its lists were read (`DepotTo`), which rests on `DepotList`: a
list is cut where its filling begins; `ChainInv`, that what was followed of a chain
is the beginning of the one written. For `reorder_pps_tree()` the invariant is
`InOrder`: what each entry's links are when the recursion has reached a rank
(`Sorted`: the `next` link is either the one read or leads to the entry that comes
behind in the directory, and there is none behind it yet otherwise), what the stack of
calls has left to do (`Stacked`), and that `last_next_link_visited`, where a
`previous` link is looked at, is the latest entry of *this* directory so far
(`LatestKnown`), although the recursion has been in other directories meanwhile and
the variable is one for all of them. `HungBehindLatest` is why the entries hung
behind it do not replace a link. From there `WalkComplete` concludes, by the
pigeonhole principle, that a walk along the links ends, with every entry visited once.

`FileInv` goes on from there to the stream, for files with a sound directory. `Ahead`
is the search: no entry with the name that is looked for is behind the one visited,
in the order of ranks; so one that exists is found, whichever tree it was in, and
`Book` is only looked for where there is no `Workbook`. `CopiedTo` is the copying,
of the file of small blocks as of the stream: after `k` blocks of the chain the
output has as many atoms as `k` blocks hold, or all of them, each that is in the file
in its place, and the next block is the one the chain goes on with. A block that is
missing leaves the buffer as it was, but a whole block is written, and this is why
what comes after it does not move (`CutOffInPlace`).

**RowText** (`FileAndTextProofs`): `TextIsDocumented`, for every template, row and order
in which the hash table delivers its keys. `BoundSoFar` is the table: the first
binding of every name among the columns passed, and the sizes of the datasets.
`TextKept` is the heart: what the text stands for, with every field replaced by its
value and every dataset region repeated (`Rendered`), never changes while it is
made. `FieldsLeft` says that a bound field still in the text belongs to a key to
come, so that none is left at the end. It is stated for rows of plain values
(`PlainValues`): a backslash escapes what follows it, and a field in a value is
replaced or not depending on the order of the table, so that without it the
property is false.

**NumberText** (`CellProofs`): `CellsHaveOwnAddresses`, `OwnFormatUsed` and
`NumbersArrive`, for every sequence of records. `PlaceInv` says that each cell has
the address `Column` makes of its place; the rest is about that function: two
columns with the same letters are one column (`ColumnsApart`, by strong induction),
although the letters are not Excel's. `FormatInv` says what the tables hold:
`XfTable`, entry by entry, the XF records passed, whose numbers are counts of
records and not stored in them; `FormatTable`, for each index the *first* FORMAT
record of the file that has it, or else the built-in format once a worksheet has
begun; `AllFormatted`, the cells made so far. It is promised for files whose cells
refer to what comes before them (`WellOrdered`), in which no cell is without a
format. `AsInExcel` adds that the letters are Excel's up to column 255, but for the
columns whose name should end in a Z after another letter (`ColumnAsInExcel`).

`NumbersArrive` says how near the text is to what the record holds, for every double:
half a unit of the last decimal, and, where it was multiplied by 0.01, what two
roundings of a double allow; and that a number typed with no more than `Bits` - 3
bits of units (with 53 bits and nine decimals, one of up to a million) arrives digit
for digit. Both halves rest on `NearestIs`. `RoundedIs` says that rounding to a
double costs one part in 2^`Bits` at most, and `HundredthIs` what becomes of this,
and of the error of the constant, in a product; `GeneralNear` and `CentNear` add the
half unit of the decimal. `ShortArrives` concludes: an error of less than half a unit
leaves one decimal, the one typed. That the characters are that decimal is
`GeneralSpells`: `Spells` says that characters read from the left, as a number is,
come to that number, and `UpToSpells`, by induction over the decimals, that what is
printed up to a decimal spells the number cut off there. What `Trimmed` takes off are
decimals that are 0, so that nothing is lost (`ZerosBehind`), or all of them and the
point.

**CellTypes** (`CellProofs`): `EveryColumnLoaded` and `GroupsAligned`, for every INI
file and every row. `LoadInv` places the column of each line at the number of column
lines up to it (`Tally`), so that comments shift nothing. `AlignInv` says which
element names are bound when the loop stands at a column (`Bindings`): those of the
dataset columns passed, each with the numbers below the size its dataset has by
then, and no others. `BoundExactly` concludes that a field's numbers are exactly
those, and `ExplodeType` that a text cut at its separators is a sequence of texts,
however long it is, and `ConvertFormatType` that a separator is one whatever escapes
it has. It is promised for tags that are one name each (`TagsPlain`): one with a dot
in it and a field can make the name of another tag and field.

**Recursion.** The library's induction theorems cannot be used by the provers at
hand, so `NatSetInduction` says it with sets, from the pigeonhole principle: a set
of numbers with 0 and the successor of each of its members has them all.
`RecursionExists` obtains from it the functions that a recursive definition speaks
of, and `JoinsUnique`, `FlattenConcat` and `PutFlatten` what `FlattenSeq` makes of
concatenated sequences and of pieces put in the place of elements. `StrongInduction`
and `DescentExists` are for recursion to any smaller number, `Tally` with `CountStep`
and `CountReached` for the entry a table has at the number of records passed.
`FileAndTextProofs` and `CellProofs` rest on these, `BiffReaderProofs` on the first ones
(`Strings`), and `RecordReaderProofs` on `SmallestExists`.

**Sheet** (`StoreProofs`): `SheetTypes`, `CellsEnclosed`, `EveryCellFound`,
`ContentPreserved`, `TrimIsTight`, for grids of any size and any set of texts. The
strengthening says, in `Reading`, that once the reading has started the row being
read is a row of the sheet, and that column `j` is at most one past the last.
This is what makes the comparison in `get_cell`, off by one as it is, harmless:
the columns are asked for from left to right, so each read past the edge is
exactly one past it and enlarges the sheet by one.

**HashTable** (`StoreProofs`): `TableTyped`, `ChainsStaySound`
and `TableIsMap`, the refinement `Spec => Map!Spec`. The invariant
`IInv` joins `TypeOK`, `SlotsRight`, `KeysOnce` (old and new buckets share
no entry), `Counted`, the finiteness of the entries, and `PassedEmpty`: the chains
the resize has passed are empty, so that nothing is lost when the old buckets are
freed. `FoundIsThere` follows: one chain holds all there is of a key. A step of a
resize keeps `Entries`, on which alone the map depends (`MappedSame`).

**Only model-checked.** Liveness (`Termination`, `WellFormedLoads`, `UseEnds`,
`CallsReturn`) is out of the prover's reach. Of safety, not proved so far:
`StringsKept` and `AllTextsRead` of `RecordReader`; `VerdictRight`, `TextsArrive`
and `DatesConverted` of `CellTypes`. They compare the state with a recursive
definition over the input (the strings of a table, the elements of a text, the words
of a date), each of which would take an induction of its own over its data.

## 5. Where the code and what is said of it differ

Shown by a run:

* `conv_lost_item`: `main.c` reports success for an import file in which the item
  is missing whose archive could not be opened, since `err` belongs to the last
  row of a sheet only.
* `numbers_sign`: a "signed integer" of an RK value (`record.c:291`, `:305`) is
  shifted as an unsigned one; every integer below zero arrives as a large number.

Stated by a property of the module, which TLC finds violated when the property
takes the place of the invariants of the run's cfg:

* `UnsupportedSkipped` (`biff.cfg` with `Streams <- MCWholeBooks`): "need to skip
  to eof" (`biff_bof.c:98`) is done, and the loop is then left all the same;
  worksheets stored after a chart stay empty.
* `LabelsWhole` (`records.cfg`): where `iconv.c:84` enlarges the output, `out_size`
  is still 0, so that the text starts anew and loses its beginning.
* `NamedMonthsConverted` (`celltypes.cfg`): `INIFILE_ja.txt:41` and `:44` allow the
  name of a month in a date. `tmpl_datetime.c:59` looks its number up only if the
  scan failed; the time stamp is made of what the stack held.
* `IntegersChecked` (`celltypes.cfg`): a column of type `int` takes integers
  (`INIFILE_ja.txt:32-33`). The code makes it one of type string (`inifile.c:206`),
  which takes any text; `tmpl_integer_get()` is never reached.
* `SeparatorsAsInC` (`celltypes.cfg`): separators are written with the escapes of C
  (`INIFILE_ja.txt:52-53`). `sl4_string_convert_format()` knows some of them, makes
  an apostrophe a comma, and looks for each in what it has made of those before, so that
  a backslash that is itself escaped does not stay one (`utility.c:131-157`).
* `ParentFormatUsed` (`numbers.cfg`): "use parent style xf" (`ctx_xf.c:82`), but
  the index is `dummy2 & 0xfff0 >> 4`, that is `& 0x0fff` (`biff_xf.c:77`, `:97`,
  `:122`, `:146`). A parent is then usually not found, and a NULL format compared.

Seen while modelling, in the models as the code has them and left out of the
properties or the bounds:

* `error_internal()` exits without releasing the temporary area, which
  `STATUS_ja.txt:24` and `:27` list as the last step.
* A path in a cell that is a directory, a dangling link or somebody else's file ends
  the program with an internal error instead of being reported as not readable, as
  one does that the coding of file names cannot express; a link to a directory is
  copied for ever (section 2, Conversion).
* With two sheets of an index list the second `index.xml` replaces the first.
* A backslash in a cell is an escape of the replacement pattern and does not reach
  the XML file; `\0` stands for the field that matched, which the replacement loop
  then finds again, for ever.
* A read or write error inside `minizip.c`'s loop over blocks is overwritten by the
  result of closing the entry: the archive has a file cut off and the result is 0.
* `cole_fseek()` moves the position that is told, not the place reads are made at.
* Three more loops never end: the doubling of a per cent sign in a separator
  (`utility.c:133-157`), the one over columns up to 0xffff (`biff_mulrk.c:53`,
  `biff_mulblank.c:56`), the one over 64 KiB of phonetic data (`record.c:268`).
* A record that cannot be read whole does not set the offset back
  (`record.c:413-423`): a string that goes on in it is made of the bytes the buffer
  happens to hold, and is delivered.
* The address of a cell in column AZ is BZ, in BZ it is CZ, and so on: distinct,
  but not Excel's.
* `BUGS_ja.txt:3-4` has it that integers of many digits are not read correctly. As far
  as the code goes they are, up to 2^53; beyond, a double is no integer of its own.
  What does not arrive as typed are long decimals (123456789.1 is written as
  123456789.099999994), hundredths of RK values from about four million on
  (4194304.06 as 4194304.060000001), and numbers just below zero, of which nothing but
  the sign is printed (`-0`).
* Real, but without a property: the array of 128 columns (`inifile.c:99`); a region
  of a dataset no column declares (`template.c:511`); `num_regs >= num`
  (`onig.c:248`); the walk in front of a text of blanks (`string.c:555`); a
  record that cannot be read ends the book as a success (`record.c:61`).

## 6. Not modelled, and what comes next

Most lines of the tree are not the program's: zlib, Oniguruma and minizip are
vendored, and `olecod.c` is never called. Of some 75,800 lines about 13,000 are
the program's own, and among those the models leave out usage texts, allocation and
release, thin OS wrappers, MIME types, dumps for debugging and the plain accessors.

Left out within the modelled parts:

* `OleFile`: directories are well-formed trees (a cyclic one recurses without end);
  the loose check of small-block numbers at `oledecod.c:235`; the hole a missing block
  of the depot leaves in the table (`oledecod.c:175`); errors of the device, memory and
  temporary files, each of which gives up the mount or the stream
  (`internal.c:89-147`), and the assertion at `oledecod.c:166`, which ends the process.
* `RecordReader`: the table of Apple Japanese, files before BIFF5.
* `BiffReader`: bytes inside records.
* `NumberText`: the limits of a double's exponent, so infinite numbers, ones that are
  none, and the lost bits of the smallest; texts of formats, which only a warning
  prints; BIFF5 files without globals, whose FORMAT records follow the BOF.
* `CellTypes`: `tmpl_integer_get()` is never reached; wrapping elements of XooNIps 4
  are one tag, `mktime()` is a token; signs of numbers in `sscanf()`; INI lines
  longer than the buffer.
* `Archiver`: file times, and the check of `_MAX_PATH`: a longer path cannot have
  been made.
* `libsl4/list.c` and `array.c` are sequences everywhere; of `list.c` the program
  uses `push_back`, `top`, `pop_front`, `empty` and `delete` only.
* Memory exhaustion, which the code answers with `exit(1)` in most places, except
  for the hash table's resize.

What would be worth proving next: `VerdictRight` and `TextsArrive`, along the lines
of the lemmas in `Recursion`.
