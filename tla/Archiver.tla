------------------------------ MODULE Archiver ------------------------------
(***************************************************************************)
(* How a directory is packed and removed: recursive_proc() of recursive.c  *)
(* with the two functions directory.c hands it, minizip_create() of        *)
(* minizip.c, and the call of directory_remove() that follows it in        *)
(* proc_sheet() and, by tempdir_delete(), in proc_main().                  *)
(*                                                                         *)
(* A path is a sequence of names, that of the directory itself is Root.    *)
(* The data of a file are a sequence of bytes.                             *)
(***************************************************************************)
EXTENDS Integers, Sequences, SequencesExt

CONSTANTS
  Names, Bytes,
  Root,        \* path of the directory
  Trees,       \* [dirs, files]: it and its subdirectories, its files with their data
  FaultSets,   \* subsets of FaultKinds
  BufferSize   \* WRITEBUFFERSIZE, 16384

FaultKinds ==
  {"opendir", "zipopen", "newfile", "fopen", "fread", "write", "closefile",
   "zipclose", "unlink"}

(* What is in the directory is reached from it through directories.        *)
Entire(t) ==
  \A x \in t.dirs \cup DOMAIN t.files :
    /\ Len(x) >= Len(Root) /\ SubSeq(x, 1, Len(Root)) = Root
    /\ \A n \in Len(Root) .. Len(x) - 1 : SubSeq(x, 1, n) \in t.dirs

DirectoryTree(t) ==
  /\ t = [dirs |-> t.dirs, files |-> t.files]
  /\ t.dirs \subseteq Seq(Names) /\ DOMAIN t.files \subseteq Seq(Names) \ t.dirs
  /\ Root \in t.dirs /\ Entire(t)
  /\ IsFiniteSet(DOMAIN t.files)
  /\ \A x \in DOMAIN t.files : t.files[x] \in Seq(Bytes)
  /\ t.files = [x \in DOMAIN t.files |-> t.files[x]]

ASSUME ArchiverAssumption ==
  /\ BufferSize \in Nat \ {0} /\ FaultSets \subseteq SUBSET FaultKinds
  /\ \A t \in Trees : DirectoryTree(t)

VARIABLES
  tree,        \* the directory as it was
  faults,      \* what may go wrong in this run
  disk,        \* the directory as it is
  pc,
  walk,        \* what recursive_proc() is called for: "list" or "remove"
  path,        \* directory to be opened, file to be packed
  frames,      \* its calls under way: <<[dir, left]>>
  filelist,
  zip,         \* entries written
  got,         \* bytes of the current file that were read, and those written
  ret,         \* minizip_create(): "ok" for 0, "noopen" for -1, "nofiles" for -2
  spoiled,     \* files with a part that could not be read or written
  refused      \* something could not be deleted

vars == <<tree, faults, disk, pc, walk, path, frames, filelist, zip, got, ret,
          spoiled, refused>>
walkVars == <<walk, frames>>
zipVars  == <<zip, got, spoiled>>

Init ==
  /\ tree \in Trees /\ faults \in FaultSets /\ disk = tree
  /\ pc = "open" /\ walk = "list" /\ path = Root /\ frames = <<>>
  /\ filelist = <<>> /\ zip = <<>> /\ got = [read |-> 0, written |-> <<>>]
  /\ ret = "none" /\ spoiled = {} /\ refused = FALSE

-----------------------------------------------------------------------------
(* The walk: files are handed to the function as they are met, a directory *)
(* after all that is in it.                                                *)
Paths        == disk.dirs \cup DOMAIN disk.files
Entries(dir) == {x \in Paths : x # Root /\ Front(x) = dir}

OpenDir ==
  /\ pc = "open"
  /\ frames' = Append(frames, [dir |-> path, left |-> Entries(path)])
  /\ pc' = "read"
  /\ UNCHANGED <<tree, faults, disk, walk, path, filelist, zipVars, ret, refused>>

(* An error ends all calls; directory_filelist() gives up the program and  *)
(* the callers of directory_remove() do not look at its result.            *)
OpenDirFails ==
  /\ pc = "open" /\ "opendir" \in faults
  /\ frames' = <<>>
  /\ IF walk = "list" THEN pc' = "exit" /\ ret' = "abort"
                      ELSE pc' = "over" /\ ret' = ret
  /\ UNCHANGED <<tree, faults, disk, walk, path, filelist, zipVars, refused>>

Read(x) ==
  /\ pc = "read" /\ x \in Last(frames).left
  /\ frames' = [frames EXCEPT ![Len(frames)].left = @ \ {x}]

EnterDir(x) ==
  /\ Read(x) /\ x \in disk.dirs
  /\ path' = x /\ pc' = "open"
  /\ UNCHANGED <<tree, faults, disk, walk, filelist, zipVars, ret, refused>>

(* filelist_proc(): the path without that of the directory.                *)
Erased(x)   == SubSeq(x, Len(Root) + 1, Len(x))

ListFile(x) ==
  /\ Read(x) /\ x \in DOMAIN disk.files /\ walk = "list"
  /\ filelist' = Append(filelist, Erased(x))
  /\ UNCHANGED <<tree, faults, disk, pc, walk, path, zipVars, ret, refused>>

(* rmdir_proc(), which returns 0 whatever unlink() and rmdir() say.        *)
UnlinkFile(x) ==
  /\ Read(x) /\ x \in DOMAIN disk.files /\ walk = "remove"
  /\ disk' = [disk EXCEPT !.files = [y \in DOMAIN @ \ {x} |-> @[y]]]
  /\ UNCHANGED <<tree, faults, pc, walk, path, filelist, zipVars, ret, refused>>

UnlinkRefused(x) ==
  /\ Read(x) /\ x \in DOMAIN disk.files /\ walk = "remove" /\ "unlink" \in faults
  /\ refused' = TRUE
  /\ UNCHANGED <<tree, faults, disk, pc, walk, path, filelist, zipVars, ret>>

\* Mutant: a directory is removed before what was in it.
RmdirFirst(dir) ==
  IF \A x \in tree.dirs \cup DOMAIN tree.files : x = Root \/ Front(x) # dir
    THEN [disk EXCEPT !.dirs = @ \ {dir}] ELSE disk
Rmdir(dir) ==
  IF Entries(dir) = {} THEN [disk EXCEPT !.dirs = @ \ {dir}] ELSE disk

DirDone ==
  /\ pc = "read" /\ Last(frames).left = {}
  /\ frames' = Front(frames)
  /\ pc' = IF Len(frames) > 1 THEN "read" ELSE IF walk = "list" THEN "create" ELSE "over"
  /\ UNCHANGED <<tree, faults, walk, path, filelist, zipVars, ret>>

CloseDir ==
  /\ DirDone
  /\ disk' = IF walk = "remove" THEN Rmdir(Last(frames).dir) ELSE disk
  /\ UNCHANGED refused

RmdirRefused ==
  /\ DirDone
  /\ walk = "remove" /\ "unlink" \in faults
  /\ refused' = TRUE /\ UNCHANGED disk

-----------------------------------------------------------------------------
(* minizip_create() returns, and the directory is removed.                 *)
Return(r) ==
  /\ ret' = r
  /\ pc' = "open" /\ walk' = "remove" /\ path' = Root

ErrorUnexpected == pc' = "exit" /\ ret' = "abort" /\ UNCHANGED <<walk, path>>

NoFiles ==
  /\ pc = "create" /\ filelist = <<>>
  /\ Return("nofiles")
  /\ UNCHANGED <<tree, faults, disk, frames, filelist, zipVars, refused>>

OpenZip ==
  /\ pc = "create" /\ filelist # <<>>
  /\ pc' = "files"
  /\ UNCHANGED <<tree, faults, disk, walkVars, path, filelist, zipVars, ret, refused>>

OpenZipFails ==
  /\ pc = "create" /\ filelist # <<>> /\ "zipopen" \in faults
  /\ Return("noopen")
  /\ UNCHANGED <<tree, faults, disk, frames, filelist, zipVars, refused>>

NewFileInZip ==
  /\ pc = "files" /\ filelist # <<>>
  /\ path' = Root \o Head(filelist) /\ filelist' = Tail(filelist)
  /\ got' = [read |-> 0, written |-> <<>>]
  /\ pc' = "fopen"
  /\ UNCHANGED <<tree, faults, disk, walkVars, zip, ret, spoiled, refused>>

(* The three errors that end the program between two files.                *)
FileAborts ==
  /\ \/ pc = "files" /\ filelist # <<>> /\ "newfile" \in faults
     \/ pc = "fopen" /\ "fopen" \in faults
     \/ pc = "close" /\ "closefile" \in faults
     \/ pc = "files" /\ filelist = <<>> /\ "zipclose" \in faults
  /\ ErrorUnexpected
  /\ UNCHANGED <<tree, faults, disk, frames, filelist, zipVars, refused>>

OpenFile ==
  /\ pc = "fopen" /\ pc' = "block"
  /\ UNCHANGED <<tree, faults, disk, walkVars, path, filelist, zipVars, ret, refused>>

(* The loop over the blocks of a file goes on as long as something is read *)
(* and can be written: what was written decides over err last.             *)
Data    == disk.files[path]
Rest    == Len(Data) - got.read
Most    == IF Rest < BufferSize THEN Rest ELSE BufferSize
\* Mutant: only full blocks are written.
FullBlock(n) == IF n = BufferSize THEN SubSeq(Data, got.read + 1, got.read + n) ELSE <<>>
Part(n) == SubSeq(Data, got.read + 1, got.read + n)

Written(n) == got' = [read |-> got.read + n, written |-> got.written \o Part(n)]

ReadBlock ==
  /\ pc = "block" /\ Rest > 0
  /\ Written(Most)
  /\ UNCHANGED <<tree, faults, disk, pc, walkVars, path, filelist, zip, ret, spoiled, refused>>

ReadPart(n) ==
  /\ pc = "block" /\ n \in 1 .. Most /\ n < BufferSize /\ "fread" \in faults
  /\ Written(n)
  /\ spoiled' = spoiled \cup {Erased(path)}
  /\ UNCHANGED <<tree, faults, disk, pc, walkVars, path, filelist, zip, ret, refused>>

\* Mutant: the loop goes on when nothing was read.
ReadsOn ==
  pc = "block" /\ Rest = 0 /\ UNCHANGED vars

EndOfFile ==
  /\ pc = "block" /\ Rest = 0 /\ pc' = "close"
  /\ UNCHANGED <<tree, faults, disk, walkVars, path, filelist, zipVars, ret, refused>>

BlockFails ==
  /\ pc = "block" /\ ("fread" \in faults \/ (Rest > 0 /\ "write" \in faults))
  /\ spoiled' = spoiled \cup {Erased(path)}
  /\ pc' = "close"
  /\ UNCHANGED <<tree, faults, disk, walkVars, path, filelist, zip, got, ret, refused>>

(* The result of closing the entry replaces that of reading and writing.   *)
CloseFileInZip ==
  /\ pc = "close"
  /\ zip' = Append(zip, [name |-> Erased(path), data |-> got.written])
  /\ pc' = "files"
  /\ UNCHANGED <<tree, faults, disk, walkVars, path, filelist, got, ret, spoiled, refused>>

CloseZip ==
  /\ pc = "files" /\ filelist = <<>>
  /\ Return("ok")
  /\ UNCHANGED <<tree, faults, disk, frames, filelist, zipVars, refused>>

Terminated == pc \in {"over", "exit"} /\ UNCHANGED vars

-----------------------------------------------------------------------------
AtEntry(x) ==
  EnterDir(x) \/ ListFile(x) \/ UnlinkFile(x) \/ UnlinkRefused(x)

Next ==
  \/ OpenDir \/ OpenDirFails \/ CloseDir \/ RmdirRefused
  \/ \E x \in Paths : AtEntry(x)
  \/ NoFiles \/ OpenZip \/ OpenZipFails
  \/ NewFileInZip \/ FileAborts \/ OpenFile
  \/ ReadBlock \/ EndOfFile \/ BlockFails
  \/ \E n \in 1 .. BufferSize : ReadPart(n)
  \/ CloseFileInZip \/ CloseZip
  \/ Terminated

Spec     == Init /\ [][Next]_vars
FairSpec == Spec /\ WF_vars(Next)

-----------------------------------------------------------------------------
(* The same seen by the callers.                                           *)
Relative(files) ==
  [x \in {Erased(y) : y \in DOMAIN files} |-> files[Root \o x]]

AsPacked == INSTANCE Packing WITH
  files    <- Relative(tree.files),
  left     <- DOMAIN Relative(disk.files),
  archive  <- IF ret = "ok" THEN zip ELSE <<>>,
  released <- disk.dirs = {}

(* What Conversion takes for granted in its steps ZipRow, Pack, EndRow and *)
(* Cleanup: minizip_create() makes an archive of every file, each once and *)
(* under its path in the directory, or says why not; a file whose parts    *)
(* can all be read and written is there with all its data.  Nothing is     *)
(* removed before, and the directory goes only when nothing is in it.      *)
ImplementsPacking == AsPacked!Spec

(* The removal, whose errors nobody looks at, leaves nothing behind unless *)
(* a directory cannot be opened or a file cannot be deleted.               *)
NothingLeft ==
  pc = "over" /\ "opendir" \notin faults /\ ~refused => Paths = {}

(* The walks and the loop over the blocks end, also when every read fails. *)
Termination == <>(pc \in {"over", "exit"})
=============================================================================
