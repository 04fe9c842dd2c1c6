------------------------------ MODULE Packing -------------------------------
(***************************************************************************)
(* What becomes of a directory that is packed and then removed, without    *)
(* walks, blocks and entries: the view Conversion takes of minizip_create  *)
(* and directory_remove in its actions ZipRow, Pack, EndRow and Cleanup.   *)
(***************************************************************************)
EXTENDS Integers, Sequences, FiniteSets, Functions

VARIABLES
  files,    \* the files of the directory, names and data, as they were
  left,     \* names of the files that are still there
  archive,  \* entries of the archive that was published
  ret,      \* "ok" for 0, "noopen" for -1, "nofiles" for -2, "abort", "none"
  spoiled,  \* files of which a part could not be read or written
  refused,  \* the system would not delete something
  released  \* the directory has been removed

vars == <<files, left, archive, ret, spoiled, refused, released>>

Init ==
  /\ left = DOMAIN files /\ archive = <<>> /\ ret = "none"
  /\ spoiled = {} /\ refused = FALSE /\ released = FALSE

Spoil ==
  /\ ret = "none" /\ spoiled \subseteq spoiled' /\ spoiled' \subseteq DOMAIN files
  /\ UNCHANGED <<files, left, archive, ret, refused, released>>

(* Every file is in the archive once, under its name in the directory and  *)
(* with its data unless a part of them could not be read or written.       *)
Pack ==
  /\ ret = "none" /\ ret' = "ok" /\ DOMAIN files # {}
  /\ Len(archive') = Cardinality(DOMAIN files)
  /\ {e.name : e \in Range(archive')} = DOMAIN files
  /\ \A e \in Range(archive') : e.name \notin spoiled => e.data = files[e.name]
  /\ UNCHANGED <<files, left, spoiled, refused, released>>

NothingToPack ==
  /\ ret = "none" /\ ret' = "nofiles" /\ DOMAIN files = {}
  /\ UNCHANGED <<files, left, archive, spoiled, refused, released>>

PackFails ==
  /\ ret = "none" /\ ret' \in {"noopen", "abort"}
  /\ UNCHANGED <<files, left, archive, spoiled, refused, released>>

(* Nothing goes before the packing is over, and nothing at all after an    *)
(* internal error.                                                         *)
Remove ==
  /\ ret \notin {"none", "abort"} /\ ~released
  /\ left' \subseteq left /\ refused' \in {refused, TRUE}
  /\ UNCHANGED <<files, archive, ret, spoiled, released>>

Release ==
  /\ ret \notin {"none", "abort"} /\ ~released /\ released'
  /\ left = {} /\ ~refused
  /\ UNCHANGED <<files, left, archive, ret, spoiled, refused>>

Next == Spoil \/ Pack \/ NothingToPack \/ PackFails \/ Remove \/ Release
Spec == Init /\ [][Next]_vars
=============================================================================
