----------------------------- MODULE MCArchiver -----------------------------
(***************************************************************************)
(* Directories of an item: its XML file, attached files with and without   *)
(* the same name, empty files and directories, a directory in another one. *)
(***************************************************************************)
EXTENDS Archiver, TLC

MCNames == {"tmp", "1", "2", "files", "a", "b", "c", "1.xml"}
MCBytes == 1 .. 5
MCRoot  == <<"tmp", "1">>

In(names)    == MCRoot \o names
Content(n)   == [k \in 1 .. n |-> k]
Dirs(names)  == {MCRoot} \cup {In(x) : x \in names}
Tree(dirs, sizes) ==
  [dirs  |-> Dirs(dirs),
   files |-> [x \in {In(y) : y \in DOMAIN sizes} |-> Content(sizes[SubSeq(x, 3, Len(x))])]]

Sizes == 0 .. 5

MCTrees ==
  {Tree({}, <<>>), Tree({<<"1">>, <<"2">>}, <<>>)}
  \cup {Tree({}, (<<"1.xml">> :> n)) : n \in Sizes}
  \cup {Tree({<<"1">>, <<"2">>},
             (<<"1.xml">> :> n) @@ (<<"1", "a">> :> m) @@ (<<"2", "a">> :> 3)) :
        n \in {1, 2}, m \in {0, 4}}
  \cup {Tree({<<"files">>, <<"2">>, <<"2", "b">>},
             (<<"2", "b", "a">> :> 1) @@ (<<"files", "c">> :> n)) : n \in {2, 3}}

MCFaultSets == {{}, FaultKinds, {"fread", "write"}, {"unlink"}}
=============================================================================
