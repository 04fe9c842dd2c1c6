--------------------------- MODULE ImportContract ---------------------------
(***************************************************************************)
(* What one run of excel2xoonips promises to the user who typed            *)
(*     excel2xoonips Excel.xls XooNIpsImport.zip                           *)
(* independent of how rows, temporary files and archives are handled:      *)
(* the import file appears in one step, holding every item of the workbook *)
(* that no error line was printed for, and the exit status says whether    *)
(* it is there.  Conversion.tla is shown to implement this module.         *)
(***************************************************************************)
EXTENDS Naturals

VARIABLES
  items,     \* numbers of the items the workbook holds
  reported,  \* items an "ERROR: ..." line was printed for
  out,       \* the import file: [state |-> ..., ids |-> items it holds]
  status     \* how the process ended, "running" until then

vars == <<items, reported, out, status>>

NoFile      == [state |-> "none", ids |-> {}]
PartialFile == [state |-> "partial", ids |-> {}]

Init ==
  /\ items \in SUBSET Nat
  /\ reported = {}
  /\ out = NoFile
  /\ status = "running"

(* An item is given up, with a message, before anything is published.      *)
Report(i) ==
  /\ status = "running" /\ out = NoFile
  /\ i \in items
  /\ reported' = reported \cup {i}
  /\ UNCHANGED <<items, out, status>>

(* The import file appears with everything that was not given up.          *)
Publish ==
  /\ status = "running" /\ out = NoFile
  /\ out' = [state |-> "complete", ids |-> items \ reported]
  /\ UNCHANGED <<items, reported, status>>

Succeed ==
  /\ status = "running" /\ out.state = "complete"
  /\ status' = "ok"
  /\ UNCHANGED <<items, reported, out>>

(* "excel2xoonips -i" without "-c" is refused: nothing is written and the  *)
(* exit status is nevertheless 0.                                          *)
Refuse ==
  /\ status = "running" /\ out = NoFile /\ reported = {}
  /\ status' = "ok"
  /\ UNCHANGED <<items, reported, out>>

Fail ==
  /\ status = "running" /\ out = NoFile
  /\ status' = "fail"
  /\ UNCHANGED <<items, reported, out>>

(* exit(1) from the middle of the work; the import file may be cut short.  *)
Abort ==
  /\ status = "running" /\ out = NoFile
  /\ status' = "abort"
  /\ out' \in {NoFile, PartialFile}
  /\ UNCHANGED <<items, reported>>

Next ==
  \/ \E i \in items : Report(i)
  \/ Publish \/ Succeed \/ Refuse \/ Fail \/ Abort

Spec == Init /\ [][Next]_vars

=============================================================================
