---------------------------- MODULE MCConversion ----------------------------
(***************************************************************************)
(* Small workbooks for Conversion: up to three sheets of up to two rows,   *)
(* of cells that are values, rejected, or list up to two paths.            *)
(***************************************************************************)
EXTENDS ConversionInv

Value        == [ok |-> TRUE,  paths |-> <<>>]
Rejected     == [ok |-> FALSE, paths |-> <<>>]
Files(paths) == [ok |-> TRUE,  paths |-> paths]

RowChoices ==
  { <<Value>>, <<Value, Rejected>>, <<Files(<<"local">>)>>,
    <<Files(<<"remote", "local">>)>>, <<Files(<<"local", "missing">>)>>,
    <<Files(<<"local", "local">>), Files(<<"local">>)>>,
    <<Files(<<"local", "unopenable">>)>>, <<Value, Files(<<"unopenable">>)>>,
    <<Files(<<"unconvertible">>)>>, <<Files(<<"unreadable">>)>>,
    <<Files(<<"unreadable", "local">>)>> }

Configured(rows) == [template |-> TRUE, ini |-> TRUE, rows |-> rows]

Sheets ==
  {Configured(<<>>)} \cup
  {Configured(<<x>>) : x \in RowChoices} \cup
  {Configured(<<x, y>>) : x, y \in RowChoices}

Unconfigured == [template |-> TRUE, ini |-> FALSE, rows |-> <<<<Value>>>>]

MCWorkbooks ==
  {<<>>, <<Unconfigured>>, <<Configured(<<<<Value>>>>), Unconfigured>>}
  \cup {<<x>> : x \in Sheets}
  \cup {<<x, Configured(<<y>>)>> : x \in Sheets, y \in RowChoices}
  \cup {<<Configured(<<>>), Configured(<<<<Value>>>>), Configured(<<<<Value>>>>)>>}

MCModes == [compat : BOOLEAN, index : BOOLEAN]

(* A run without a fault, one in which anything but listing a directory    *)
(* may go wrong, and one in which everything may.                          *)
MCFaultSets == {{}, FaultKinds \ {"list"}, FaultKinds}
MCZipOpen   == {{"zipopen"}}
=============================================================================
