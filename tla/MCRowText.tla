------------------------------ MODULE MCRowText ------------------------------
(***************************************************************************)
(* Small templates and rows for RowText: two fields and the item number,   *)
(* a dataset of two columns, an index list.                                *)
(***************************************************************************)
EXTENDS RowText, TLC

A == <<"a">>
B == <<"b">>
ItemId == <<"system.item_id">>

MCSystem == <<[name |-> ItemId, text |-> <<Lit("7")>>]>>

MCTemplates ==
  { <<Field(ItemId), Field(A), Lit("x"), Field(B), Field(A)>>,
    <<Lit("x"), Rowset(<<Field(B), Field(A)>>), Lit("y")>>,
    <<Field(A), Dataset("g", <<Field(A), Lit("-"), Field(B)>>), Field(B)>>,
    <<Dataset("g", <<Field(A)>>), Dataset("g", <<Field(B), Field(ItemId)>>)>> }

Value(names, text) ==
  [type |-> "value", binds |-> [k \in DOMAIN names |-> [name |-> names[k], text |-> text]]]
Elems(fields, texts) ==
  [type |-> "dataset", group |-> "g", fields |-> fields, texts |-> texts]

DatasetColumns ==
  { Elems(<<"a">>, <<<<Lit("p")>>>>), Elems(<<"b">>, <<<<Lit("q")>>>>),
    Elems(<<"a", "b">>, <<<<Lit("p")>>, <<Lit("q")>>>>),
    Elems(<<"b">>, <<<<>>, <<Lit("r")>>>>) }

RowsOf(texts) ==
  LET plain == {Value(n, t) : n \in {<<A>>, <<A, B>>, <<B, ItemId>>}, t \in texts}
  IN  {<<x>> : x \in plain} \cup {<<x, y>> : x, y \in plain}
      \cup {<<x, d>> : x \in plain, d \in DatasetColumns}
      \cup {<<d, e, x>> : d, e \in DatasetColumns, x \in plain}

MCNames    == {"a", "b", "g", "system.item_id"}
MCLiterals == {"0", "2", "7", "x", "y", "-", "p", "q", "r", "u", "v"}

(* Values with backslashes and fields in them.  One that puts its own      *)
(* field back does so alone: with anything beside it the text would grow   *)
(* for ever.                                                               *)
OddValues ==
  { <<Backslash, Digit("0")>>, <<Backslash, Backslash, Digit("0"), Backslash>>,
    <<Backslash, Digit("2"), Lit("u")>>, <<Field(A)>>, <<Field(ItemId), Lit("v")>> }
OddColumns ==
  {Value(<<A>>, t) : t \in OddValues \cup {<<Field(B), Lit("u"), Field(B)>>}}
  \cup {Value(<<B>>, t) : t \in OddValues \cup {<<Lit("v"), Field(A)>>}}
  \cup {Elems(<<"a", "b">>, <<<<Field(A)>>, <<Backslash, Digit("0")>>>>)}

MCRows ==
  RowsOf({<<>>, <<Lit("u"), Lit("v")>>})
  \cup {<<x>> : x \in OddColumns} \cup {<<x, y>> : x, y \in OddColumns}
==============================================================================
