------------------------------ MODULE RowText -------------------------------
(***************************************************************************)
(* template_assign() as a text transformation: the values of a row are     *)
(* bound to field names, the rowset and dataset regions of the template    *)
(* are expanded, and every bound field <{$name}> is replaced by its value, *)
(* by myonig_replace(), in the order of the hash table's buckets.          *)
(*                                                                         *)
(* A text is a sequence of pieces: literals, backslashes, digits, fields   *)
(* and regions.  A field of the template has a name of one part, an        *)
(* element of a dataset the name <<group, field, index>>.                  *)
(***************************************************************************)
EXTENDS Integers, Sequences, SequencesExt

CONSTANTS
  Names,      \* names of fields and of datasets
  Literals,   \* what stands between them
  Templates,  \* templates: texts of literals, fields and regions
  Rows,       \* what the cells of a row bind: sequences of columns
  System      \* the bindings of system.*, made before those of the columns

Lit(x)          == [kind |-> "lit", is |-> x]
Backslash       == [kind |-> "backslash"]
Digit(n)        == [kind |-> "digit", is |-> n]
Field(name)     == [kind |-> "field", name |-> name]
Dataset(g, txt) == [kind |-> "dataset", group |-> g, body |-> txt]
Rowset(txt)     == [kind |-> "rowset", body |-> txt]

(* The pieces of a template.  A region holds no region of its own kind, a  *)
(* dataset none at all; the tags of a rowset are text where it is kept.    *)
RowsetTags   == <<"<{rowset}>", "<{/rowset}>">>
FieldNames   == {<<n>> : n \in Names}
ElementNames == Names \X Names \X Nat
Marks    == [kind : {"lit", "digit"}, is : Literals \cup Range(RowsetTags)] \cup {Backslash}
Fields   == [kind : {"field"}, name : FieldNames]
Elements == [kind : {"field"}, name : ElementNames]
Datasets == [kind : {"dataset"}, group : Names, body : Seq(Marks \cup Fields)]
Rowsets  == [kind : {"rowset"}, body : Seq(Marks \cup Fields \cup Datasets)]

Values  == Seq(Marks \cup Fields)
Columns ==
  [type : {"value"}, binds : Seq([name : FieldNames, text : Values])]
  \cup [type : {"dataset"}, group : Names, fields : Seq(Names), texts : Seq(Values)]

ASSUME TextsAssumption ==
  /\ Templates \subseteq Seq(Marks \cup Fields \cup Datasets \cup Rowsets)
  /\ Rows \subseteq Seq(Columns)
  /\ System \in Seq([name : FieldNames, text : Values])

VARIABLES
  template, row, is_rowset,
  pc,         \* "bind", "rowset", "dataset", "replace", "done", "rejected"
  col,        \* the column bound next
  rep_hash,   \* field name -> text
  dataset,    \* dataset name -> number of elements
  data,       \* the text being made
  todo,       \* keys of rep_hash the loop over the buckets has not reached
  key         \* the key it is at, NoKey between two keys

bindings == <<row, col, rep_hash, dataset>>
vars == <<template, is_rowset, pc, bindings, data, todo, key>>

NoKey == <<>>

Extended(f, name, value) ==
  [x \in DOMAIN f \cup {name} |-> IF x = name THEN value ELSE f[x]]

(* sl4_hash_table_insert() refuses a key it has; nobody looks at the -1.   *)
InsertAll(hash, binds) ==
  LET at(name) == {k \in DOMAIN binds : binds[k].name = name}
  IN  [name \in DOMAIN hash \cup {binds[k].name : k \in DOMAIN binds} |->
         IF name \in DOMAIN hash THEN hash[name] ELSE binds[Min(at(name))].text]

Nothing == [x \in {} |-> <<>>]

Init ==
  /\ template \in Templates /\ row \in Rows /\ is_rowset \in BOOLEAN
  /\ pc = "bind" /\ col = 1
  /\ rep_hash = InsertAll(Nothing, System) /\ dataset = Nothing
  /\ data = <<>> /\ todo = {} /\ key = NoKey

-----------------------------------------------------------------------------
AtColumn == pc = "bind" /\ col <= Len(row)
Column   == row[col]

(* Any type but dataset: the fields of the column and what a file or a     *)
(* license binds besides, in the order of the calls.                       *)
BindColumn ==
  /\ AtColumn /\ Column.type = "value"
  /\ rep_hash' = InsertAll(rep_hash, Column.binds)
  /\ col' = col + 1
  /\ UNCHANGED <<template, row, is_rowset, pc, dataset, data, todo, key>>

ElementBinds(c) ==
  FlattenSeq([i \in DOMAIN c.texts |->
    [q \in DOMAIN c.fields |->
       [name |-> <<c.group, c.fields[q], i - 1>>, text |-> c.texts[i]]]])

(* The columns of a dataset must agree in the number of their elements.    *)
Agrees(n) ==
  Column.group \in DOMAIN dataset => dataset[Column.group] = n

BindDataset ==
  /\ AtColumn /\ Column.type = "dataset"
  /\ Agrees(Len(Column.texts))
  /\ dataset' = Extended(dataset, Column.group, Len(Column.texts))
  /\ rep_hash' = InsertAll(rep_hash, ElementBinds(Column))
  /\ col' = col + 1
  /\ UNCHANGED <<template, row, is_rowset, pc, data, todo, key>>

RejectDataset ==
  /\ AtColumn /\ Column.type = "dataset"
  /\ ~Agrees(Len(Column.texts))
  /\ pc' = "rejected"
  /\ UNCHANGED <<template, is_rowset, bindings, data, todo, key>>

-----------------------------------------------------------------------------
Spliced(txt, k, new) == SubSeq(txt, 1, k - 1) \o new \o SubSeq(txt, k + 1, Len(txt))

IsRowset(x)  == x.kind = "rowset"
IsDataset(x) == x.kind = "dataset"

ColumnsDone ==
  /\ pc = "bind" /\ col > Len(row)
  /\ data' = template /\ pc' = "rowset"
  /\ UNCHANGED <<template, is_rowset, bindings, todo, key>>

(* For an index list one row yields the inside of the rowset region; for   *)
(* items its tags are text like any other.                                 *)
RowsetTaken(txt, index) ==
  LET k == SelectInSeq(txt, IsRowset) IN
  IF k = 0 THEN txt
  ELSE IF index THEN txt[k].body
  ELSE Spliced(txt, k, <<Lit(RowsetTags[1])>> \o txt[k].body \o <<Lit(RowsetTags[2])>>)

TakeRowset ==
  /\ pc = "rowset"
  /\ data' = RowsetTaken(data, is_rowset)
  /\ pc' = "dataset"
  /\ UNCHANGED <<template, is_rowset, bindings, todo, key>>

(* Every field in the region is made one of the dataset's i-th element.    *)
Element(region, i) ==
  [k \in DOMAIN region.body |->
     IF region.body[k].kind = "field"
     THEN Field(<<region.group, region.body[k].name[1], i>>) ELSE region.body[k]]

\* Mutant: elements counted from 1.
CopiesFrom1(region) ==
  FlattenSeq([i \in 1 .. dataset[region.group] |-> Element(region, i)])
Copies(region) ==
  FlattenSeq([i \in 1 .. dataset[region.group] |-> Element(region, i - 1)])

ExpandDataset ==
  /\ pc = "dataset"
  /\ LET k == SelectInSeq(data, IsDataset) IN
     /\ k # 0 /\ data[k].group \in DOMAIN dataset
     /\ data' = Spliced(data, k, Copies(data[k]))
  /\ UNCHANGED <<template, is_rowset, pc, bindings, todo, key>>

(* No column declares the dataset: its size is read through NULL.          *)
UnknownDataset ==
  /\ pc = "dataset"
  /\ LET k == SelectInSeq(data, IsDataset) IN k # 0 /\ data[k].group \notin DOMAIN dataset
  /\ pc' = "crashed"
  /\ UNCHANGED <<template, is_rowset, bindings, data, todo, key>>

RegionsDone ==
  /\ pc = "dataset" /\ SelectInSeq(data, IsDataset) = 0
  /\ todo' = DOMAIN rep_hash /\ pc' = "replace"
  /\ UNCHANGED <<template, is_rowset, bindings, data, key>>

-----------------------------------------------------------------------------
(* What _myonig_replacement_pattern() makes of a value: \0 is the text     *)
(* that matched, \2 to \9, groups the pattern does not have, are nothing,  *)
(* and a backslash before anything else is dropped.  (\1 reads one pair of  *)
(* offsets past those that were set; no row of the runs holds it.)         *)
\* Mutant: an empty value leaves the field in place.
ReplacementOrField(value, match) == IF value = <<>> THEN <<match>> ELSE value
Replacement(value, match) ==
  LET from[k \in 1 .. Len(value) + 2] ==
        IF k > Len(value) THEN <<>>
        ELSE IF value[k] # Backslash THEN <<value[k]>> \o from[k + 1]
        ELSE IF k = Len(value) THEN <<>>
        ELSE IF value[k + 1] = Digit("0") THEN <<match>> \o from[k + 2]
        ELSE IF value[k + 1].kind = "digit" THEN from[k + 2]
        ELSE <<value[k + 1]>> \o from[k + 2]
  IN  from[1]

FirstField(txt, name) == SelectInSeq(txt, LAMBDA x : x = Field(name))
Occurs(name)          == \E k \in DOMAIN data : data[k] = Field(name)

(* The buckets are walked in an order that depends on the hash function    *)
(* and on the size of the table only: here it may be any.                  *)
NextKey ==
  /\ pc = "replace" /\ key = NoKey
  /\ key' \in todo /\ todo' = todo \ {key'}
  /\ UNCHANGED <<template, is_rowset, pc, bindings, data>>

(* myonig_replace() replaces the first occurrence and searches again from  *)
(* the beginning of the text it has made.                                  *)
ReplaceFirst ==
  /\ pc = "replace" /\ key # NoKey /\ Occurs(key)
  /\ data' = LET k == FirstField(data, key)
             IN  Spliced(data, k, Replacement(rep_hash[key], Field(key)))
  /\ UNCHANGED <<template, is_rowset, pc, bindings, todo, key>>

KeyDone ==
  /\ pc = "replace" /\ key # NoKey /\ ~Occurs(key)
  /\ key' = NoKey
  /\ UNCHANGED <<template, is_rowset, pc, bindings, data, todo>>

WriteXml ==
  /\ pc = "replace" /\ key = NoKey /\ todo = {}
  /\ pc' = "done"
  /\ UNCHANGED <<template, is_rowset, bindings, data, todo, key>>

Ended    == pc \in {"done", "rejected", "crashed"}
Finished == Ended /\ UNCHANGED vars

Next ==
  \/ BindColumn \/ BindDataset \/ RejectDataset \/ ColumnsDone
  \/ TakeRowset \/ ExpandDataset \/ UnknownDataset \/ RegionsDone
  \/ NextKey \/ ReplaceFirst \/ KeyDone \/ WriteXml
  \/ Finished

Spec == Init /\ [][Next]_vars

(* A loop of the program: while it can step, it steps.                     *)
FairSpec == Spec /\ WF_vars(Next)

-----------------------------------------------------------------------------
(* What a name is bound to: system.* first, then the columns of the row r  *)
(* from left to right, the first one that has the name.                    *)
ColumnBinds(c) == IF c.type = "value" THEN c.binds ELSE ElementBinds(c)
AllBinds(r)    == System \o FlattenSeq([k \in DOMAIN r |-> ColumnBinds(r[k])])

ValueOf(r, name) ==
  LET binds == AllBinds(r)
      k     == SelectInSeq(binds, LAMBDA b : b.name = name)
  IN  IF k = 0 THEN <<Field(name)>> ELSE binds[k].text

(* The length of the columns of a dataset.                                 *)
SizeOf(r, group) ==
  Max({0} \cup {Len(r[k].texts) :
                  k \in {q \in DOMAIN r : r[q].type = "dataset" /\ r[q].group = group}})

(* The template with every field replaced by its value at once, a dataset  *)
(* region once for every element.                                          *)
Filled(r, txt) ==
  FlattenSeq([k \in DOMAIN txt |->
    IF txt[k].kind = "field" THEN ValueOf(r, txt[k].name) ELSE <<txt[k]>>])
Expanded(r, x) ==
  IF x.kind = "dataset"
  THEN FlattenSeq([i \in 1 .. SizeOf(r, x.group) |-> Filled(r, Element(x, i - 1))])
  ELSE Filled(r, <<x>>)
Rendered(r, txt) == FlattenSeq([k \in DOMAIN txt |-> Expanded(r, txt[k])])

Documented == Rendered(row, RowsetTaken(template, is_rowset))

(* Values that are text and nothing else: a backslash in a value escapes   *)
(* what follows it, and a field in a value is replaced like any other if   *)
(* the table delivers its name later.                                      *)
Plain(txt)     == \A k \in DOMAIN txt : txt[k].kind \in {"lit", "digit"}
PlainValues(r) == LET binds == AllBinds(r) IN \A k \in DOMAIN binds : Plain(binds[k].text)

(* The XML file is the template with the row's values in the place of the  *)
(* fields, word for word, in whatever order the hash table delivers them,  *)
(* a name bound twice counting once and dataset columns in step.           *)
ValuesInPlace == pc = "done" /\ PlainValues(row) => data = Documented

(* A value that puts the field it is put for back into the text: it names  *)
(* the field, or holds a \0 whose backslash is not itself escaped.          *)
PutsBack(value, name) ==
  LET escaped[k \in Nat] == k > 1 /\ value[k - 1] = Backslash /\ ~escaped[k - 1]
  IN  \E k \in DOMAIN value : value[k] = Field(name) \/ (value[k] = Digit("0") /\ escaped[k])

(* The row's text is finished, unless a field of it has such a value, and  *)
(* then the loop never leaves that field.  Nothing else keeps it from its  *)
(* end: fields with values that name each other are replaced once each.    *)
PutBackForEver == key # NoKey /\ Occurs(key) /\ PutsBack(ValueOf(row, key), key)
Termination    == <>Ended \/ <>[]PutBackForEver
=============================================================================
